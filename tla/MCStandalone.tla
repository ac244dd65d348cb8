---------------------------- MODULE MCStandalone ----------------------------
(***************************************************************************)
(* Checks the components that keep no state shared with the others, each  *)
(* selected by the kind of the input Init picks.  The pure functions are  *)
(* checked against reference definitions over every bounded input:        *)
(* resolve_path over request paths and a small tree with symlinks,        *)
(* check_mesh_vendor and choose_container over small pods, the operator's *)
(* feature fields over every feature set, next_frames over every short    *)
(* poll sequence of a body; for them the input never changes, so each     *)
(* invariant ranges over all inputs.  The input "life" instead runs the   *)
(* layer's lifecycle in a small process tree (LayerLifecycle), and the     *)
(* input "chain" the iptables chain handle with one caller, failures,     *)
(* crashes and reloads (IPTablesChain).                                   *)
(***************************************************************************)
EXTENDS PathResolution, Integers, FiniteSets, TLC
LOCAL INSTANCE SequencesExt

TS == INSTANCE TargetSelection
OF == INSTANCE OperatorFeatures
BB == INSTANCE BatchedBody
RR == INSTANCE RolloutResolution
RP == INSTANCE AddRpaths
TD == INSTANCE TlsDelivery

\* Four processes, a program the configuration skips and one it does not,
\* and room for the sessions of a launch and three forks or execs.
LifeProcs == 1..4
LifePrograms == {"app", "skipped"}
LifeSkip == {"skipped"}
LifeMaxSessions == 4

VARIABLES proc, sessions, config

\* One caller of the chain handle (two break RulesBeforeReturn, see the
\* iptables_concurrent run), three redirect rules, failing iptables calls,
\* and room for four redirect rules besides RETURN, so a rule can occur
\* twice and remove_rule's first match matters.
ChainCallers == {"c1"}
ChainRules == {"r1", "r2", "r3"}
ChainMaxSize == 5

VARIABLES chainExists, chainRules, chainHandle, chainSize, chainPc, chainIdx

IC == INSTANCE IPTablesChain
        WITH Callers <- ChainCallers, Rules <- ChainRules, Fallible <- TRUE,
             MaxSize <- ChainMaxSize, exists <- chainExists, rules <- chainRules,
             handle <- chainHandle, size <- chainSize, pc <- chainPc, idx <- chainIdx

LL == INSTANCE LayerLifecycle
        WITH Procs <- LifeProcs, Programs <- LifePrograms,
             SkipProcesses <- LifeSkip, MaxSessions <- LifeMaxSessions

CONSTANTS
    MaxDepth,      \* components of a request path
    MaxContainers, \* container statuses of a pod
    MaxPolls       \* polls of a body before it ends or fails

-----------------------------------------------------------------------------
(* Inputs.                                                                 *)

\* /l -> /d and /d/l -> /f (absolute), /d/m -> f (relative, a sibling in
\* /d).
MCLinks == (<<"l">> :> [abs |-> TRUE, comps |-> <<"d">>])
        @@ (<<"d", "l">> :> [abs |-> TRUE, comps |-> <<"f">>])
        @@ (<<"d", "m">> :> [abs |-> FALSE, comps |-> <<"f">>])

\* As above, and /d/e -> ../../f: a relative link with more ".." than its
\* depth, which the target itself resolves to /f.
MCLinksDeep == (<<"d", "e">> :> [abs |-> FALSE, comps |-> <<"..", "..", "f">>])
            @@ MCLinks

Requests == SeqOf(Components, MaxDepth)

\* Status name lists without repeated names (Kubernetes names are unique
\* within a pod), or an absent field.
NameLists(names, n) == {s \in SeqOf(names, n) : IsInjective(s)}

ContainerNames == {"app", "istio-proxy", "linkerd-proxy", "vault-agent"}
InitNames == {"istio-init", "istio-validation", "linkerd-init"}

Pods ==
    [ambient : {"absent", "enabled", "other"}, status : {TRUE},
     hasContainers : BOOLEAN, containers : NameLists(ContainerNames, MaxContainers),
     hasInits : BOOLEAN, inits : NameLists(InitNames, 2)]
      \cup [ambient : {"absent"}, status : {FALSE},
            hasContainers : {FALSE}, containers : {<<>>},
            hasInits : {FALSE}, inits : {<<>>}]

\* The container name of the target configuration, if any.
ConfiguredNames == {TS!None, "app", "istio-proxy", "db"}

\* Features an operator of this or a newer release may support.
OperatorFeatureSets == SUBSET (OF!NewFeatures \cup {"Future"})

\* Bodies: up to MaxPolls polls giving a frame ("a" or "b") or pending, then
\* the end or an error.
Schedules == {s \o <<t>> : s \in SeqOf({"a", "b", "pending"}, MaxPolls),
                           t \in {"end", "error"}}

\* Rollouts: every combination of the spec's template, workloadRef and
\* selector fields, the referenced workload found, unknown or failing; and
\* a rollout without .spec.
Rollouts ==
    [hasSpec : {TRUE}, template : {RR!None, "inline"},
     workloadRef : {RR!None, "known", "unknown", "failing"},
     selector : {RR!None, "own"}]
      \cup [hasSpec : {FALSE}, template : {RR!None}, workloadRef : {RR!None},
            selector : {RR!None}]

\* add_rpaths: a binary and up to three rpath entries (repeats included),
\* and every outcome of running install_name_tool.
RpathCalls ==
    [path : {"bin"}, entries : SeqOf({"e1", "e2", "e3"}, 3),
     outcome : {"io", "success", "failure"}]

\* Every combination of the fields LocalTlsDelivery::verify reads.
TlsConfigs ==
    [protocol : {"tcp", "tls"}, trustRoots : {TD!None, "empty", "nonempty"},
     serverCert : {TD!None, "given"}, serverName : {TD!None, "dns", "ip", "invalid"}]

Inputs ==
    [kind : {"path"}, req : Requests]
      \cup [kind : {"pod"}, pod : Pods, name : ConfiguredNames]
      \cup [kind : {"operator"}, fs : OperatorFeatureSets]
      \cup [kind : {"body"}, polls : Schedules]
      \cup [kind : {"rollout"}, rollout : Rollouts]
      \cup [kind : {"life"}]
      \cup [kind : {"chain"}]
      \cup [kind : {"rpath"}, call : RpathCalls]
      \cup [kind : {"tls"}, config : TlsConfigs]

VARIABLE input

lifeVars == <<proc, sessions, config>>
chainVars == <<chainExists, chainRules, chainHandle, chainSize, chainPc, chainIdx>>
vars == <<input, lifeVars, chainVars>>

\* The lifecycle's variables when the input is not "life".
LifeIdle ==
    /\ proc = [p \in LifeProcs |-> LL!Unused]
    /\ sessions = <<>>
    /\ config = [loadFromProcess |-> FALSE, traceOnly |-> FALSE]

Init ==
    /\ input \in Inputs
    /\ IF input.kind = "life" THEN LL!Init ELSE LifeIdle
    /\ IC!Init

\* A process tree may end, when all its processes have exited.
Next ==
    \/ input.kind \notin {"life", "chain"} /\ UNCHANGED vars
    \/ input.kind = "life" /\ LL!Next /\ UNCHANGED <<input, chainVars>>
    \/ input.kind = "chain" /\ IC!Next /\ UNCHANGED <<input, lifeVars>>

Spec == Init /\ [][Next]_vars

-----------------------------------------------------------------------------
(* Reference definitions.                                                  *)

\* The three steps of choose_container's doc comment: the container of the
\* given name; without a name, the first one outside the skip list, or
\* the first one if all are skipped.
ChoiceReference(name, cs) ==
    IF name # TS!None
    THEN [container |-> IF \E i \in DOMAIN cs : cs[i] = name THEN name ELSE TS!None]
    ELSE LET app == {i \in DOMAIN cs : cs[i] \notin TS!SkipNames}
             cand == IF app # {} THEN app ELSE DOMAIN cs
         IN  [container |-> IF cand = {} THEN TS!None ELSE cs[Min(cand)]]

\* The caller's loop over next_frames: call it until a batch is the last
\* one or an error is returned.
RECURSIVE Batches(_)
Batches(s) ==
    LET b == BB!NextFrames(s)
    IN  IF b.isLast \/ b.err THEN <<b>> ELSE <<b>> \o Batches(b.rest)

\* The frames of a body, before it ends or fails.
BodyFrames(s) == SelectSeq(s, LAMBDA p : p \notin BB!NotFrames)

-----------------------------------------------------------------------------
(* Properties.                                                             *)

\* Specification 4.2: the agent resolves a requested path "with an explicit
\* symlink traversal that refuses to escape the target root": whatever
\* resolve_path accepts, the host kernel looks up below the root.
ResolveStaysInRoot ==
    input.kind = "path" =>
        LET r == ResolvePath(input.req)
        IN  r.ok => HostLookup(r.path).inside

\* resolve_path opens, when it accepts a path, the very file the target
\* process would reach with the same path inside its own root.
ResolveMatchesTarget ==
    input.kind = "path" =>
        LET r == ResolvePath(input.req)
        IN  r.ok => HostLookup(r.path) = [inside |-> TRUE, path |-> TargetLookup(input.req)]

\* choose_container's doc comment: the container the agent targets is the
\* one of the given name (none when the pod has no such container), else
\* the first container that is not a mesh or tooling sidecar, else the
\* first container, for every order of container statuses.  The returned
\* flag is not compared: the comment calls it "whether we are [in a mesh]"
\* while the code computes picked_from_many.
ChoiceMatchesReference ==
    (input.kind = "pod" /\ input.pod.hasContainers) =>
        TS!ChooseContainer(input.name, input.pod.containers).container
          = ChoiceReference(input.name, input.pod.containers).container

\* The compatibility rules of MirrordOperatorSpec's comments: whatever a
\* current or newer operator supports, an old client can still parse the
\* deprecated list and learns from it exactly the proxy-API and
\* copy-target support; a client of this code finds every feature it
\* knows by require_feature, and a feature newer than it as Unknown.
FeatureViewsAgree ==
    input.kind = "operator" =>
        LET spec == OF!New(input.fs)
            seen == OF!Decode(spec)
        IN  /\ spec.features \in {OF!None} \cup {OF!Some(old) : old \in SUBSET OF!OldFeatures}
            /\ OF!OldClientFeatures(spec) = input.fs \cap {"ProxyApi", "CopyTarget"}
            /\ \A f \in OF!NewFeatures : OF!RequireFeature(seen, f) <=> f \in input.fs
            /\ (OF!Unknown \in OF!SupportedFeatures(seen)) <=> ("Future" \in input.fs)

\* The protocol's body streaming reads each body through next_frames
\* batches: the frames come out once each, in order, with no batch empty
\* before the last one, the end reported exactly once on the last batch,
\* and after an error only frames of the body were delivered.
BatchesDeliverBody ==
    input.kind = "body" =>
        LET bs == Batches(input.polls)
            got == FoldLeft(LAMBDA acc, b : acc \o b.frames, <<>>, bs)
            body == BodyFrames(input.polls)
        IN  /\ \A i \in 1..(Len(bs) - 1) : bs[i].frames # <<>> /\ ~bs[i].isLast
            /\ IF Last(input.polls) = "end"
               THEN Last(bs).isLast /\ got = body
               ELSE Last(bs).err /\ IsPrefix(got, body)

(***************************************************************************)
(* The rules of Rollout's doc comments: the pod template comes from         *)
(* exactly one of the inline template and the workloadRef, and resolves    *)
(* only when the referenced workload is found; the rollout's own selector  *)
(* overrides the referenced workload's.  get_pod_template and              *)
(* get_match_labels resolve, and take their value from where, exactly as   *)
(* these rules say, for every combination of fields.                       *)
(***************************************************************************)
RolloutMatchesReference ==
    input.kind = "rollout" =>
        LET r == input.rollout
            t == RR!GetPodTemplate(r)
            l == RR!GetMatchLabels(r)
            inline == r.template # RR!None
            hasRef == r.workloadRef # RR!None
        IN  /\ t.ok <=> (r.hasSpec /\ inline # hasRef /\ (hasRef => r.workloadRef = "known"))
            /\ t.ok => t.val = IF inline THEN "rollout" ELSE "workload"
            /\ l.ok <=> (r.hasSpec /\ (r.selector # RR!None \/ r.workloadRef = "known"))
            /\ l.ok => l.val = IF r.selector # RR!None THEN "rollout" ELSE "workload"

(***************************************************************************)
(* add_rpaths' doc comment: install_name_tool gets "a loader command for  *)
(* each given rpath entry": its arguments are one `-add_rpath ENTRY` pair *)
(* per entry, in order, then the binary; no command runs for no entries,  *)
(* and the call succeeds exactly when nothing ran or the tool succeeded.  *)
(***************************************************************************)
RpathArgsPaired ==
    input.kind = "rpath" =>
        LET c == input.call
            r == RP!AddRpaths(c.path, c.entries, c.outcome)
        IN  /\ r.ran <=> c.entries # <<>>
            /\ r.ran => r.args = FlattenSeq([i \in DOMAIN c.entries |->
                                               <<RP!AddRpathFlag, c.entries[i]>>])
                                 \o <<c.path>>
            /\ (r.result = "ok") <=> (~r.ran \/ c.outcome = "success")

(***************************************************************************)
(* The documentation of LocalTlsDelivery's fields, for protocol tls:      *)
(* server_name "must be a valid DNS name or an IP address", trust_roots   *)
(* and server_cert "cannot be specified together", and trust_roots        *)
(* "cannot be an empty list".  verify accepts exactly the tls             *)
(* configurations these rules allow, and an error names a rule the         *)
(* configuration breaks.  Protocol tcp is left out: the Tcp arm's comment  *)
(* says the other settings are ignored, yet the server_name check after    *)
(* the match still rejects a tcp configuration (a recorded hazard).        *)
(***************************************************************************)
TlsVerifyMatchesDocs ==
    (input.kind = "tls" /\ input.config.protocol = "tls") =>
        LET c == input.config
            r == TD!Verify(c)
            nameOk == c.serverName = TD!None \/ TD!ServerNameValid(c.serverName)
            conflict == c.trustRoots # TD!None /\ c.serverCert # TD!None
            emptyRoots == c.trustRoots = "empty"
        IN  /\ (r = "ok") <=> (nameOk /\ ~conflict /\ ~emptyRoots)
            /\ r = "conflict" => conflict
            /\ r = "invalid_trust_roots" => emptyRoots
            /\ r = "invalid_server_name" => ~nameOk

\* The chain handle's type invariant.
ChainTypeOK == IC!TypeOK

(***************************************************************************)
(* With one caller, failing iptables calls, crashes and reloads, whenever *)
(* no add_rule or remove_rule is in flight a live handle's chain_size      *)
(* equals its chain's rule count: add_rule's rollback and remove_rule's    *)
(* skipped fetch_sub keep it exact, and load re-derives it.               *)
(***************************************************************************)
CounterMatchesChain == IC!CounterMatchesChain

(***************************************************************************)
(* add_rule inserts at the counter's index, so RETURN stays the chain's    *)
(* last rule and every redirect rule is reached by packets.               *)
(***************************************************************************)
RulesBeforeReturn == IC!RulesBeforeReturn

(***************************************************************************)
(* The handle implements RedirectChain: what packets traverse changes     *)
(* only as a list of redirects under append and remove-first does.        *)
(***************************************************************************)
ImplementsRedirectChain == IC!ImplementsRedirectChain

\* The lifecycle's type invariant.
LifeTypeOK == LL!TypeOK

(***************************************************************************)
(* Specification 4.4: after fork the parent's proxy connection stays only *)
(* in the parent (fork_detour replaces it in the child).  Two live        *)
(* processes whose hooks send requests never share a proxy session,       *)
(* through any sequence of launches, forks and execs of skipped and       *)
(* hooked programs; and a trace-only tree never opens one.                *)
(***************************************************************************)
SessionsNotShared == LL!SessionsNotShared

(***************************************************************************)
(* The MIRRORD_REMOTE_ENV_FETCHED marker that layer_start sets keeps the  *)
(* remote environment from being applied twice along any chain of forks  *)
(* and execs, so a value a process changed after the fetch is never       *)
(* overwritten in it or in a descendant that inherits its environment.    *)
(***************************************************************************)
EnvFetchedOnce == LL!EnvFetchedOnce
=============================================================================
