--------------------------- MODULE TargetSelection ---------------------------
(***************************************************************************)
(* How the client picks what the agent attaches to inside a target pod     *)
(* (mirrord/kube/src/api/container.rs): check_mesh_vendor reads the pod's  *)
(* ambient annotation and the names of its container and init-container    *)
(* statuses; choose_container picks the container to target from the       *)
(* container statuses.                                                     *)
(*                                                                         *)
(* A pod is a record: ambient is what the annotation                       *)
(* ambient.istio.io/redirection holds ("absent", "enabled" or another      *)
(* value), status whether .status is present, containers and inits the     *)
(* name sequences of container_statuses and init_container_statuses, and   *)
(* hasContainers, hasInits whether those fields are present at all.        *)
(* Names are the strings of the code.                                      *)
(***************************************************************************)
EXTENDS Sequences, SequencesExt

\* Option::None of a field, and of a result.
None == "None"

\* TELEPRESENCE_CONTAINER_NAME and SKIP_NAMES: sidecars never chosen while
\* the pod has another container.
TelepresenceContainerName == "traffic-agent"

SkipNames == {"kuma-sidecar", "kuma-init", "istio-proxy", "istio-init",
              "linkerd-proxy", "linkerd-init", "vault-agent",
              "vault-agent-init", "queue-proxy", TelepresenceContainerName}

\* The name lists check_mesh_vendor matches against.
Istio    == {"istio-proxy", "istio-init"}
Linkerd  == {"linkerd-proxy", "linkerd-init"}
Kuma     == {"kuma-sidecar", "kuma-init"}
IstioCni == {"istio-proxy", "istio-validation"}

(***************************************************************************)
(* check_mesh_vendor: IstioAmbient when the annotation is "enabled";       *)
(* otherwise `?` returns None as soon as .status, container_statuses or    *)
(* init_container_statuses is absent; otherwise the names of both lists,   *)
(* tested in order: all of IstioCni, then any of Istio, Linkerd, Kuma.     *)
(***************************************************************************)
CheckMeshVendor(pod) ==
    IF pod.ambient = "enabled" THEN "IstioAmbient"
    ELSE IF ~pod.status \/ ~pod.hasContainers \/ ~pod.hasInits THEN None
    ELSE LET names == ToSet(pod.containers \o pod.inits)
         IN  CASE IstioCni \subseteq names   -> "IstioCni"
               [] Istio \cap names # {}      -> "Istio"
               [] Linkerd \cap names # {}    -> "Linkerd"
               [] Kuma \cap names # {}       -> "Kuma"
               [] OTHER                      -> None

(***************************************************************************)
(* choose_container(container_name, container_statuses): with a name, the *)
(* first status of that name (or none).  Without one, the iterator over   *)
(* the statuses outside SkipNames gives the first candidate; when it is   *)
(* empty the first status is taken and picked_from_many is whether there  *)
(* were several; either way a second next() on the (then exhausted)       *)
(* iterator sets picked_from_many when a second candidate follows.        *)
(***************************************************************************)
\* A named container that is not found falls back to the unnamed choice.
ChooseContainerNamedFallback(name, statuses) ==
    LET named == SelectSeq(statuses, LAMBDA n : n = name)
        refs == SelectSeq(statuses, LAMBDA n : n \notin SkipNames)
    IN  [container |-> IF name # None /\ named # <<>> THEN Head(named)
                       ELSE IF refs # <<>> THEN Head(refs)
                       ELSE IF statuses = <<>> THEN None ELSE Head(statuses),
         pickedFromMany |-> name = None /\ Len(refs) > 1]

ChooseContainer(name, statuses) ==
    IF name # None
    THEN LET named == SelectSeq(statuses, LAMBDA n : n = name)
         IN  [container |-> IF named = <<>> THEN None ELSE Head(named),
              pickedFromMany |-> FALSE]
    ELSE LET refs == SelectSeq(statuses, LAMBDA n : n \notin SkipNames)
             fallback == refs = <<>>
             first == IF ~fallback THEN Head(refs)
                      ELSE IF statuses = <<>> THEN None ELSE Head(statuses)
             picked == fallback /\ Len(statuses) > 1
         IN  [container |-> first,
              pickedFromMany |-> picked \/ Len(refs) > 1]

=============================================================================
