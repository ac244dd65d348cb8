------------------------- MODULE RolloutResolution -------------------------
(***************************************************************************)
(* How the client reads the pods of an Argo Rollout target                 *)
(* (mirrord/kube/src/api/kubernetes/rollout.rs): get_pod_template and      *)
(* get_match_labels take the pod template and the label selector from the  *)
(* rollout's spec, or fetch them from the workload its workloadRef names.  *)
(*                                                                         *)
(* A rollout is a record: whether .spec is present, and which of its        *)
(* template, workloadRef and selector fields are filled.  A filled          *)
(* workloadRef is described by what fetching it gives: "known" (the         *)
(* referenced resource has the field), "unknown" (WorkloadRef's lookup      *)
(* returns Ok(None): a kind it does not know) or "failing" (the API         *)
(* request returns an error, propagated with `?`).  A result is Ok of       *)
(* where the value came from, or Err of the error's kind.                   *)
(***************************************************************************)

\* Option::None of a field.
None == "none"

Ok(from) == [ok |-> TRUE, val |-> from, err |-> None]
Err(kind) == [ok |-> FALSE, val |-> None, err |-> kind]

\* The referenced workload's field, fetched through the workloadRef; Ok(None)
\* is turned into an invalid_state error naming the unknown resource.
FetchFromRef(ref, from) ==
    CASE ref = "known"   -> Ok(from)
      [] ref = "unknown" -> Err("invalid_state")
      [] ref = "failing" -> Err("api")

(***************************************************************************)
(* get_pod_template: .spec must be present; then the match arms in order:  *)
(* both template and workloadRef filled, neither filled, the inline        *)
(* template, the referenced workload's template.                           *)
(***************************************************************************)
GetPodTemplate(r) ==
    IF ~r.hasSpec THEN Err("missing_field")
    ELSE IF r.template # None /\ r.workloadRef # None THEN Err("invalid_state")
    ELSE IF r.template = None /\ r.workloadRef = None THEN Err("invalid_state")
    ELSE IF r.template # None THEN Ok("rollout")
    ELSE FetchFromRef(r.workloadRef, "workload")

\* A selector lookup that asks the referenced workload before the rollout's
\* own selector.
GetMatchLabelsRefFirst(r) ==
    IF ~r.hasSpec THEN Err("missing_field")
    ELSE IF r.selector = None /\ r.workloadRef = None THEN Err("invalid_state")
    ELSE IF r.workloadRef # None THEN FetchFromRef(r.workloadRef, "workload")
    ELSE Ok("rollout")

(***************************************************************************)
(* get_match_labels: .spec must be present; then neither selector nor      *)
(* workloadRef filled is an error, the rollout's own selector wins, and    *)
(* otherwise the referenced workload's selector is fetched.                *)
(***************************************************************************)
GetMatchLabels(r) ==
    IF ~r.hasSpec THEN Err("missing_field")
    ELSE IF r.selector = None /\ r.workloadRef = None THEN Err("invalid_state")
    ELSE IF r.selector # None THEN Ok("rollout")
    ELSE FetchFromRef(r.workloadRef, "workload")

=============================================================================
