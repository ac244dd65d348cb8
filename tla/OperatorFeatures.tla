-------------------------- MODULE OperatorFeatures --------------------------
(***************************************************************************)
(* How the operator advertises its features to clients of several         *)
(* releases (mirrord/operator/src/crd.rs, MirrordOperatorSpec).  The       *)
(* status object carries three fields: the deprecated `features` (a list  *)
(* of OperatorFeatures, which has the one variant ProxyApi and no serde    *)
(* fallback, so an old client rejects any other value), the deprecated    *)
(* `copy_target_enabled`, and `supported_features` (NewOperatorFeature,   *)
(* whose #[serde(other)] variant Unknown absorbs features a client does   *)
(* not know yet).                                                          *)
(*                                                                         *)
(* Feature lists are sets (the code only asks `contains`).  An Option     *)
(* field is a sequence of at most one value: None is <<>>, Some(v) is      *)
(* <<v>>.  "Future" stands for a feature of an operator newer than this    *)
(* code.                                                                   *)
(***************************************************************************)
EXTENDS Sequences

None == <<>>
Some(v) == <<v>>

\* The variants of OperatorFeatures and of NewOperatorFeature.
OldFeatures == {"ProxyApi"}
NewFeatures == {"ProxyApi", "CopyTarget", "SqsQueueSplitting", "SessionManagement"}
Unknown == "Unknown"

\* MirrordOperatorSpec::new(supported_features): the deprecated fields are
\* filled with what old clients can understand.
\* copy_target_enabled computed from the wrong feature.
NewCopyFromProxy(fs) ==
    [features |-> IF "ProxyApi" \in fs THEN Some({"ProxyApi"}) ELSE None,
     copyTargetEnabled |-> Some("ProxyApi" \in fs),
     supportedFeatures |-> Some(fs)]

New(fs) ==
    [features |-> IF "ProxyApi" \in fs THEN Some({"ProxyApi"}) ELSE None,
     copyTargetEnabled |-> Some("CopyTarget" \in fs),
     supportedFeatures |-> Some(fs)]

\* Deserializing supported_features in a client built from this code: a
\* variant it does not know becomes Unknown (#[serde(other)]).
Decode(spec) ==
    [spec EXCEPT !.supportedFeatures =
        IF @ = None THEN None
        ELSE Some({IF f \in NewFeatures THEN f ELSE Unknown : f \in Head(@)})]

\* impl From<&OperatorFeatures> for NewOperatorFeature.
FromOld(f) == CASE f = "ProxyApi" -> "ProxyApi"

(***************************************************************************)
(* supported_features(): supported_features when it was sent; otherwise   *)
(* the features list mapped to the new enum, with CopyTarget added when    *)
(* copy_target_enabled is Some(true); empty when features is absent.      *)
(***************************************************************************)
SupportedFeatures(spec) ==
    IF spec.supportedFeatures # None THEN Head(spec.supportedFeatures)
    ELSE IF spec.features = None THEN {}
    ELSE {FromOld(f) : f \in Head(spec.features)}
           \cup (IF spec.copyTargetEnabled = Some(TRUE) THEN {"CopyTarget"} ELSE {})

\* require_feature(feature): Ok exactly when supported_features() has it.
RequireFeature(spec, f) == f \in SupportedFeatures(spec)

\* A client released before supported_features existed reads only the
\* deprecated fields: proxy API from `features`, copy target from
\* `copy_target_enabled` (the fields' doc comments).
OldClientFeatures(spec) ==
    (IF spec.features # None /\ "ProxyApi" \in Head(spec.features)
        THEN {"ProxyApi"} ELSE {})
      \cup (IF spec.copyTargetEnabled = Some(TRUE) THEN {"CopyTarget"} ELSE {})

=============================================================================
