CONSTANTS
    Names = {"d", "f", "l", "m"}
    Links <- MCLinks
    MaxDepth = 3
    MaxContainers = 3
    MaxPolls = 4
SPECIFICATION Spec
INVARIANT ResolveStaysInRoot
INVARIANT ResolveMatchesTarget
INVARIANT ChoiceMatchesReference
INVARIANT FeatureViewsAgree
INVARIANT BatchesDeliverBody
INVARIANT RolloutMatchesReference
INVARIANT RpathArgsPaired
INVARIANT TlsVerifyMatchesDocs
INVARIANT ChainTypeOK
INVARIANT CounterMatchesChain
INVARIANT RulesBeforeReturn
PROPERTY ImplementsRedirectChain
INVARIANT LifeTypeOK
INVARIANT SessionsNotShared
INVARIANT EnvFetchedOnce
CHECK_DEADLOCK FALSE
