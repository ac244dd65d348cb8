CONSTANTS
    Callers = {t1}
    Rules = {r1, r2}
    Fallible = TRUE
    MaxSize = 4
SPECIFICATION Spec
INVARIANT ChainHasOwner
