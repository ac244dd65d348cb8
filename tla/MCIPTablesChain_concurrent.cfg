CONSTANTS
    Callers = {t1, t2}
    Rules = {r1, r2}
    Fallible = FALSE
    MaxSize = 3
SPECIFICATION Spec
INVARIANT RulesBeforeReturn
