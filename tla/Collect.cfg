SPECIFICATION FairSpec
CONSTANTS
    r1 = r1
    r2 = r2
    r3 = r3
    r4 = r4
    r5 = r5
    a = a
    aOld = aOld
    b = b
    c = c
    d = d
    e = e
    f = f
    Names <- MCNames
    Limit = 2
    Blank = {r2}
    Presets = {a, aOld, b, c, d, e, f}
    Missing = {a, f}
    Broken = {e}
    Extends <- MCExtends
    Fallback <- MCFallback
    MaxDepth = 2
    Pushed = {b}
    MaxPush = 1
    None = None
INVARIANTS
    AllOrNothing
    FetchedOnce
    SameVersion
    CauseReported
    VerdictRight
PROPERTIES
    Returns
CHECK_DEADLOCK FALSE
