SPECIFICATION FairSpec
CONSTANTS
    l1 = l1
    l2 = l2
    top = top
    sub = sub
    pick = pick
    Absent = Absent
    Pending = Pending
    Leaves = {l1, l2}
    UrlTests = {top, sub}
    Selectors = {pick}
    Setups <- SmallSetups
    ForcedCallers = {"api"}
    Delays = {1, 3}
    Tolerance = 1
    Dialers = {"d1"}
INVARIANTS
    SafetyInv
    UrlTestReplaces
PROPERTIES
    DeadIsLeft
    RefreshEnds
