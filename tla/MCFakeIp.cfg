SPECIFICATION FakeIpSpec
CONSTANTS
    d1 = d1
    d2 = d2
    d3 = d3
    d4 = d4
    None = None
    Domains = {d1, d2, d3, d4}
    Top = 11
    Ranges <- MCRanges
    Persistent = TRUE
    Faults <- MCFaults
SYMMETRY DomainSymmetry
INVARIANTS
    InRange
    Routed
PROPERTIES
    OldestFirst
