SPECIFICATION Spec
CONSTANTS
    s1 = s1
    s2 = s2
    Session = {s1, s2}
    MaxFaults = 4
SYMMETRY SessionSymmetry
INVARIANTS
    TypeOK
    TunnelFollows
    FileFollows
