SPECIFICATION Spec
CONSTANTS
    c1 = c1
    c2 = c2
    Client = {c1, c2}
    Value = {1}
    MaxFaults = 2
SYMMETRY ClientSymmetry
INVARIANTS
    TypeOK
    KeysAgree
    LoadsWhatWasStored
\* A store that no key opens refuses every call; nothing repairs it.
CHECK_DEADLOCK FALSE
