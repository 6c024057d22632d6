\* The program's mutex lets no Show open a form and stops the program.
SPECIFICATION Spec
CONSTANTS
    Mutexes = {"plain", "reentrant"}
    MaxQueued = 2
    MaxFaults = 2
INVARIANTS
    TypeOK
    MemoryIsDisk
    ShownFitsProvider
CHECK_DEADLOCK FALSE
