\* The program as it is: SetSelected calls the handler, which locks again.
SPECIFICATION FairSpec
CONSTANTS
    Mutexes = {"plain"}
    MaxQueued = 2
    MaxFaults = 2
PROPERTY ShowOpens
\* A thread that waits for its own mutex stops the program.
CHECK_DEADLOCK FALSE
