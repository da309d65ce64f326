SPECIFICATION FairSched
CONSTANTS
    Threads = {a, b, c}
    Idle = idle
    Resume = resume
    Choose = choose
    NumPrios = 3
    WordBits = 2
    TimeSlice = 2
INVARIANTS
    QueuesExact
    NobodyLost
    HighestRuns
PROPERTIES
    RoundRobin
