SPECIFICATION Spec
CONSTANTS
    Threads = {a, b, c}
    Endpoints = {e}
    Msgs = {m}
    NoThread = none
    NoMsg = nomsg
    Idle = idle
    Resume = resume
    Choose = choose
    NumPrios = 3
    WordBits = 2
    TimeSlice = 1
SYMMETRY Sym
INVARIANTS
    ReadyExact
    CurrentHighest
PROPERTIES
    FastIsSlow
