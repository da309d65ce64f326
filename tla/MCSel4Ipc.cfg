SPECIFICATION KernelSpec
CONSTANTS
    Threads = {t1, t2, t3}
    Endpoints = {e1, e2}
    Msgs = {m1}
    NoThread = NoThread
    NoMsg = NoMsg
SYMMETRY Symmetry
INVARIANTS
    QueueInv
    ReplyInv
PROPERTIES
    ResumedRightly
    FirstComeFirstServed
