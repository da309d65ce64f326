SPECIFICATION Spec
CONSTANTS
    Clients = {"c1", "c2"}
    Servers = {"relay", "store", "log"}
    Threads = {"c1", "c2", "relay", "store", "log"}
    Endpoints = {"relay", "store", "log"}
    Msgs = {"a", "b", "ack"}
    Ack = "ack"
    NoThread = NoThread
    NoMsg = NoMsg
    Body <- MCBody
    Oversized = {"a"}
    Malformed = {"a", "b"}
    HandlerReturns = {"CEA_ABORT", "CEA_HALT"}
    Asserts = TRUE
INVARIANTS
    ReplyCapTracked
    CalleeHoldsReplyCap
    RequestIntact
PROPERTIES
    ImplementsService
CHECK_DEADLOCK FALSE
