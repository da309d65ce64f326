SPECIFICATION Spec
CONSTANTS
    Clients = {"c1", "c2"}
    Servers = {"relay", "store", "log"}
    Threads = {"c1", "c2", "relay", "store", "log"}
    Endpoints = {"relay", "store", "log"}
    Msgs = {"a", "b", "ack"}
    Ack = "ack"
    NoThread = NoThread
    NoMsg = NoMsg
    Body <- MCBody
    Oversized = {}
    Malformed = {"a"}
    HandlerReturns = {"CEA_DISCARD"}
    Asserts = TRUE
INVARIANTS
    DiscardKeepsServing
CHECK_DEADLOCK FALSE
