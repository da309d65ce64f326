SPECIFICATION FairSpec
CONSTANTS
    Clients <- Controls
    Servers <- Interfaces
    Threads = {"modtx", "signtx", "modchk_iface", "crypto_iface", "modtx_iface", "signtx_iface"}
    Endpoints <- Interfaces
    Msgs <- DeviceMsgs
    Printed = Printed
    Ack = Printed
    NoThread = NoThread
    NoMsg = NoMsg
    Body <- DeviceBody
    Oversized <- Unterminated
    Malformed = {}
    HandlerReturns = {"CEA_HALT"}
    Asserts = TRUE
INVARIANTS
    ValidMeansVerified
CHECK_DEADLOCK FALSE
