SPECIFICATION Spec
CONSTANTS
    Control = control
    Runner = runner
    Others = {iface}
    MaxEvents = 2
    MaxCalls = 2
INVARIANTS
    CounterExact
    PhasesKeptApart
    OwnResponse
    CallbacksExact
PROPERTIES
    EverythingStarts
    StubsReturn
    EventsArrive
