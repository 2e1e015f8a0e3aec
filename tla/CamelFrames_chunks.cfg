\* Up to three messages of a BRT of any kinds, cut into chunks of up to forty bytes.
SPECIFICATION FramesSpec
CONSTANTS
    Lengths = {8, 13, 28, 33}
    BuffSize = 40
    MaxMessages = 3
INVARIANTS
    BufferInStep
    HandledWhatArrived
    ReadsOwnParameters
PROPERTIES
    ImplementsStream
    EveryMessageHandled
CHECK_DEADLOCK FALSE
