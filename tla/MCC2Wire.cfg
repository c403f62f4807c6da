SPECIFICATION Spec
CONSTANTS
    W = 2
    Timeout = 3
    MaxWait = 4
INVARIANT FramesAligned
PROPERTY RoundTrip
PROPERTY GivesUpInTime
PROPERTY NoContention
