SPECIFICATION Spec
CONSTANTS
    Exchanges = {e1}
    Controllers = {c1}
    Streams = {c2}
    Cleaners = {c3}
    Sessions <- MCSessions
    Detectors <- MCDetectors
    Chunks <- MCChunks
    Stamp <- MCStamp
    Threshold = 1
    Timeout = 1
    WindowMs = 500
    BufferMs = 30000
    None = None
INVARIANTS  AnnouncedAtMostOnce
PROPERTIES  SilenceIsNoticed
CHECK_DEADLOCK FALSE
