CONSTANTS
    Callback = {c1, c2, c3}
    Worker = {w1, w2}
    Closer = {k1, k2}
    QueueSize = 1
    None = None
SPECIFICATION Spec
PROPERTIES
    AcceptsNothingAfterShutdown
CHECK_DEADLOCK FALSE
