\* Two REST requests, one of them stuck, two calls, and a failing listener.
SPECIFICATION FairSpec
CONSTANTS
    HTTP = {h1, h2}
    GRPC = {g1, g2}
    Stuck = {h2}
    Grace = 2
INVARIANTS
    CallsServedToTheEnd
    RequestsGetTheirGrace
PROPERTIES
    SignalEndsProcess
\* The process ends.
CHECK_DEADLOCK FALSE
