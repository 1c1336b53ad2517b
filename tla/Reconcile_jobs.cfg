\* Two jobs on the same or on different files, one of which feeds back; one fault.
SPECIFICATION Spec
CONSTANTS
    a = a  b = b
    Job = {a, b}
    Ref = {1, 2, 3}
    Inputs <- Files
    Window = 2
    MaxDuration = 8
    Feeding = {a}
    Persisting = {a, b}
    MaxFaults = 1
INVARIANTS
    MatchIsRight
    SameReport
    FeedbackBeforeRecord
    MalformedHasNoEffect
PROPERTIES
    RerunAddsNothing
\* When both jobs have ended the system rests.
CHECK_DEADLOCK FALSE
