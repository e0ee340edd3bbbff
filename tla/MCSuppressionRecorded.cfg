\* The documented claim; the code has a counterexample.
SPECIFICATION Spec
CONSTANTS
    m1 = m1
    m2 = m2
    c1 = c1
    w1 = w1
    w2 = w2
    Message = {m1}
    Contact = {c1}
    ContactOf <- MCContactOf
    Tagged = {m1}
    Requester = {q1}
    Worker = {w1}
    NoMessage = NoMessage
    MaxTasks = 2
    Published = {"open", "hard_bounce"}
    MaxCopies = 2
PROPERTY SuppressionRecorded
CHECK_DEADLOCK FALSE
