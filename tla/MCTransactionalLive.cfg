\* One message, an operator who keeps running the reenqueue command.
SPECIFICATION OperatedSpec
CONSTANTS
    m1 = m1
    m2 = m2
    c1 = c1
    w1 = w1
    w2 = w2
    Message = {m1}
    Contact = {c1}
    ContactOf <- MCContactOf
    Tagged = {}
    Requester = {q1}
    Worker = {w1, w2}
    NoMessage = NoMessage
    Published = {}
    MaxTasks = 2
    MaxCopies = 2
PROPERTY EventuallySettled
CHECK_DEADLOCK FALSE
