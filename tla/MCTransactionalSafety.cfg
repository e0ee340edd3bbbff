\* Safety of the delivery pipeline, one message at a time or two.
SPECIFICATION MCSpec
CONSTANTS
    m1 = m1
    m2 = m2
    c1 = c1
    w1 = w1
    w2 = w2
    q1 = q1
    Message = {m1, m2}
    Contact = {c1}
    ContactOf <- MCContactOf
    Tagged = {m1, m2}
    Requester = {q1, q2}
    Worker = {w1, w2}
    NoMessage = NoMessage
    MaxTasks = 2
    Published = {"open", "hard_bounce"}
    MaxCopies = 2
SYMMETRY Symmetry
INVARIANTS OneSender CopiesExplained StoredIdIsLastCopy OpensCountedOnce NoSilentLoss
PROPERTIES SettledIsFinal KeepsPromise
CHECK_DEADLOCK FALSE
