\* The documented claim; the code has a counterexample.
SPECIFICATION Spec
CONSTANTS
    all = all
    a = a
    ab = ab
    List = {all, a, ab}
    Ancestors <- MCAncestors
    Contact = {c1}
    Source = {s}
    Cascade = Cascade
    Client = {q1}
    Written = {a, ab}
    Requests = {"upsert", "remove"}
    NoKey = NoKey
    NoRow = NoRow
    Clean = Clean
    MaxRows = 2
    MaxPayload = 2
INVARIANT RemovedIsRemoved
CHECK_DEADLOCK FALSE
