\* Two requests at a time about one contact, or one about two contacts.
SPECIFICATION TreeSpec
CONSTANTS
    all = all
    a = a
    ab = ab
    List = {all, a, ab}
    Ancestors <- MCAncestors
    Contact = {c1, c2}
    Source = {s}
    Cascade = Cascade
    Client = {q1, q2}
    Written = {a, ab}
    Requests = {"upsert", "reconcile", "remove"}
    NoKey = NoKey
    NoRow = NoRow
    Clean = Clean
    MaxRows = 2
    MaxPayload = 2
SYMMETRY TreeSymmetry
INVARIANTS TypeOK AncestorsCurrent CascadeNeedsReason ListedIsActive
CHECK_DEADLOCK FALSE
