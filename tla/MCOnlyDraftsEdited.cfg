\* The documented claim; the code has a counterexample.
SPECIFICATION Spec
CONSTANTS
    Contact = {a, b}
    Worker = {w1}
    BatchSizes = {1, 2}
    NoContact = NoContact
    NoForm = NoForm
    MaxRounds = 1
    MaxCopies = 2
PROPERTY OnlyDraftsEdited
CHECK_DEADLOCK FALSE
