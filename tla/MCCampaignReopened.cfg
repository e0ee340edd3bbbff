\* One recipient whose campaign is queued twice, under fairness.
SPECIFICATION FairSpec
CONSTANTS
    Contact = {a}
    Worker = {w1, w2}
    BatchSizes = {1}
    NoContact = NoContact
    NoForm = NoForm
    MaxRounds = 2
    MaxCopies = 2
PROPERTIES KeepsPromise BatchesEnd
CHECK_DEADLOCK FALSE
