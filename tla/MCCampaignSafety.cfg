\* Two recipients in two batches, two workers, one round of queueing.
SPECIFICATION Spec
CONSTANTS
    Contact = {a, b}
    Worker = {w1, w2}
    BatchSizes = {1, 2}
    NoContact = NoContact
    NoForm = NoForm
    MaxRounds = 1
    MaxCopies = 2
SYMMETRY CampaignSymmetry
INVARIANTS CountsAgree SentCountIsHonest CompletedMeansDone
PROPERTY CancelStopsSending
CHECK_DEADLOCK FALSE
