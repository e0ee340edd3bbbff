\* The outboxes, the import jobs and inbound email, one at a time.
SPECIFICATION QueuesSpec
CONSTANTS
    d1 = d1
    e1 = e1
    m1 = m1
    Dispatcher = {d1, d2}
    MaxAttempts = 2
    BatchSize = 1
    Event = {e1, e2}
    MaxCbCrashes = 1
    Tag = {e1}
    Grant = {e1, e2}
    MaxMcChanges = 2
    Job = {j1, j2}
    Key = {k1}
    NoKeyGiven = NoKeyGiven
    Processor = {d1, d2}
    JobLimit = 1
    MaxImCrashes = 1
    Notification = {e1, e2}
    MessageIdOf <- OneMessage
    r1 = r1
    Route = {r1, r2}
    RoutesOf <- FewerRoutes
    Drain = {d1, d2}
    MaxReceives = 2
    Tries = 2
    MaxIbCrashes = 1
INVARIANTS
    QueuesTypeOK CbSettledIsEarned CbAttemptsCounted CbErasureReaches
    ImStatusIsHonest  IbClaimStandsForEvent
PROPERTIES
    CbEventuallySettled McEventuallySent ImEventuallySettled
    IbEventuallyHandedOn
CHECK_DEADLOCK FALSE
