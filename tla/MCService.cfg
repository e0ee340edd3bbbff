\* What is stored about contacts, campaigns and clients, one component at a time.
SPECIFICATION ServiceSpec
CONSTANTS
    Caller = {p, q}
    solo = p
    UpsertInput <- MCUpserts
    ImportRow <- MCImportRows
    CsvRow <- MCCsvRows
    StateForm <- MCStateForms
    SubForm <- MCSubForms
    r1 = r1
    r2 = r2
    Recipient = {r1, r2}
    Visit = {v1, v2}
    ProviderNote <- MCNotes
    MaxLoads = 1
    Requester = {c1}
    Key = {k1, k2}
    Sender = {s1, s2}
    NoSender = NoSender
    aud = aud
    other = other
    ta = ta
    tz = tz
    sx = sx
    sy = sy
    Writer = {w1, w2}
    Addressee = {a1}
    Audience = {aud, other}
    Tag = {ta, tb, tz}
    Slug = {sx, sy}
    AudienceOf <- MCAudienceOf
    SlugOf <- MCSlugOf
    PutInput <- MCPuts
    FormInput <- MCForms
    MaxId = 4
    Limits = {1, 2}
INVARIANTS
    ServiceTypeOK CsToldIsKept CsSendableAgrees CsRoundTrip
    EnCountsAgree AcSendersResolve DrContentIsFrozen PgWalkComplete
PROPERTIES
    AcRevokedForGood DrPicksTheTagged
CHECK_DEADLOCK FALSE
