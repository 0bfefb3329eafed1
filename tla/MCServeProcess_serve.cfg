SPECIFICATION FairSpec
CONSTANTS
    Docs = {d1, d2}
    NoDoc = NoDoc
    Handlers = {h1, h2}
    MaxRequests = 2
    MaxTroubles = 1
INVARIANTS
    TypeOK
    AcceptedStaysQueued
PROPERTIES
    DrainEmpties
    EveryDocumentIsHandled
