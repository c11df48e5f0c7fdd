SPECIFICATION Spec
CONSTANTS
    Handlers = {h1, h2}
    Identifiers = {i1, i2}
    NoOne = NoOne
    Limit = 1
    MaxCodes = 2
    MaxSuffix = 1
SYMMETRY CodesSymmetry
INVARIANTS CounterEnds CodeIsAcceptedOnce MailedCodeWorks AcceptedBuysAccount
CHECK_DEADLOCK FALSE
