SPECIFICATION Spec
CONSTANTS
    r1 = r1
    r2 = r2
    r3 = r3
    alice = alice
    bob = bob
    Requests = {r1, r2, r3}
    Members = {alice, bob}
    ClientIds = {c1}
    Positions = {1, 3}
    NoBinding = NoBinding
    Pending = Pending
    NoOne = NoOne
SYMMETRY Symmetry
INVARIANTS
    TypeOK
    SequencesContiguous
    OneRowPerKey
    BindingIsOwn
    AcceptedIsStored
    LateRetryIsSilent
    CursorWithinLog
PROPERTY ImplementsLog
