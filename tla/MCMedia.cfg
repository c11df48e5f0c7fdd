SPECIFICATION LiveSpec
CONSTANTS
    Attachments = {a1}
    Requests = {r1, r2}
    Workers = {w1, w2}
    NoAttachment = NoAttachment
    MaxAttempts <- MCAttempts
    BatchSize <- MCBatch
INVARIANTS SomebodyProcesses SharedWasChecked
PROPERTIES FinalIsFinal ProcessingEnds
CHECK_DEADLOCK FALSE
