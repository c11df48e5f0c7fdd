SPECIFICATION Spec
CONSTANTS
    Loads = {l1, l2}
    MarkRead = MarkRead
    Sync = Sync
    NotLoaded = NotLoaded
    MaxMessages <- MCMaxMessages
    MaxUpsets <- MCMaxUpsets
INVARIANT NothingCountsTwice
CHECK_DEADLOCK FALSE
