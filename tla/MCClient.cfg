CONSTANTS
    Channels = {c1, c2}
    MaxListeners = 3
    ArrayTypes = {a1}
    OtherTypes = {o1}
    NoType = NoType
    ListenInBlock = FALSE
    RawWhenClosed = FALSE
SPECIFICATION Spec
INVARIANTS LockCoversBackend ListenersHeard TransactionEnds BindFindsStatement BlobOfThisCall
