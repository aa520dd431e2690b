CONSTANTS
    None = None
    Sizes <- MCSizes
    Chunks <- MCChunks
    MaxBytes <- MCMaxBytes
    MaxCancels = 2
    AbortAfterCancel = FALSE
SPECIFICATION Spec
INVARIANT NoOverrun
INVARIANT CommittedExact
PROPERTY NoCallAfterFinal
