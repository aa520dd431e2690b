CONSTANTS
    None = None
    Sizes <- MCSizes
    Chunks <- MCChunks
    MaxBytes <- MCMaxBytes
    MaxCancels = 2
    AbortAfterCancel = TRUE
SPECIFICATION Spec
PROPERTY NoCallAfterFinal
