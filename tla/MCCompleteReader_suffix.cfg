CONSTANTS
    None = None
    Lens <- MCLensWritten
    Offs = {0, 1}
    RSizes = {2, 4}
    MaxK = 2
    Threshold = 1
    MaxOps = 3
SPECIFICATION SpecW
INVARIANT SuffixOfReadVersion
