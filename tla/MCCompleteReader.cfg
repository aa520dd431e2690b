CONSTANTS
    None = None
    Lens <- MCLens
    Offs = {0, 1, 4}
    RSizes = {2, 4}
    MaxK = 2
    Threshold = 1
    MaxOps = 3
SPECIFICATION Spec
INVARIANT ZeroCost
PROPERTY ReaderRefinement
