CONSTANTS
    Files <- MCFiles
    Delims <- MCDelims
    Limit = 2
SPECIFICATION Spec
INVARIANT ListingExact
PROPERTY Termination
