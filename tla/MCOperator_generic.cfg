CONSTANTS
    Keys <- MCKeys
    DirKeys <- MCDirKeys
    RootKey = "/"
    Under <- MCUnder
    Service = "generic"
    Limits = {0, 1}
    MaxFails = 1
    Writers = TRUE
    MaxOther = 1
SPECIFICATION Spec
INVARIANT RemoveAllClears RemoveViaErrorSurfaced
