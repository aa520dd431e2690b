CONSTANTS
    Keys <- MCKeys
    DirKeys <- MCDirKeys
    RootKey = "/"
    Under <- MCUnder
    Service = "supabase"
    Limits = {0, 1}
    MaxFails = 1
    Writers = FALSE
    MaxOther = 0
SPECIFICATION Spec
INVARIANT StatErrorActual
