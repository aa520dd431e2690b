CONSTANTS
    MaxAppends = 6
    MaxCancels = 3
SPECIFICATION Spec
PROPERTY NoCallAfterClose
