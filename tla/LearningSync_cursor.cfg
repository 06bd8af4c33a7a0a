CONSTANTS
    MaxRows = 2
    Limit = 2
SPECIFICATION Spec
INVARIANT NothingLeftBehind
