SPECIFICATION Spec
CONSTANTS
    NumGroups = 3
    NumBytes = 2
    MaxChanges = 3
    MaxWipes = 1
INVARIANTS TypeOK SavedUnlessFlagged CryptoNotBehind
PROPERTY RestoresValid
CHECK_DEADLOCK FALSE
