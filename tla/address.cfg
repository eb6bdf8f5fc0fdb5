SPECIFICATION Spec
CONSTANTS
    PathMax = 4
    MaxText = 5
    MaxBytes = 3
INVARIANTS
    BitsRight
    TextsRight
    CallsExact
CHECK_DEADLOCK FALSE
