SPECIFICATION Spec
CONSTANTS
    Keys = {0, 1, 2}
    Nonces = {0, 2}
    Algorithms = {x, y, z}
    Known = {x, y}
    ReadSizes = {0, 1}
    WriteSizes = {1, 3}
    MaxBytes = 3
    MaxDamage = 1
CHECK_DEADLOCK FALSE
INVARIANTS

    StreamIntact
