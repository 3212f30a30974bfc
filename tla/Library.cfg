SPECIFICATION Spec
CONSTANTS
    Values <- Elements
    Default = 0
    Garbage = 9
    ElementSize = 2
    MaxCapacity = 4
    Addresses = {a1, a2, a3}
    Null = Null
    Locals = {h1, h2}
    Temp = Temp
    Uniques = {u1, u2}
    Weaks = {w1}
INVARIANTS
    RingTypeOK
    LookFindsAll
    CountsExact
    OwnedOnce
    ReleasedOnce
    WeakIsSafe
    SafeSources
PROPERTIES
    
    ResizeKeeps
