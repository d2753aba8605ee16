SPECIFICATION Spec
CONSTANTS
    a = a
    b = b
    None = None
    Works = {a, b}
    Key <- MCKey
    RawNumbers = {0, 1, 3}
    MaxBatch = 3
    MaxMovies = 3
    MaxNumber = 5
INVARIANTS
    TypeOK
    NumbersIdentify
    CloneIsExact
    MergeFollowsPolicy
