SPECIFICATION LoanSpec
CONSTANTS
    Works <- MCWorks
    Key <- MCKey
    None = None
    RawNumbers = {0, 1}
    MaxBatch = 2
    MaxMovies = 2
    MaxNumber = 2
    Names = {"", "ann", "ANN", " ann"}
    Strip <- MCStrip
    Fold <- MCFold
    NoOne = ""
    Labels = {"", "disc"}
    NoLabel = ""
    Natives = {1}
    Entered <- MCEntered
    Archives <- MCArchives
    MaxEvents = 2
    MaxManaged = 2
INVARIANTS
    LoanTypeOK
    LedgerBalanced
    CheckOutMovesTheGroup
    ManagedDistinct
