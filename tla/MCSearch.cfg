\* Texts of up to five pieces; eight requests walked by offset and by cursor beside two changes.
CONSTANTS
    Letters <- MCLetters
    Digits = {"1"}
    Ops = {":", "=", "!=", "<", ">", "<=", ">="}
    Registry <- MCRegistry
    Card <- MCCard
    UserMade = {4}
    Stocks <- MCStocks
    Requests <- MCRequests
    Written <- typed
    Compile <- compile
    Holds <- compile_node
    Prices = {1, 2}
    Numerals <- MCNumerals
    CopyStatuses = {"owned", "sold"}
    Typeable <- MCTypeable
    MaxText = 5
    Limits = {0, 1, 2}
    MaxChanges = 2
    Null = Null
SPECIFICATION WalkSpec
CHECK_DEADLOCK FALSE
INVARIANTS
    Understood
    WalkIsWhole
