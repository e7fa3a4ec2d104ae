SPECIFICATION Spec
CONSTANTS
    None = None
    Text = Text
    Endpoints <- AllEndpoints
    People <- SomePeople
    Checks <- SomeChecks
    MoreRules <- SomeRules
    Tables <- SomeTables
    Requests <- SomeRequests
INVARIANTS
    NowRight
CHECK_DEADLOCK FALSE
