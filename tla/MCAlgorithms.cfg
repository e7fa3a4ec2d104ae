SPECIFICATION AllSpec
CONSTANTS
    None = None
    Text = Text
    Endpoints <- AllEndpoints
    People <- SomePeople
    Checks <- SomeChecks
    MoreRules <- SomeRules
    Tables <- SomeTables
    Requests <- SomeRequests
INVARIANTS
    AccessRight
    FilterRight
    RoutesRight
    RequestsRight
    TreesRight
    JoinsFaithful
    PagesTrue
    StartsRight
CHECK_DEADLOCK FALSE
