SPECIFICATION Spec
CONSTANTS
    r1 = r1
    r2 = r2
    r3 = r3
    None = None
    Requests <- Callers
    Names = {"a", "b", "c"}
    Emails = {"e"}
    Scenes <- MCScenes
    Zero = Zero
    MaxBegun = 2
    Attempts <- Callers
    Mails = {"m1", "m2"}
    LoginCasts <- MCLoginCasts
    Captchas = {"uuid"}
    Address = "address"
    Threshold = 2
    MaxIssues = 2
    MaxKeyExpiries = 1
    MaxEdits = 1
    Users = {"u1", "u2"}
    Accounts = {"a1", "a2"}
    Members = {"u1"}
    MailOf <- MCMailOf
    States = {"s1", "s2"}
    Callbacks <- Callers
    MaxDeletions = 1
    Jobs <- Callers
    Plugins = {"p1", "p2"}
    Installed = {"p1"}
    Required = {}
    MaxLockExpiries = 1
    Sessions = {"s1", "s2"}
    Sockets <- Callers
    Owner <- MCOwner
    Revokes = {"k1", "k2"}
    About <- MCAbout
    Monitors = {"n1"}
    OnlineCasts <- MCOnlineCasts
    Packages <- MCPackages
    Lists <- MCLists
CONSTRAINT Bounds
SYMMETRY Symmetry
INVARIANTS
    Anchored
    ChecksSuffice
    SpentOnce
    LockHolds
    BoundToLive
    FilesKept
    PluginsLoaded
    SocketsFollow
CHECK_DEADLOCK FALSE
