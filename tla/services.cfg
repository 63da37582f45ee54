SPECIFICATION Spec
CONSTANTS
    p1 = p1
    p2 = p2
    w1 = w1
    w2 = w2
    Events = {1, 2, 3}
    Wanted = {1, 2, 3}
    MaxTime = 2
    MaxRewinds = 1
    MaxAttempts = 4
    MaxRetries = 2
    MaxExpiries = 1
    Registrants = {"r1", "r2"}
    Legacy = {"old"}
    NameOf <- OneName
    Sessions = {"a1", "a2", "b1"}
    UserOf <- SharedUser
    Slots = {"slot"}
    MaxLocks = 3
    Visits = {"v1", "v2", "v3"}
    Resources = {"x1", "x2", "x3"}
    MaxRecent = 2
    ProjectIds = {p1, p2}
    WorkplanIds = {w1, w2}
    MilestoneIds = {"m"}
    TaskIds = {"t"}
    Users = {"u", "v"}
    Staff = {"v"}
    VarNames = {"GH_TOKEN", "GH_TOKE"}
    NearPairs <- Misspelt
    Declarers = {"d1", "d2"}
    Entries <- SomeEntries
SYMMETRY Symmetry
INVARIANTS
    
    RepeatedOnlyByRewinds
    
    AnsweredCanWork
    
    OneLockPerSlot
    HeldUntilReleased
    BoundedAtRest
    NewestKept
    
    
    
    

    
CHECK_DEADLOCK FALSE
