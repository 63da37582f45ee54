SPECIFICATION FairChatSpec
CONSTANTS
    Projects = {"p", "q"}
    MaxCalls = 2
    MaxSessions = 2
    Patient = TRUE

    
    
PROPERTIES
    LostLockNoticed
CHECK_DEADLOCK FALSE
