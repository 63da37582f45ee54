SPECIFICATION Spec
CONSTANTS
    t1 = t1
    t2 = t2
    t3 = t3
    a1 = a1
    a2 = a2
    m1 = m1
    None = None
    Tasks = {t1, t2}
    Seeded = {t1, t2}
    Agents = {a1}
    Milestones = {m1}
    Briefs <- ReviewBriefs
    TagMatch <- AllTags
    LinkChoices <- FirstOfTwo
    Patched = {"todo", "done"}
    Optional = {"mcp"}
INVARIANTS
    TypeOK
    OneIntegrating
    LeasedWhileWaiting
    MergedBeforeDone
    ClaimedBeforeDone
    DependencyOrder
    PendingMeansDraft
    UnfinishedHasWork
    CompletedHasNoWork
    
CHECK_DEADLOCK FALSE
