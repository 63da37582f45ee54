SPECIFICATION FairSpec
CONSTANTS
    t1 = t1
    t2 = t2
    t3 = t3
    a1 = a1
    a2 = a2
    m1 = m1
    None = None
    Tasks = {t1, t2}
    Seeded = {t1}
    Agents = {a1}
    Milestones = {m1}
    Briefs <- EditBriefs
    TagMatch <- FirstTask
    LinkChoices <- FirstOfTwo
    Patched = {"todo", "done"}
    Optional = {"create", "link", "move", "patch"}
PROPERTIES
    StalledClaimEnds
    StalledReviewEnds
    MergeSlotFrees
CHECK_DEADLOCK FALSE
