SPECIFICATION Spec
CONSTANTS
    t1 = t1
    t2 = t2
    a1 = a1
    a2 = a2
    m1 = m1
    r1 = r1
    r2 = r2
    r3 = r3
    None = None
    Tasks = {t1}
    Agents = {a1}
    Milestones = {m1}
    Requests = {r1, r2}
    MilestoneOf <- OneMilestone
    Workgraph = {m1}
    StartReview = {t1}
    Reviewed = {t1}
    Ops = {"complete", "cancel"}
    Crashes = FALSE
PROPERTIES
    TerminalIsFinal
CHECK_DEADLOCK FALSE
