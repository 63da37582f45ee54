SPECIFICATION Spec
CONSTANTS
    t1 = t1
    t2 = t2
    a1 = a1
    a2 = a2
    m1 = m1
    r1 = r1
    r2 = r2
    r3 = r3
    None = None
    Tasks = {t1}
    Agents = {a1, a2}
    Milestones = {m1}
    Requests = {r1}
    MilestoneOf <- OneMilestone
    Workgraph = {m1}
    StartReview = {t1}
    Reviewed = {t1}
    Ops = {"submit", "unclaim", "complete", "fail", "integrated", "not_integrated", "recover", "resubmit", "block", "unblock", "defer", "cancel", "approve", "request_changes", "heartbeat", "patch", "expire_claims", "expire_reviews", "expire_integrations"}
    Crashes = FALSE
INVARIANTS
    TypeOK
PROPERTIES
    TerminalIsFinal
CHECK_DEADLOCK FALSE
