SPECIFICATION Spec
CONSTANTS
    t1 = t1
    t2 = t2
    t3 = t3
    a1 = a1
    a2 = a2
    m1 = m1
    None = None
    Tasks = {t1}
    Seeded = {t1}
    Agents = {a1}
    Milestones = {m1}
    Briefs <- ReviewBriefs
    TagMatch <- AllTags
    LinkChoices = {}
    Patched = {"todo", "done", "integrating"}
    Optional = {"create", "patch", "move", "columns", "delete", "reset", "complete_milestone", "mcp"}
PROPERTIES
    TerminalIsFinal
    ReopenedIsVisible
CHECK_DEADLOCK FALSE
