SPECIFICATION Spec
CONSTANTS
    c1 = c1
    c2 = c2
    c3 = c3
    g1 = g1
    g2 = g2
    Group = {g1, g2}
    Cmd = {c1, c2}
    GroupOf <- TwoGroups
    SeqOf <- SameNumber
    Credits = 2
    Timed = {TRUE}
    Fenced = {}
    PromptEnqueue = TRUE
CHECK_DEADLOCK FALSE
INVARIANT PendingIsTracked
