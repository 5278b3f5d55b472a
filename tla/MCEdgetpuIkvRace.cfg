SPECIFICATION Spec
CONSTANTS
    c1 = c1
    c2 = c2
    c3 = c3
    g1 = g1
    g2 = g2
    Group = {g1}
    Cmd = {c1, c2}
    GroupOf <- OneGroup
    SeqOf <- DistinctSeq
    Credits = 2
    Timed = {TRUE}
    Fenced = {c1}
    PromptEnqueue = TRUE
CHECK_DEADLOCK FALSE
INVARIANTS EntryHasWaiter ResponseOutlivesSignal
