SPECIFICATION FairSpec
CONSTANTS
    c1 = c1
    c2 = c2
    c3 = c3
    g1 = g1
    g2 = g2
    Group = {g1}
    Cmd = {c1, c2}
    GroupOf <- OneGroup
    SeqOf <- DistinctSeq
    Credits = 1
    Timed = {TRUE}
    Fenced = {}
    PromptEnqueue = TRUE
CHECK_DEADLOCK FALSE
INVARIANTS
    EntryHasWaiter
PROPERTIES
    EveryCommandAnswered
