SPECIFICATION Spec
CONSTANTS
    RunId = {r1}
    Node <- MCNode
    Entry = start
    Order <- MCOrder
    Routes <- MCRoutes
    Join <- MCJoin
    Terminal <- MCTerminal
    Exclusive <- MCExclusive
    Shared <- MCShared
    Reads <- MCReads
    Writes <- MCWrites
    Script <- MCScript
    Result <- MCResult
    MaxParallelism = 2
    MaxAttempts = 2
    MaxActiveRuns = 2
    MaxActiveAttempts = 2
    Key = {key}
    NoNode = NoNode
    NoResult = NoResult
    MaxTokens = 2
    start = start
    build = build
    review = review
    merge = merge
    done = done
    failed = failed
    r1 = r1
    r2 = r2
    workspace = workspace
    key = key
INVARIANTS
    RecordsAgree
    JoinsSettle
    
    ResultsFenced
PROPERTIES
    EndsAreFinal
