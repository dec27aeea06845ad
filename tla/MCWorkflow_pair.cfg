SPECIFICATION AllSpec
CONSTANTS
    RunId = {r1, r2}
    Node <- MCNode
    Entry = start
    Order <- MCOrder
    Routes <- MCRoutes
    Join <- MCJoin
    Terminal <- MCTerminal
    Exclusive <- MCExclusive
    Shared <- MCShared
    Reads <- MCReads
    Writes <- MCWrites
    Script <- MCScriptShort
    Result <- MCResult
    MaxParallelism = 2
    MaxAttempts = 2
    MaxActiveRuns = 2
    MaxActiveAttempts = 2
    Key = {key}
    NoNode = NoNode
    NoResult = NoResult
    MaxTokens = 1
    start = start
    build = build
    review = review
    merge = merge
    done = done
    failed = failed
    r1 = r1
    r2 = r2
    workspace = workspace
    key = key
    n1 = n1
    n2 = n2
    n3 = n3
    n4 = n4
    n5 = n5
    k1 = k1
INVARIANTS
    ExclusiveUnlessPaused
    ScriptsKept
    DefinitionsSound
PROPERTIES
    RunsEnd
