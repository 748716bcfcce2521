SPECIFICATION Spec
CONSTANTS
    Absent = Absent
    Paths <- MCPaths
    Trees <- MCTrees
    Scanners = {"s1", "s2"}
    Nothing = Nothing
    MaxIds = 4
    MaxDepth = 3
    Clients = {"c1", "c2"}
    Stores <- MCStores
    Gone = Gone
    MaxMems = 6
    MaxDays = 2
    Texts <- MCTexts
    Memories <- MCMemories
    Missing = Missing
    MaxScanDepth = 2
    MaxEdits = 2
    SkillFiles <- MCFiles
    Docs <- MCDocs
    Shelves <- MCShelves
    Nobody = Nobody
    MaxEvents = 15
    MaxPipelineTime = 3
    LabelTtl = 2
    Pipelines <- MCPipelines
    Unset = Unset
    Inboxes <- MCInboxes
    MaxEstimatedRuntime = 75
INVARIANTS CartographerAgrees SearchIndexAgrees SignalsOnce ContextIsSound TaskLogIsPath StepsKeepFacts
CHECK_DEADLOCK FALSE
