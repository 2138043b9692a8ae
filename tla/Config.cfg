SPECIFICATION Spec
CONSTANTS
    Missing = Missing
    Torn = Torn
    Contents <- MCContents
    Comment = "#"
    Zero = "0"
    GroupIds <- MCGroupIds
    SubIds <- MCSubIds
    RuleIds <- MCRuleIds
    NoId = "none"
    BadId = "bad"
    First = 2
    GroupReqs <- MCGroupReqs
    GroupBodies <- MCGroupBodies
    RuleReqs <- MCRuleReqs
    RuleBodies <- MCRuleBodies
    SubReqs <- MCSubReqs
    SubBodies <- MCSubBodies
    Fetched <- MCFetched
    Files <- MCFiles
    MaxOps = 2
    MaxFaults = 2
    MaxKills = 0
    MaxEdits = 0
    MaxNow = 2
INVARIANTS
    SnapshotFresh
    KernelExact

    
CHECK_DEADLOCK FALSE
