SPECIFICATION Spec
CONSTANTS
    Missing = Missing
    Torn = Torn
    Contents <- MCContents
    Comment = "#"
    Zero = "0"
    GroupIds <- MCGroupIds
    SubIds <- MCSubIds
    RuleIds <- MCRuleIds
    NoId = "none"
    BadId = "bad"
    First = 2
    GroupReqs <- MCGroupReqs
    GroupBodies = {}
    RuleReqs <- MCRuleReqsKnown
    RuleBodies = {}
    SubReqs <- MCSubReqs
    SubBodies = {}
    Fetched <- MCFetched
    Files <- MCFiles
    MaxOps = 1
    MaxFaults = 1
    MaxKills = 1
    MaxEdits = 1
    MaxNow = 2
INVARIANTS
    NeverTorn
PROPERTIES
    RefreshStable
    DueIsSynced
    ComesUp
CHECK_DEADLOCK FALSE
