SPECIFICATION Spec
CONSTANTS
    Hash <- MCHash
    InitialCap = 4
    Names <- MCNames
    RuleLists <- MCRuleLists
INVARIANTS
    WildcardExact
    IndexExact
CHECK_DEADLOCK FALSE
