SPECIFICATION Spec
CONSTANTS
    Nodes = {"a", "b", "c"}
    Origins = {"a", "b"}
    Via <- Line3
    Servers = {"a"}
    Rank <- AlphabeticRank
    Priorities = {1, 2, 3}
    MaxHops = 5
    NoCursor = NoCursor

    
PROPERTIES
    HigherPriorityFirst
CHECK_DEADLOCK FALSE
