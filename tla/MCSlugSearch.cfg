SPECIFICATION SearchSpec
CONSTANTS
    MaxPattern = 6
    MaxEdge = 3
    Searches <- MCSearches
CHECK_DEADLOCK FALSE
INVARIANTS
    PrefixIsTokens ScansAreTokens NameAndPattern
PROPERTIES
    ParsingAdvances
