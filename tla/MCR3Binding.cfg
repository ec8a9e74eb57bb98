SPECIFICATION BindingSpec
CONSTANTS
    Literals <- MCLiterals
    Alpha = {"a"}
    Digits = {}
    Slash = "/"
    Dash = "-"
    Newline = "newline"
    Slugs = {"{id}"}
    Nested = {}
    SlugOpcode <- MCSlugOpcode
    SlugName <- MCSlugName
    Unclosed = "{id"
    StrayClose = "}"
    RawPaths <- MCRawPaths
    Paths <- MCPaths
    Methods <- MCMethods
    MaxAdds = 3
    Requests <- MCRequests
CHECK_DEADLOCK FALSE
INVARIANTS
    BindingTypeOK PatternsHeld RefusedNotBorrowed FreedOnce
PROPERTIES
    ImplementsDispatcher
