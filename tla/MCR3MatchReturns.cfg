SPECIFICATION MatchSpec
CONSTANTS
    Literals <- MCLiterals
    Alpha = {"a"}
    Digits = {"7"}
    Slash = "/"
    Dash = "-"
    Newline = "newline"
    Slugs = {"{id}", "{n:[0-9]+}", "{x:.*}", "{y:7|a}"}
    Nested = {}
    SlugOpcode <- MCSlugOpcode
    Unclosed = "{id"
    StrayClose = "}"
    Paths <- MCFewPaths
    Methods <- MCMethods
    MaxAdds = 2
    Requests <- MCMethodRequests
INVARIANTS
    ReplyFits
PROPERTIES
    MatchReturns
