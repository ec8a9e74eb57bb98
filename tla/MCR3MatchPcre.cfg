SPECIFICATION PcreSpec
CONSTANTS
    Literals <- MCLiterals
    Alpha = {"a"}
    Digits = {"7"}
    Slash = "/"
    Dash = "-"
    Newline = "newline"
    Slugs = {"{id}", "{n:[0-9]+}", "{y:7|a}", "{b:(}"}
    Nested = {}
    SlugOpcode <- MCSlugOpcode
    PcreLanguage <- MCPcreLanguage
    BadSlugs = {"{b:(}"}
    Unclosed = "{id"
    StrayClose = "}"
    Paths <- MCPaths
    Methods = {{}}
    MaxAdds = 3
    Requests <- MCRequests
INVARIANTS
    PcreTypeOK PcreReplyFits PcreServes
PROPERTIES
    PcreWalkDeepens
