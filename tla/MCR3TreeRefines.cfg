SPECIFICATION Spec
CONSTANTS
    Literals <- MCLiterals
    Alpha <- MCAlpha
    Digits = {}
    Slash = "/"
    Dash = "-"
    Newline = "newline"
    Slugs = {"{id}", "{n:[0-9]+}", "{x:[0-9]{2}}"}
    Nested = {"{x:[0-9]{2}}"}
    SlugOpcode <- MCSlugOpcode
    Unclosed = "{y"
    StrayClose = "}"
    Paths <- MCInnerPaths
    Methods <- MCMethods
    MaxAdds = 3
PROPERTIES
    ImplementsRouteTable AddReturns
