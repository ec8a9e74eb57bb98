SPECIFICATION Spec
CONSTANTS
    Literals <- MCLiterals
    Alpha <- MCAlpha
    Digits = {}
    Slash = "/"
    Dash = "-"
    Newline = "newline"
    Slugs = {"{id}", "{n:[0-9]+}", "{x:[0-9]{2}}"}
    Nested = {"{x:[0-9]{2}}"}
    SlugOpcode <- MCSlugOpcode
    Unclosed = "{y"
    StrayClose = "}"
    Paths <- MCAdjacentPaths
    Methods = {{}}
    MaxAdds = 3
CHECK_DEADLOCK FALSE
INVARIANTS
    NextSlugFound
