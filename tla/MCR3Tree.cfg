SPECIFICATION Spec
CONSTANTS
    Literals <- MCLiterals
    Alpha <- MCAlpha
    Digits = {}
    Slash = "/"
    Dash = "-"
    Newline = "newline"
    Slugs = {"{id}", "{n:[0-9]+}", "{x:[0-9]{2}}"}
    Nested = {"{x:[0-9]{2}}"}
    SlugOpcode <- MCSlugOpcode
    Unclosed = "{y"
    StrayClose = "}"
    Paths <- MCAllPaths
    Methods = {{}}
    MaxAdds = 4
CHECK_DEADLOCK FALSE
INVARIANTS
    TypeOK TrieSpells CallSpells RouteSlugsSpelled OneParent SiblingsDiffer
    OneNodePerText OpcodesSound HasSlugNeverMissed
    MalformedMakesUp
PROPERTIES
    RestShrinks RoutesPermanent
