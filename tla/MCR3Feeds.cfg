SPECIFICATION MatchSpec
CONSTANTS
    Literals <- MCFeedsLiterals
    Alpha = {"u", "f"}
    Digits = {"1", "2"}
    Slash = "/"
    Dash = "-"
    Newline = "newline"
    Slugs = {"{user_id}", "{feed_id}"}
    Nested = {}
    SlugOpcode <- MCSlugOpcode
    Unclosed = "{id"
    StrayClose = "}"
    Paths <- MCFeeds
    Methods = {{}}
    MaxAdds = 1
    Requests <- MCFeedsRequest
INVARIANTS
    CompiledServes
