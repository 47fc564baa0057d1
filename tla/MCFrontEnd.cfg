SPECIFICATION FrontSpec
CONSTANTS
    Hosts = {"h1", "h2"}
    PathPrefixes <- SomePrefixes
    Paths <- SomePaths
    Services = {"s1", "s2"}
    MaxRoutes = 3
    LowerCase <- Lower
    Lines <- SomeLines
    MaxLines = 4
    StickyHeader = "X-Session-Id"
    Serving <- OneTable
INVARIANTS MostSpecificWins OrderIsIrrelevant EndingsAreAlike
PROPERTIES BodyIsOpaque FirstHeadersDecide
CHECK_DEADLOCK FALSE
