SPECIFICATION Spec
CONSTANTS
    e1 = e1
    e2 = e2
    film = film
    extra = extra
    Nothing = Nothing
    Files = {e1}
    Folder <- MCFolder
    Root = 2
    Places = {3}
    Contents <- GuidOrNamed
    Parsed <- MCParsed
    ParsedFolder <- MCParsedFolder
    LibraryKind = "tv"
    LibraryName = "lib"
    Ids = {7, 8}
INVARIANTS
    MatchedHasId
    FiledAsMatched
