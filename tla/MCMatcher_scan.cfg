SPECIFICATION Spec
CONSTANTS
    e1 = e1
    e2 = e2
    film = film
    extra = extra
    Nothing = Nothing
    Files = {e1, e2}
    Folder <- MCFolder
    Root = 2
    Places = {0, 1, 2, 3}
    Contents <- Usual
    Parsed <- MCParsed
    ParsedFolder <- MCParsedFolder
    LibraryKind = "tv"
    LibraryName = "lib"
    Ids = {7, 8}
INVARIANT TitlesOK
PROPERTY IdentityIsKept
