SPECIFICATION PathSpec
CONSTANTS
    a = a
    b = b
    Machine = {a, b}
    Rows = 2
    Name = {"CODE"}
    Part = {"ha", "hb", "docs", "opt"}
    Directions = {}
    MaxMapEdits = 0
    NoRow = NoRow
    Home <- MCHome
    Folders <- MCFolders
    RankOf <- MCRankOf
PROPERTIES CollisionsKept
