CONSTANTS
    None = None
    Handlers = {h1, h2}
    Owner = o
    Others = {u}
    Names = {n1}
    MaxRequests = 3
    Inserted <- MCInserted
    Projects = {p1, p2}
    Notes = {r1, r2}
    Elsewhere = {r1}
    Clauses = {c1}
    Template = {c1}
    Statuses = {"verified"}
    Depth = 2
SPECIFICATION WorkspaceSpec
INVARIANTS RolesAsGiven DeleteIsClean LinksKept
PROPERTIES SerialOnlyProvidedKeys
SYMMETRY Alike
CHECK_DEADLOCK FALSE
