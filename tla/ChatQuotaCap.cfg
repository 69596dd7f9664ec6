CONSTANTS
    None = None
    Handlers = {h1, h2}
    Users = {u1}
    Projects = {p1}
    Limit = 2
    LastDay = 2
SPECIFICATION Spec
INVARIANT QuotaCap
