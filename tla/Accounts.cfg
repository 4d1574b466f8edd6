SPECIFICATION Spec
CONSTANTS
    UserIds = {1, 2, 3}
    Tokens = {11, 12}
    Tenants = {21}
    Emails = {e1, e2}
    Passwords = {p1, p2}
    Handlers = {h1, h2}
    None = None
    Outcomes = {"ok", "err", "lost"}
SYMMETRY Symmetry
INVARIANTS
    OneAccountPerEmail
    SessionOwner
    AnsweredSessionHolds
    ActsForItself
CONSTRAINT DrawnInOrder
CHECK_DEADLOCK FALSE
