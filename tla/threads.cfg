\* One tab, one user who reacts, perhaps in two tabs; two requests from anywhere overlap.
CONSTANTS
    Users = {u}
    None = None
    Earlier = 1
    MaxReplies = 2
    MaxEdits = 2
    MaxOps = 2
    MaxMoves = 1
    MaxFetches = 2
    MaxLost = 1
SPECIFICATION Spec
CONSTRAINT OneTrouble
INVARIANTS TypeOK ListSettles DrawerSettles
\* The bounds run out.
CHECK_DEADLOCK FALSE
