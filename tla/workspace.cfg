\* One user and those who govern the workspaces.
CONSTANTS
    Me = Me
    owner = owner
    other = other
    w1 = w1
    w2 = w2
    p1 = p1
    s1 = s1
    s2 = s2
    None = None
    Users = {Me, owner, other}
    Workspaces = {w1, w2}
    Channels = {p1, s1, s2}
    Private = {s1, s2}
    Of <- Offices
    Tables <- Starts
    Bounds <- Scenarios
SPECIFICATION Spec
INVARIANTS TypeOK RolesAreCurrent SidebarIsCurrent
PROPERTIES StaysWhereItIs
\* The bounds run out.
CHECK_DEADLOCK FALSE
