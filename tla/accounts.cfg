\* Two tabs, two calls at once, two codes.
CONSTANTS
    Tabs = {t1, t2}
    Slots = {s1, s2}
    Idle = Idle
    NoAccount = NoAccount
    MaxCodes = 2
    Faulty = TRUE
SYMMETRY Symmetric
SPECIFICATION Spec
INVARIANTS TypeOK StaleCodeIsRefused AccountsCanBeEntered InvitationIsKept
\* The bounds run out.
CHECK_DEADLOCK FALSE
