\* Two people with browsers and a third who is only written to.
CONSTANTS
    Users = {a, b, c}
    Active = {a, b}
    None = None
    Known = {{a, b}}
    Bounds <- Scenarios
SYMMETRY Symmetric
SPECIFICATION Spec
INVARIANTS TypeOK OnlyTheAddressee TickIsEarned NothingGoesUnnoticed
PROPERTIES SecondsAreRaced
\* The bounds run out.
CHECK_DEADLOCK FALSE
