\* A message to a person and one to a channel, a connection lost in any way, everything may go wrong.
CONSTANTS
    Direct = {d1}
    InChannel = {c1}
    Bare = {}
    None = None
    MaxLosses = 1
    Renewing = TRUE
    MaxMoves = 2
    MaxFetches = 1
    Prompt = FALSE
    Faulty = TRUE
SPECIFICATION Spec
INVARIANTS TypeOK RowsAreFaithful
PROPERTIES DeliverySpec PrunedOnlyWhenStored
\* The bounds run out.
CHECK_DEADLOCK FALSE
