\* A message to a person, one of attachments only to a channel, one lost connection,
\* nothing else fails.
CONSTANTS
    Direct = {d1}
    InChannel = {c1}
    Bare = {c1}
    None = None
    MaxLosses = 1
    Renewing = FALSE
    MaxMoves = 2
    MaxFetches = 1
    Prompt = TRUE
    Faulty = FALSE
SPECIFICATION FairSpec
PROPERTIES QueueReachesTheTable
\* The bounds run out.
CHECK_DEADLOCK FALSE
