\* A member, the founder, a channel; requests one at a time.
CONSTANTS
    Users = {u1, u2}
    Channels = {c1}
    Requests = {r1}
    None = None
    Leaver = u2
    Operations <- ChannelOps
SPECIFICATION TryingSpec
PROPERTIES PublicChannelsAreRejoined
CHECK_DEADLOCK FALSE
