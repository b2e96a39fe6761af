\* Two processes share the counter and up to two commands fail.
CONSTANTS
    Servers = {s1, s2}
    Limit = 3
    Window = 4
    MaxFails = 2
SPECIFICATION FairLimitSpec
INVARIANTS LimitTypeOK TwoLimitsAWindow OneExpiryALife
PROPERTIES Refills
