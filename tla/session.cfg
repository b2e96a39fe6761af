\* Two tabs of one browser, a tab of another, everything overlaps and may fail.
CONSTANTS
    t1 = t1  t2 = t2  t3 = t3  b1 = b1  b2 = b2
    Idle = Idle  Keep = Keep
    Tabs = {t1, t2, t3}
    Browsers = {b1, b2}
    Home <- SharedHome
    Slots = {s1, s2, s3}
    MaxTokens = 3
    MaxActs = 5
    Faulty = TRUE
SYMMETRY Symmetric
SPECIFICATION Spec
INVARIANTS TypeOK SingleUse CookieIsUnspent Rotated
PROPERTIES SignedOutStaysOut
\* The bounds run out.
CHECK_DEADLOCK FALSE
