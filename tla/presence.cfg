\* Two connections that come and go, a third on another server that stays or was
\* never made, a crash, and a watcher who loses a connection.
CONSTANTS
    Conns = {c1, c2, c3}
    Steady = {c3}
    MaxConnects = 2
    MaxDrops = 1
    MaxCrashes = 1
SPECIFICATION FairSpec
INVARIANTS TypeOK
PROPERTIES AnotherDeviceKeepsOnline OfflineIsShown
\* The bounds run out.
CHECK_DEADLOCK FALSE
