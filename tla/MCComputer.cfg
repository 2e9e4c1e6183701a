SPECIFICATION DriveSpec
CONSTANTS
    d1 = d1
    d2 = d2
    Sessions = {d1, d2}
    Catalog = {d2}
    Owner = Owner
    Installer = Installer
    Nobody = Nobody
    Updated = TRUE
    MaxChoice = 1
    c1 = c1
    c2 = c2
    c3 = c3
    s1 = s1
    s2 = s2
    None = None
    Synths = {s1, s2}
    Streams = {c1, c2, c3}
    SynthOf <- MCSynthOf
    Quiet = 2
    MaxTime = 5
    MayUnlink = TRUE
    Apps = {"mail", "bank"}
    Listed = {"bank"}
    Twins = {"mail", "bank"}
    Pids = {"p1", "p2"}
    Windows = {"w1"}
    WindowsTTL = 2
    AppsTTL = 2
    MaxEvents = 2
    j1 = j1
    j2 = j2
    Jobs = {j1, j2}
    PerMinute = 1
    Minute = 1
    Latest = 2
    MaxMoves = 2
INVARIANTS DaemonIsTheSessions StopsAreRight TurnsAreKept AppsAreTheOwners
\* Sessions, the clock and the events run out.
CHECK_DEADLOCK FALSE
