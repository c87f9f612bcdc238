SPECIFICATION FairSpec
CONSTANTS
    Logins = {l1, l2}
    Tabs = {t1, t2}
    Sockets = {k1}
    Changers = {h1, h2}
    MaxSessions = 1
    MaxChanges = 2
    MaxRotations = 1
    MaxBusy = 2
    None = None
INVARIANTS
    PasswordEndsSignIns
    SessionsBounded
    JarIsNewest
PROPERTY
    SocketsFollowSessions
CHECK_DEADLOCK FALSE
