SPECIFICATION FairSpec
CONSTANTS
    u1 = u1
    Users = {u1}
    Sockets = {1, 2}
    Owner <- MCOwner
    Nobody = Nobody
    Kinds = {"broadcast", "reed"}
    BusEnabled = TRUE
    ClearOnBoot = FALSE
    MaxKicks = 1
    MaxCrashes = 1
INVARIANTS TypeOK OneSession
PROPERTY PresenceSettles
CHECK_DEADLOCK FALSE
