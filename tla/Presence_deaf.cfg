SPECIFICATION Spec
CONSTANTS
    u1 = u1
    Users = {u1}
    Sockets = {1, 2, 3}
    Owner <- MCOwner
    Nobody = Nobody
    Kinds = {"reed"}
    BusEnabled = FALSE
    ClearOnBoot = TRUE
    MaxKicks = 0
    MaxCrashes = 0
INVARIANT NobodyDeaf
CHECK_DEADLOCK FALSE
