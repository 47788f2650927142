SPECIFICATION GuardsFairSpec
CONSTANTS
    Users = {u1}
    Admins = {a1, a2}
    Permissions <- AllPermissions
    Requests = {r1}
    None = None
INVARIANTS
    GuardsTypeOK
    ActsForBearer
    VouchedByIdentity
    ActsOnGrant
PROPERTIES
    EveryRequestDecided
CHECK_DEADLOCK FALSE
