CONSTANTS
    NULL = NULL
    MaxCopies = 1
    Lines <- MCLines
    LevelArgs = {1, 7}
SPECIFICATION Spec
INVARIANTS
    RolesWithinCaps
    RolesFaithful
    ServeReady
    LostOnlyAfterClose
    Released
