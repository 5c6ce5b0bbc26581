CONSTANTS
    AuthIDs = {a1, a2}
    Keys = {k1, k2}
    MaxChanges = 2
    MaxLists = 2
    Unknown = Unknown
    Nil = Nil
SPECIFICATION Spec
INVARIANT SyncedWhenFollowed
CHECK_DEADLOCK FALSE
