CONSTANT MaxAttach = 2
SPECIFICATION Spec
PROPERTIES AttachmentsFollowed LeftCycleDisconnects OwnCredentialsKept
CHECK_DEADLOCK FALSE
