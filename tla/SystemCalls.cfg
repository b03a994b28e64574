CONSTANTS
    Pid = {k1, k2, k3}
    NoPid = NoPid
SPECIFICATION SysSpec
INVARIANTS
    SysTypeOK
    FileClosed
    ChildrenAccounted
CHECK_DEADLOCK FALSE
