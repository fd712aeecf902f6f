SPECIFICATION Spec
CONSTANTS
    MaxConns = 3
    MaxJoins = 2
    MaxEvents = 4
    MaxChat = 2
    Page = 1
INVARIANTS
    ReadyAgrees
    RefusedOnlyWhenGone
    LeaveWins
    SnapshotsAreValid
    FailedWasNotShown
    OnlyUnnamedHang
    PageIsShown
CHECK_DEADLOCK FALSE
