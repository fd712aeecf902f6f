SPECIFICATION FairSpec
CONSTANTS
    Ops = {o1, o2, o3}
    Threads = {t1, t2}
    Capacity = 2
    NoOp = NoOp
INVARIANTS
    ReservationHonoured
    TasksAccounted
PROPERTIES
    EveryAwaitReturns
