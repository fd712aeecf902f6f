SPECIFICATION Spec
CONSTANTS
    Emails = {"a", "b"}
    Passwords = {1, 2}
    MaxCalls = 3
    MaxFails = 1
INVARIANTS
    OneAccountPerEmail
    RememberedAgrees
    ListFollows
CHECK_DEADLOCK FALSE
