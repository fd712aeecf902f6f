SPECIFICATION Spec
CONSTANTS
    Emails = {"a", "b"}
    Passwords = {1, 2}
    MaxCalls = 3
    MaxFails = 0
INVARIANT ChangesAreShown
CHECK_DEADLOCK FALSE
