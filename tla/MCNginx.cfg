CONSTANTS
    r1 = r1
    r2 = r2
    r3 = r3
    a = a
    b = b
    Revs = {r1, r2, r3}
    Accounts = {a, b}
    Account <- MCAccount
    Empty = {r3}
    Bad = {r1}
    None = None
    WriteErrors = TRUE
    MaxFaults = 3
    MaxRestarts = 1
SPECIFICATION LiveSpec
CHECK_DEADLOCK FALSE
INVARIANTS LinkAlwaysLoads SuccessKept
PROPERTIES OtherAccountsKept NextRequestCleans
