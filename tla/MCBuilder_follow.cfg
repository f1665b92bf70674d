CONSTANTS
    a = a
    b = b
    c = c
    d = d
    e = e
    Target = {a, b, c, d}
    Root = root
    TokenFd = token_fd
    NoOne = no_one
    Goals <- BAD
    Deps <- LeavingDeps
    Flaky = {b}
    Forced = {root}
    KeepGoing = TRUE
    Follow = TRUE
    TopLevel = 2
    MaxBuilds = 1
    MaxCheats = 1
SPECIFICATION Spec
INVARIANTS SuccessIsTrue LedgerHolds
CHECK_DEADLOCK FALSE
