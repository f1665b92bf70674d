CONSTANTS
    a = a
    b = b
    c = c
    d = d
    e = e
    Target = {a, b, c, d, e}
    Root = root
    TokenFd = token_fd
    NoOne = no_one
    Goals <- DABE
    Deps <- LeavingDeps
    Flaky = {}
    Forced = {}
    KeepGoing = FALSE
    Follow = TRUE
    TopLevel = 2
    MaxBuilds = 1
    MaxCheats = 1
SPECIFICATION FairRedo
CHECK_DEADLOCK FALSE
PROPERTY ForegroundProgress
