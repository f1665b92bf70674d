CONSTANTS
    a = a
    b = b
    c = c
    d = d
    e = e
    Target = {a, b, c, d}
    Root = root
    TokenFd = token_fd
    NoOne = no_one
    Goals <- AB
    Deps <- CrossDeps
    Flaky = {}
    Forced = {}
    KeepGoing = FALSE
    Follow = FALSE
    TopLevel = 2
    MaxBuilds = 2
    MaxCheats = 1
SPECIFICATION FairSpec
PROPERTY Terminates
CHECK_DEADLOCK FALSE
