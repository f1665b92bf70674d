CONSTANTS
    a = a
    b = b
    c = c
    d = d
    e = e
    Target = {a, b}
    Root = root
    TokenFd = token_fd
    NoOne = no_one
    Goals <- AB
    Deps <- FlatDeps
    Flaky = {}
    Forced = {}
    KeepGoing = FALSE
    Follow = FALSE
    TopLevel = 2
    MaxBuilds = 1
    MaxCheats = 1
SPECIFICATION Spec
INVARIANT NoTokenPanic
