CONSTANTS
    a = a
    b = b
    c = c
    d = d
    e = e
    Target = {a, b, c, d}
    Root = root
    TokenFd = token_fd
    NoOne = no_one
    Goals <- AB
    Deps <- CrossedDeps
    Flaky = {c}
    Forced = {}
    KeepGoing = FALSE
    Follow = FALSE
    TopLevel = 2
    MaxBuilds = 2
    MaxCheats = 1
SPECIFICATION FairSpec
INVARIANTS TypeOK HeldUntilRecorded DepsBuilt SuccessIsTrue BuiltOnce JobLimit TokensConserved Inv
PROPERTIES Terminates JobServerSpec
