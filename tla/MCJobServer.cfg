CONSTANTS
    Job = {j1, j2, j3}
    Root = root
    TokenFd = token_fd
    TopLevel = 2
    Killable = {j1, j2, j3}
    MaxDrift = 1
    MaxCheats = 1
SPECIFICATION Spec
SYMMETRY JobSymmetry
INVARIANTS TypeOK Ledger IdleBalance NoHoarding BoundedParallelism Inv
CHECK_DEADLOCK FALSE
