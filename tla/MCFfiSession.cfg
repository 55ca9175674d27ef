SPECIFICATION FairSpec
CONSTANTS
    Threads = {t1, t2, t3}
    Txs = {x1, x2}
    MaxCalls = 1
    None = None
CHECK_DEADLOCK FALSE
INVARIANT SessionInv
INVARIANT FlagCoversWorker
INVARIANT CommitWhole
PROPERTY CallsReturn
