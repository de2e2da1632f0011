SPECIFICATION Spec
CONSTANTS
    Callers = {c1, c2}
    Workers = {w1, w2}
    Snaps = {s1, s2, s3}
    NULL = NULL
    Sizes = {1}
    Slack = 1
    MaxNodes = 2
    MaxGen = 3
    MaxLeak = 0
CHECK_DEADLOCK FALSE
SYMMETRY Symmetry
INVARIANT IInv
INVARIANT OneBuildAtATime
INVARIANT SnapshotAccurate
INVARIANT SnapshotsAccounted
INVARIANT LockOutlivesUsers
INVARIANT RateLimited
