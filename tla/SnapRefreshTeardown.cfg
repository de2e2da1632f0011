SPECIFICATION FairSpec
CONSTANTS
    Callers = {c1}
    Workers = {w1}
    Snaps = {s1, s2}
    NULL = NULL
    Sizes = {1}
    Slack = 1
    MaxNodes = 16
    MaxGen = 2
    MaxLeak = 0
CHECK_DEADLOCK FALSE
PROPERTY TeardownEnds
