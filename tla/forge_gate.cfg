\* Three requests to restart one container, a level that a restart of Forge may change;
\* and four moves of the tools and of people, two at a time, of which two go wrong.
SPECIFICATION MCSpec
CONSTANTS
    r1 = r1
    r2 = r2
    r3 = r3
    Calls = {r1, r2, r3}
    ToolOf <- MCToolOf
    TargetOf <- MCTargetOf
    LowRiskTools = {"docker_restart"}
    RestartFamily = {"docker_restart"}
    Levels = {0, 1, 2}
    Preapproved <- MCPreapproved
    TargetSeconds = 1
    CrashloopThreshold = 2
    CrashloopWindow = 2
    Hour = 2
    MaxTime = 2
    MaxRestarts = 1
    Slots = {s1, s2}
    Commits = {k1, k2}
    Images = {v1, v2}
    Replicas = {0, 8}
    None = None
    MaxMoves = 4
    MaxTroubles = 2
SYMMETRY MCSymmetry
INVARIANTS OneQuestionPerTarget RunsOnGrounds AutoRunsAreLimited RollbacksLeadBack
CHECK_DEADLOCK FALSE
