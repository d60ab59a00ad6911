SPECIFICATION MCSpec
CONSTANTS
    Workers = {w1, w2}
    Entries = {1, 2}
    Requests = {"reindex", "backup"}
    MaxRetries = 2
    MaxEdits = 3
    MaxRequests = 1
    MaxMishaps = 1
    Sessions = {x, y}
    Texts = {"review", "note"}
    Mentions <- MCMentions
    Nobody = Nobody
    MaxSubmits = 3
    MaxBreakdowns = 1
    x = x
    y = y
    d1 = d1
    d2 = d2
    Desks = {d1, d2}
    KeptBackups = 1
    MaxSeconds = 2
    MaxBirths = 2
    MaxTasks = 3
    MaxFailures = 1
INVARIANTS EmbeddingsCatchUp NamesAreLinked BackupsStayWhole
PROPERTY JobsEnd
CHECK_DEADLOCK FALSE
