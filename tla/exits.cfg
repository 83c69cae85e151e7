SPECIFICATION FairSpec
CONSTANTS
    Machines = {"workers"}
    Callers = {c1, c2, c3}
    FailureThreshold = 2
    ResetTimeout = 3
    HttpTimeout = 2
    MaxFailures = 5
    Emails = {m1}
    Tokens = {t1, t2, t3}
    Requests = {q1, q2}
    NoToken = noToken
    Timers = {1, 2, 3}
    Debounce = 2
    Cooldown = 5
    MaxFlaps = 2
    MaxRestarts = 1
    Admins = {a1, a2}
    MaxPasswords = 2
    Switchers = {s1, s2}
    MaxSwitches = 5
    NoSwitcher = noSwitcher
    Readers = {r1, r2}
    HalfHour = 3
    CarbonTimeout = 2
    LastInstant = 8
    DayLength = 6
    Stale = 2
    Draws = {0, 1}
    WindowLists <- MCWindowLists
    LastPoll = 6
    MaxResets = 1
    Endpoints = {e1, e2}
    Notices = {n1}
    PoolSize = 1
    MaxAttempts = 3
    Tickers = {w1, w2}
    QueueSize = 2
    MaxPanics = 2
    Day = 240
    Minute = 1
    Bucket = 30
    ScoreScale = 100000
    Vehicles <- MCVehicles
    Plans <- MCPlans
    Forecasts <- MCForecasts
    MinStage = 10
    Start = 235
    MaxNow = 485
CHECK_DEADLOCK FALSE
INVARIANTS ExitIsGraceful
