SPECIFICATION Spec
CONSTANTS
    Day = 24
    Minute = 4
    Bucket = 8
    ScoreScale = 840
    Plugs = {p1, p2}
    Unspecified = {}
    Requests <- MCRequests
    Forecasts <- MCForecasts
    Stage1 = 4
    Stage2 = 8
    MinStage = 6
    Throttle = 4
    Poll = 2
    Wait = 2
    Start = 19
    MaxNow = 35
    MaxUser = 1
    UserUntil = 21
SYMMETRY Symmetry
CHECK_DEADLOCK FALSE
INVARIANTS SchedulesTypeOK DeadlineIsTried HoldIsResumedInTime
PROPERTIES UnforcedStartsAreSpaced FailuresArePaced
