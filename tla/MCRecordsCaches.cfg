SPECIFICATION Spec
CONSTANTS
    Running = {"weather", "points", "assets"}
    Admins = {a1, a2}
    Menus = {m1}
    MaxRaceRevision = 3
    Nil = Nil
    Races = {x, y}
    Starts = {2, 4}
    Durations = {0, 2}
    Window = 2
    Ttl = 1
    Epoch = 2
    MaxTime = 3
    MaxLost = 1
    OfficialIds = {o1}
    Rests = {x, y}
    Presets = {x, y}
    MaxRevision = 2
    MaxRuntime = 2
    Users = {u1}
    Lifetimes = {1, 2}
    Safety = 1
    MinTtl = 1
    TeamTtl = 1
    CallTime = 1
    Retries = 1
    MaxTicks = 2
    MaxTokens = 2
    ForecastPresets = {p1}
    Schedules = {e0, x, y}
    Pointless = {e0}
    Empty = e0
    MaxVersion = 2
    MaxClock = 2
    Minute = 1
    StepLength = 2
    MaxStart = 4
    MaxEntries = 3
    Types = {0, 1, 4}
    Temperatures = {10, 13}
    Horizon = 5
    Step = 3
    TailOnly = FALSE
    Limits = {2}
    Offsets = {2}
    Asked = {"main"}
    Replaced = {"main"}
    Blank = Blank
INVARIANTS
    DownloadsAreTrue
    ForecastMatchesSchedule
    ForecastIsPointwise
PROPERTIES
    ScheduleMovesForward
SYMMETRY Symmetry
CHECK_DEADLOCK FALSE
