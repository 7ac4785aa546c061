SPECIFICATION DecisionSpec
CONSTANTS
    Parts = {"coordinator", "fold", "evaluator", "jev", "gate", "solver", "sessions", "limiter"}
    Dids = {d1, d2, d3}
    Null = null
    Secrets = {s1, s2}
    Rails = {"htlc", "HTLC", "paper"}
    lower <- MCLower
    MaxTime = 1
    HitScores = {50, 60, 80}
    Tables <- MCTables
    NoTable = notable
    Confidences = {noconf, 0, 5000, 6000, 9500}
    NoConfidence = noconf
    Signals = {0, 9000}
    SampleN = 3
    Coroutines = {1, 2}
    CALLS_PER_MINUTE = 2
    DAILY_CALL_CAP = 2
    EVALUATOR_PER_MINUTE = 1
    Minute = 2
    Day = 3
    Backoffs = {0, 1, 3}
    MaxNow = 6
    MaxRecorded = 7
    OfferRails = {flop, clk}
    flopRail = flop
    NoField = nofield
    MAX_AMOUNT = 2
    MaxLevel = 1
    Numbers <- MCNumbers
    Words <- MCWords
    Numerals <- MCNumerals
    MaxWords = 3
    Allowed = {"read"}
    Gated = {"write"}
    Denied = {"destroy"}
    Watched = {"read", "write"}
    MaxActions = 4
    MaxIterations = 3
    MaxCalls = 2
    Threshold = 2
    MaxRequests = 1
    Faults = {"sink", "read", "raise"}
    Requests = {q1, q2}
    Passwords = {p1, p2}
    MaxVersion = 3
    SeMaxRestarts = 2
    Checks = {k1, k2}
    RATE_LIMIT = 2
    WINDOW = 3
    LiMaxFaults = 3
CHECK_DEADLOCK FALSE
INVARIANTS EndIsEarned StopLetsOneCallThrough RiskIsNotMissed CommitmentIsGated MathIsRight LastWordHolds
PROPERTIES FoldIsEscrow GatewayIsSpared WindowIsFixed
