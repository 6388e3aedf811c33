SPECIFICATION MCSpec
CONSTANTS
    MaxSources = 3
    Streams <- MCStreams
    MaxSize = 2
    StartFrames = 2
    HangoverFrames = 2
    FramesPerChunk = 3
    FrameSamples = 2
    TargetRate = 2
    PcmFormats <- MCFormats
    BufferSizes = {1, 5, 12}
    MaxBuffers = 6
    RatePairs <- MCRates
    MaxBytes = 11
    MaxChunk = 6
    MaxDataBytes = 6
    FlushBytes = 4
    MaxFed = 9
    MaxPiece = 5
    MaxPlayers = 3
    MaxPieces = 3
    GracePeriod = 2
    MaxTurns = 3
    m1 = m1
    m2 = m2
    m3 = m3
    ann = ann
    bob = bob
    NoTurn = NoTurn
    Lines <- MCLines
    Questions <- MCQuestions
    MaxNotes = 1
    MaxSeen = 2
    MaxPosts = 4
    MaxLives = 2
INVARIANT FallbackIsHeard
CHECK_DEADLOCK FALSE
