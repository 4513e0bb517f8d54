SPECIFICATION ExercisesSpec
CONSTANTS
    Clients = {c1, c2, c3}
    Nobody = nobody
    FirstIds = {7}
    MAX_CLIENTS = 2
    TIME_TO_ANSWER = 3
    DELAY = 1
    Peers = {p1}
    NUL = nul
    Bytes = {"Q", "U", "I", "T", nul}
    MaxSaid = 3
    BufSize = 2
    MaxJunk = 1
    TRACKS = 3
    POOL = 3
    TRACK_WIDTH = 2
    BUF_SIZE = 6
    LoopDescs = 5
    MATH_QUESTIONS_LEN = 1
    CONVERSION_QUESTIONS_LEN = 14
    MaxFactor = 4
    MaxTerm = 2
    Said <- MCSaid
INVARIANTS
    ExercisesTypeOK
    Contiguous
    WrittenBeforeClosed
    TrackNotBelowSlot
    HorselessCameLater
    AnswersRight
    LineJudged
    Answered
    ConnectionFreed
    PlacesInOrder
    SendsOpenHandle
    MovesNotLost
    Released
PROPERTIES
    QuestionsGoOn
    EndedIsClosed
    RaceEnds
CHECK_DEADLOCK FALSE
