SPECIFICATION RaceSpec
CONSTANTS
    Clients = {c1, c2, c3}
    Nobody = nobody
    FirstIds = {0}
    MAX_CLIENTS = 2
    TIME_TO_ANSWER = 2
    DELAY = 1
INVARIANTS
    PlayersFreed
CHECK_DEADLOCK FALSE
