SPECIFICATION Spec
CONSTANTS
    Scores <- MCScores
    Capacities = {1, 2}
    MaxResults = 3
    Nil = Nil
INVARIANTS
    WinnerIsBest
    UnpricedWins
CHECK_DEADLOCK FALSE
