SPECIFICATION Spec
CONSTANTS
    FailureThreshold = 1
    SuccessThreshold = 2
    Submissions <- MCSubmissions
    Questions <- MCQuestions
    Indexed <- MCPair
    Static <- MCPair
    Embedded <- MCPair
    Difficulty <- MCDifficulty
    Similarity <- MCSimilarity
    Relevant <- MCRelevant
    Profile <- MCProfile
    Strategy <- MCStrategy
    Start = 1
    Count <- MCCount
    TopK <- MCTopK
    Scores = {90}
    MaxRetries = 1
    None = None
INVARIANTS NeverAskedTwice FailsOnlyWhenExhausted
PROPERTIES SelectionsEnd BreakerRecovers
CHECK_DEADLOCK FALSE
