SPECIFICATION MCSpec
CONSTANTS
    Models <- MCModels
    Live <- MCLive
    Requested = "flash"
    Aliases <- MCAliases
    Family <- MCFamily
    Contents <- MCContents
    MaxChanges = 1
    Exchanges = 2
    HumanInputs <- MCHumanInputs
    MaxRetries = 2
    SectionNames <- MCSectionNames
    Interviews <- MCInterviews
    Influence = TRUE
    MaxResults = 2
    Utterances <- MCUtterances
    Replies <- MCReplies
    Chain <- MCChain
    MaxAttempts = 2
    MaxUtterances = 5
    Writers = {w1, w2}
    MaxRevisions = 2
INVARIANTS NotFoundMeansNoneServed   ReaggregationAgrees
PROPERTY SpokenAnswersAreSettled
