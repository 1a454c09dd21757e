SPECIFICATION Spec
CONSTANTS
    r1 = r1
    r2 = r2
    Requests <- MCRequests
    SuperOrg = "base"
    Admins <- MCAdmins
    Candidate <- MCCandidate
    Names <- MCNames
    Texts <- MCTexts
    Roles <- MCRoles
    Topics <- MCTopics
    MaxDone = 1
    MaxAncestorDepth = 3
    Fold <- MCFold
    Secrets = {"p", "q"}
    ActiveOrganizations = {"acme"}
    Skills <- MCSkills
    Options <- MCOptions
    GlobalTexts = {"b"}
    Rules <- MCRules
    Clusters <- MCClusters
    FlagAt = 50
    RiskCap = 60
    Batches <- MCBatches
    Workloads <- MCWorkloads


PROPERTY SubmissionsSurvive
