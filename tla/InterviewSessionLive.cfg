\* Liveness: two concurrent requests, one question, no symmetry.
SPECIFICATION FairSpec
CONSTANTS
    Txn = {t1, t2}
    NoTxn = NoTxn
    Orphan = Orphan
    TotalQuestions = 1
    MaxRetries = 2
    Offered = {"start", "complete", "answer", "expire_overdue"}
PROPERTY
    RequestsTerminate
