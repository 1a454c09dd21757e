\* Two concurrent requests, two questions.
SPECIFICATION Spec
CONSTANTS
    Txn = {t1, t2}
    NoTxn = NoTxn
    Orphan = Orphan
    TotalQuestions = 2
    MaxRetries = 2
    Offered = {"start", "complete", "expire", "cancel", "review", "answer", "expire_overdue"}
SYMMETRY Symmetry
INVARIANTS
    ExchangesContiguous
    ProgressMatchesExchanges
    AuditTrailIsComplete
    AutoCompleteOnlyWhenAnswered
    OneWinnerPerMove
PROPERTIES
    ImplementsLifecycle
