\* Two requests and the completion thread, two exchanges.
SPECIFICATION Spec
CONSTANTS
    Thread = Thread
    Worker = {r1, r2, Thread}
    Exchanges = 2
    MaxEvaluations = 3
    MaxResults = 2
    MaxBusy = 2
SYMMETRY Symmetry
INVARIANTS
    FinalIsLatest
    CurrentIsLatest
    ResultsAreComplete
PROPERTIES
    ReplacesItsBase
