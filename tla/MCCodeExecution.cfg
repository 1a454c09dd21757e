\* Two codes for one exchange and one for another problem, two workers.
SPECIFICATION Spec
CONSTANTS
    r1 = r1
    r2 = r2
    r3 = r3
    x1 = x1
    x2 = x2
    Exchange = {x1, x2}
    Request = {r1, r2, r3}
    Worker = {w1, w2}
    NoRequest = NoRequest
    ExchangeOf <- MCExchangeOf
    Language <- MCLanguage
    Tests = 2
    TimeLimit <- MCTimeLimit
    Weight <- MCWeight
    Programs <- MCPrograms
    MaxFail = 1
PROPERTIES
    PolledVerdictHasItsResults
    ImplementsVerdict
    ExecutionsEnd
