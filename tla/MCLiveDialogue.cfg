SPECIFICATION Spec
SYMMETRY Sockets
CONSTANTS
    s1 = s1
    s2 = s2
    g = g
    Socket = {s1, s2}
    Signal = {g}
    Topical = {1, 5}
    Behavioral = {3}
    Technical = {1, 2}
    Presets = {4}
    Problems = {2}
    Templates <- MCTemplates
    MaxEvents = 3
    MaxDrops = 1
INVARIANTS ExchangeIsOfItsPosition ToldIsTrue ReportedProgressIsTrue
CHECK_DEADLOCK FALSE
