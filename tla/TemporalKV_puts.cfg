\* Two writers of one key, every kind of put, and a clock that stalls and steps back.
SPECIFICATION Spec
CONSTANTS
    s1 = s1  s2 = s2  k1 = k1  k2 = k2  v1 = v1  v2 = v2
    Key = {k1}
    Value = {v1, v2}
    Session = {s1, s2}
    Isolation <- Both
    Expected <- AllPuts
    NoRow = NoRow
    MaxClock = 3
    MaxBacks = 1
SYMMETRY Symmetry
INVARIANTS DualAddressing
PROPERTIES PastSettles ImplementsLog
