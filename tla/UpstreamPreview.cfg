\* Two channels, two detect requests in flight, one failure.
SPECIFICATION Spec
CONSTANTS
    Channels = {c1, c2}
    c1 = c1
    c2 = c2
    NoChannel = NoChannel
    Changes = {m1, m2}
    m1 = m1
    m2 = m2
    Slots = {r1, r2}
    r1 = r1
    r2 = r2
    MaxFaults = 1
SYMMETRY PreviewSymmetry
INVARIANTS
    ListOfChannel
    LoadingBacked
    ListPostedOnce
    AppliedAsShown
