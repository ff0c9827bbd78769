SPECIFICATION Spec
CONSTANTS
    Tasks = {t1, t2}
    Chans = {h1, h2}
    Requests <- MCPublications
    None = None
    Default = Default
    x = x
    m1 = m1
    m2 = m2
SYMMETRY Symmetry
CHECK_DEADLOCK FALSE
INVARIANTS
    RecusadaMeansRefused
