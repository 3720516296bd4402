SPECIFICATION Spec
CONSTANTS
    Session = {s1, s2}
    Local = Local
    NaN = NaN
    Models <- MCModels
    Texts <- MCTexts
    Batches = {1, 2}
    Widths = {1, 2, 3}
    MaxPositions = 5
    Budgets = {1, 3}
INVARIANTS
    StepsDoNotMatter
    CacheHoldsTheFed
    GreedyIsTheReference
