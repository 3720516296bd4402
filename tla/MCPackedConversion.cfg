SPECIFICATION Spec
CONSTANTS
    None = None
    Refused = Refused
    Word = 4000
    DenseHeader = 24
    Jobs <- MCJobs
    Variations <- MCVariations
INVARIANTS
    PublishedCanBeUsed
    StreamedIsResident
    BuffersWithinBudget
    LoadedIsTheConverted
    LayoutFixesTheCache
