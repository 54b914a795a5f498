CONSTANTS
    old = old
    new = new
    short = short
    long = long
    Texts = {old, new, short, long}
    Size <- MCSize
    MaxBytes = 2
    Rows = {1, 2, 3}
    Limits = {1, 2}
    MaxPasses = 2
    MaxEdits = 2
    MaxFaults = 1
    NoText = NoText
SPECIFICATION QueriesSpec
INVARIANTS
    SliceIsOwn
    PagesTile
PROPERTY
    ListingEnds
