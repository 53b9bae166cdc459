SPECIFICATION Spec
CONSTANTS
    Seqs <- MCSeqs
    MaxCount = 2
    MaxRanges = 5
INVARIANT EncodingExact
PROPERTY EarliestFirst
CHECK_DEADLOCK FALSE
