CONSTANTS
    MaxFreq = 100
    Sizes = {1, 4, 20}
    Freqs = {1, 9, 100}
    MaxComponents = 7
    BinSizes <- MCBinSizes
    Lines <- Removals
SPECIFICATION Spec
INVARIANT
    LabelNamesLast
