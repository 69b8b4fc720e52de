\* Layout, seed and file of the templates of MCRecordText.
CONSTANTS
    Templates <- MCTemplates
    Length <- MCLength
    MaxDepth = 3
    FlagValues = {0, 1}
    TextWords = {1, 4}
    Narrow = 20
    MaxLines = 2
    MaxWords = 40
SPECIFICATION Spec
INVARIANTS LenIsSize Disjoint StaysInSeed  
CHECK_DEADLOCK FALSE
