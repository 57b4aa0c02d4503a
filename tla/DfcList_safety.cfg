CONSTANTS
    NumHosts = 4
    Names <- TwoFiles
    Directories = {"d"}
    Size = 5
    MaxAnswer = 5
SPECIFICATION Spec
INVARIANTS AsksForOperand ListingRight
