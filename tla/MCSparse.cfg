SPECIFICATION Spec
CONSTANTS
    IntMax = 31
    GgufFiles <- MCGgufFiles
    JsonFiles <- MCJsonFiles
    Twin <- MCTwin
    Requests = {0, 3, 5}
    TextLists <- MCTextLists
    BatchSizes = {1, 2}
    Options <- MCOptions
    OnnxVocab = 9
    Logit <- MCLogit
    MaxThrows = 1
    MaxCalls = 2
INVARIANTS SparseRight LoadedSound TokensCover SameTokens OrtBalanced
