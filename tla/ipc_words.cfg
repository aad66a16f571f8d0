SPECIFICATION WordsSpec
CONSTANT Ids <- BorderIds
INVARIANTS
    SmallUlongsArrive
    KindsStayApart
    WordsImplemented
