SPECIFICATION FairSpec
CONSTANTS
    Editors = {e1}
    Names = {n1, n2}
    Pictures = {p1, p2}
    NoPicture = NoPicture
    NoBitmap = NoBitmap
    NoEditor = NoEditor
INVARIANTS
    TypeOK
    PostsComplete
    BarTellsTruth
    PicturesAgree
PROPERTIES
    BoardSpec
    ClickResolves
CHECK_DEADLOCK FALSE
