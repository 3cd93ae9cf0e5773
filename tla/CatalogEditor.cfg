CONSTANTS
    Ids = {c1, c2}
    NoId = none
    Names = {name1}
    Empty = empty
    MaxForms = 2
    MaxPresses = 2
SPECIFICATION FairSpec
INVARIANTS TypeOK ImagesExist EditsStayInPlace ImageMatchesName
PROPERTIES NewCategoryIsNew UploadsEnd
CHECK_DEADLOCK FALSE
