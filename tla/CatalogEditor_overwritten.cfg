CONSTANTS
    Ids = {c1, c2}
    NoId = none
    Names = {name1}
    Empty = empty
    MaxForms = 2
    MaxPresses = 2
SPECIFICATION Spec
PROPERTIES NewProductIsNew
CHECK_DEADLOCK FALSE
