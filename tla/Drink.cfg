SPECIFICATION Spec
CONSTANTS
    Years = {2021, 2022}
    Months = {5}
    Days = {1, 2}
    Drinks = {beer}
    Amounts = {0, 1}
    Empty = Empty
    Text = Text
    NoDate = NoDate
    NoFile = NoFile
    Blank = Blank
INVARIANTS
    ListedOnce
    RecordedIsListed
PROPERTIES
    DiarySpec
CHECK_DEADLOCK FALSE
