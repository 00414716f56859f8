SPECIFICATION Spec
CONSTANTS
  Images = {1, 2, 3, 4, 5, 6, 7, 8, 9, 10, 11, 12}
  MaxEdits = 2
INVARIANTS RevisionTellsSchema UpgradesFailOnlyAsKnown
PROPERTIES RowsSurvive
CHECK_DEADLOCK FALSE
