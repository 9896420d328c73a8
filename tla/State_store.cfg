SPECIFICATION Spec
CONSTANTS
  MaxEdits = 6
  Names = {1, 2}
INVARIANTS
  StoreTypeOK
  
PROPERTIES
  UnreadFilesSurvive
  QuitSaves
