SPECIFICATION Spec
CONSTANTS
  menu = menu
  Logger = {menu, other}
  MaxLog = 3
  Share = 2
  MaxQueue = 1
  MaxSaves = 2
  MaxNotes = 2
  MaxMishaps = 3
INVARIANTS
  SettingsSurvive
  SavedAsLogged
  LogKept
CHECK_DEADLOCK FALSE
