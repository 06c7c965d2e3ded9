SPECIFICATION Spec
CONSTANTS
  Dirs = {d1, d2}
  NoDir = NoDir
  NUM_ROOMS = 3
  ROOM_NAMES <- MCNames
  Graphs <- MCGraphs
  MaxTime = 3
  MaxGames = 2
  MaxSteps = 4
INVARIANTS
  RoomsMadeDiffer ArraysHold RoomsAsBuilt PathIsWalk NewestDirChosen FinishedIsPlayable
CHECK_DEADLOCK FALSE
