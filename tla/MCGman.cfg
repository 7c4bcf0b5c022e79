SPECIFICATION ProgramSpec
CONSTANTS
  ROWS = 3
  COLS = 4
  Floors <- MCFloors
  Start <- MCStart
  GhostStart <- MCGhostStart
  MAX_LEVELS = 2
  START_LIVES = 1
  Seeds = {85}
  LivesBytes = {0, 255}
  Keys = {"LEFT", "RIGHT", "UP", "DOWN", "none", "q"}
  CodeLevels = {0, 1}
  CodeLives = {0, 255}
  CodeSeeds = {85}
  MaxSlips = 2
INVARIANTS
  TypeOK
  StaysOnFloor
  ScoreIsEarned
  PasswordReturnsHere
  CopyIsTaken
  SlipsAreCaught
PROPERTIES
  NoJump
  GoesOnAsPrinted
CHECK_DEADLOCK FALSE
