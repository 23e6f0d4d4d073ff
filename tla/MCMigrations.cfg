SPECIFICATION MigrationsSpec
CONSTANTS
  shiva = shiva
  ram = ram
  sita = sita
  None = none
  Legacy <- MCLegacy
  FirstId = 20
  NewName <- MCNewName
  MaxCrashes = 1
  MaxApp = 2
INVARIANTS
  RecordedIsIntact
  NothingLost
PROPERTIES
  MigratesInTheEnd
CHECK_DEADLOCK FALSE
