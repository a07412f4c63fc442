SPECIFICATION MaintenanceSpec
CONSTANTS
  MaxRows = 3
  MaxUpdates = 3
  Releases = 3
  MinAge = 1
  MaxPinNights = 2
  MaxMishaps = 2
  MaxHistory = 3
  MaxDeploys = 2
  Rechecks = 2
  P1Steps = {"gamingrig_maintenance", "apt_upgrade", "auto_docker", "docker_settle", "freshrss", "docker_cleanup"}
  CacheRecords = 4
  MaxBoots = 4
  MaxVisits = 2
  MaxOmpRows = 2
  MaxRepairs = 3
  Newest = 4
  Retention = 2
  MaxEvenings = 3
INVARIANTS TypesOK UpdatesFinished ReportsTrue CachePruned
PROPERTIES NoStepBreaks
CHECK_DEADLOCK FALSE
