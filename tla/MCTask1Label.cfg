\* Version 1 alone, one request between read and write.
SPECIFICATION ServicesSpec
CONSTANTS
  Services = {"tasks"}
  Versions = {"v1"}
  Tasks = {t1}
  Users = {u1, u2}
  Requests = {r1}
  Numbers = {1}
  Nobody = Nobody
  Labels = Labels
  Checks = Checks
  Ids = {1}
  People = {"u"}
  Records <- MCRecords
  Filters <- MCFilters
  Letters = {1}
  MaxOutput = 1
  MaxNote = 1
  Editions = {1}
  Folders = {1}
  Top = Top
  Jobs = {j1}
  ExecJobs = {j1}
  MaxEntries = 1
  MaxRestarts = 0
  MaxRemovals = 0
  Roles = {"boss", "chief"}
  Managers = {"boss"}
  Admins = {"chief"}
  NoRole = NoRole
PROPERTIES LabelledByHolder
CHECK_DEADLOCK FALSE
