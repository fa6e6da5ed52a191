\* Two requests between read and write while one task is stored, one request
\* when there are two tasks, beside all single updates.
SPECIFICATION ServicesSpec
CONSTANTS
  Services = {"tasks", "pages", "work", "folders", "jobs", "http"}
  Versions = {"v1", "v2", "v3", "v5", "v6"}
  Tasks = {t1, t2}
  Users = {u1, u2}
  Requests = {r1, r2}
  Numbers = {1, 2}
  Nobody = Nobody
  Labels = Labels
  Checks = Checks
  Ids = {1, 2, 3}
  People = {"u"}
  Records <- MCRecords
  Filters <- MCFilters
  Letters = {1, 2}
  MaxOutput = 3
  MaxNote = 2
  Editions = {1, 2, 3, 4, 5, 6}
  Folders = {1, 2, 3}
  Top = Top
  Jobs = {j1, j2}
  ExecJobs = {j2}
  MaxEntries = 2
  MaxRestarts = 1
  MaxRemovals = 1
  Roles = {"boss", "chief"}
  Managers = {"boss"}
  Admins = {"chief"}
  NoRole = NoRole
SYMMETRY Symmetry
CONSTRAINT Narrow
INVARIANTS MisfitOnlyIfOvertaken CountsAgree NothingSkipped TreeReachesAll ServedAsAllowed
PROPERTIES OwnContents LeadsTaskLife CreditsWritten NeverStopsAnother
CHECK_DEADLOCK FALSE
