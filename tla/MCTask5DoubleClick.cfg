\* One labeller clicks twice.
SPECIFICATION Spec
CONSTANTS
  s1 = s1
  s2 = s2
  Users = {u1}
  Clicks = {1, 2}
  Deleters = {}
  Scorers = {}
  Uploaders = {n1}
  Projects = {p1}
  Sessions = {s1, s2}
  Batches <- MCBatches
  Docs = {d1, d2}
  Copies = {c1, c2}
  SlotsPerVersion = 2
  MaxInFlight = 2
  MaxPriority = 2
  MayAbort <- MCMayAbort
  NoDoc = NoDoc
  NoCopy = NoCopy
  NoSession = NoSession
INVARIANT OneLabeling
