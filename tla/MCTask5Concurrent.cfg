\* Requests of different people overlap and are cut off anywhere.
SPECIFICATION Spec
CONSTANTS
  s1 = s1
  s2 = s2
  Users = {u1, u2}
  Clicks = {1}
  Deleters = {x1}
  Scorers = {}
  Uploaders = {n1}
  Projects = {p1, p2}
  Sessions = {s1, s2}
  Batches <- MCBatches
  Docs = {d1, d2}
  Copies = {c1, c2}
  SlotsPerVersion = 2
  MaxInFlight = 3
  MaxPriority = 2
  MayAbort <- MCMayAbort
  NoDoc = NoDoc
  NoCopy = NoCopy
  NoSession = NoSession
SYMMETRY MCSymmetry
INVARIANTS OneLabeling NoRepeatSession PriorityNonNegative
