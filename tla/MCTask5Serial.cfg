\* Two labellers, one request at a time: what every handler promises alone.
SPECIFICATION Spec
CONSTANTS
  s1 = s1
  s2 = s2
  Users = {u1, u2}
  Clicks = {1}
  Deleters = {x1}
  Scorers = {g1}
  Uploaders = {n1}
  Projects = {p1}
  Sessions = {s1, s2}
  Batches <- MCBatches
  Docs = {d1, d2, d3}
  Copies = {c1, c2, c3}
  SlotsPerVersion = 2
  MaxInFlight = 1
  MaxPriority = 3
  MayAbort <- MCMayAbort
  NoDoc = NoDoc
  NoCopy = NoCopy
  NoSession = NoSession
INVARIANTS UniqueSessions OneScorer
PROPERTIES ScoredForGood ImplementsLedger
