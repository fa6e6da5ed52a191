\* What the change log says of pre-ready seats.
SPECIFICATION Spec
CONSTANTS
  Seats = {s1}
  Calls = {o}
  Orderly = {o}
  Slots = {r1}
  Projects = {p}
  NoCall = NoCall
  NoSeat = NoSeat
INVARIANT PreReadyCleared
