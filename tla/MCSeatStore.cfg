\* One orderly call beside one that overlaps and repeats its requests.
SPECIFICATION Spec
CONSTANTS
  Seats = {s1, s2}
  Calls = {o, d}
  Orderly = {o}
  Slots = {r1, r2}
  Projects = {p}
  NoCall = NoCall
  NoSeat = NoSeat
SYMMETRY Symmetry
INVARIANTS SeatConsistent EndedCallHoldsNoSeat
PROPERTY ReleasedByOwnCall
