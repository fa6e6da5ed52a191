\* One manager request at a time, workers at any time.
SPECIFICATION Spec
CONSTANTS
  Tasks = {t1, t2}
  Users = {u1, u2, u3}
  Managers = {m1}
  Numbers = {1, 2, 3}
  Nobody = Nobody
SYMMETRY Symmetry
INVARIANTS CheckerNotLabeler HeldByStatus
PROPERTIES NoStolenWork
