\* Two manager requests may overlap.
SPECIFICATION Spec
CONSTANTS
  Tasks = {t1}
  Users = {u1, u2}
  Managers = {m1, m2}
  Numbers = {1}
  Nobody = Nobody
INVARIANTS CheckerNotLabeler
