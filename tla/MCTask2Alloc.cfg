\* Every request for up to four tasks and three persons.
SPECIFICATION Spec
CONSTANTS
  Tasks = {t1, t2, t3, t4}
  Users = {u1, u2, u3}
  Numbers <- MCNumbers
  Unserved = Unserved
INVARIANTS CounterExact FairShare NothingLeftBehind HonestFailure
PROPERTY Answered
\* A request that has been answered stops.
CHECK_DEADLOCK FALSE
