\* Two pages, three requests on their way, versions up to 2.
SPECIFICATION Spec
CONSTANTS
  Pages = {p1, p2}
  Requests = {r1, r2, r3}
  Contents = {x, y}
  Unallocated = Unallocated
  MaxVersion = 2
SYMMETRY Symmetry
INVARIANTS VersionNamesContent
PROPERTIES NoLostUpdate
