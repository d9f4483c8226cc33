SPECIFICATION Spec
CONSTANTS
  Keys = {k1, k2}
  Clients = {c1, c2, c3}
  MaxRevision = 2
SYMMETRY RepositorySymmetry
INVARIANTS
  SavedIsIndexed
  ListComplete
PROPERTIES
  NoResurrection
  KeepsContract
