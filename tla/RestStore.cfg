\* Three calls about one key, all of documents, of tokens and users, or of
\* sessions and states: the three use different tables.
CONSTANTS
  Calls = {c1, c2, c3}
  MethodGroups <- Groups
  Keys = {k1}
  Contents <- SomeContents
  Nothing = Nothing
SPECIFICATION RestSpec
SYMMETRY CallSymmetry
INVARIANTS HalvesAreReported
PROPERTIES LateRequestsUndoNothing
