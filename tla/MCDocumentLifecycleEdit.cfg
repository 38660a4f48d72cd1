\* An edit and a posting of one document at the same time.
CONSTANTS
  s1 = s1
  s2 = s2
  d1 = d1
  c1 = c1
  c2 = c2
  NoSession = NoSession
  NoDoc = NoDoc
  Sessions = {s1, s2}
  Docs = {d1}
  Contents = {c1, c2}
  Ops = {"edit", "post"}
  MaxPostings = 1

SPECIFICATION Spec

INVARIANT PostedRowsMatchMovements
