\* Every kind of request, two at a time, on one document.
CONSTANTS
  s1 = s1
  s2 = s2
  d1 = d1
  c1 = c1
  c2 = c2
  NoSession = NoSession
  NoDoc = NoDoc
  Sessions = {s1, s2}
  Docs = {d1}
  Contents = {c1, c2}
  Ops = {"edit", "post", "unpost", "delete"}
  MaxPostings = 2

SPECIFICATION FairSpec

INVARIANTS
  RegistersMatchDocument
  StaleOnlyIfShared
  OneRegistrarPerDocument

PROPERTIES
  ImplementsDocument
  RequestsFinish
