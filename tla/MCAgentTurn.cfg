\* Two messages, two failures, three rounds of tools, two write requests at once; two administrators.
CONSTANTS
  DefaultPrompts = {"system"}
  OtherPrompts = {"test"}
  DefaultTools = {"create_order"}
  Keys = {"env", "prod"}
  SeedKey = "env"
  Admins = {a1, a2}
  MaxVersions = 4
  Messages = {m1, m2}
  MaxToolIterations = 3
  MaxCalls = 2
  MaxFaults = 2

SYMMETRY Alike

SPECIFICATION SpecTurns

CONSTRAINT MCOneByOne

INVARIANTS
  PromptsReadable
  OrderedOnce
  OrdersAreTold
  RevokedKeyOrdersNothingNew

CHECK_DEADLOCK FALSE
