\* API clients and the tabs of a browser on the same tables, every fault.
CONSTANTS
  reg1 = reg1  reg2 = reg2  repo = repo
  t1 = t1  t2 = t2
  k1 = k1  k2 = k2  k3 = k3
  None = None
  Absent = Absent
  Callers <- Everyone
  Calls <- SomeCalls
  Registries <- TwoRegistries
  Repositories <- OneRepository
  Formats <- SomeFormats
  DefaultFormat = "file"
  Handled <- SomeHandled
  Faults <- DatabaseFaults
  Tabs <- TwoTabs
  Pages <- TwoPages
  Home <- RegistriesPage
  MaxLogins = 2
  Tokens <- AllTokens
  Clients <- ThreeClients
  Crowds <- SomeCrowds
SPECIFICATION Spec
INVARIANTS
  TypeOK
  OneCreator
  AcknowledgedIsUsable
  FailureHasRival
  ReturnsToOwnPage
  LoginFailureExplained
