\* One index request at the virtual repository that cmd/seed creates, no fault.
CONSTANTS
  local = local  proxy = proxy  other = other
  f1 = f1  f2 = f2  r1 = r1
  None = None
  Members <- SeedMembers
  Kind <- SeedKinds
  Priority <- SeedPriorities
  Files <- TwoFiles
  ModFiles <- OneModFile
  Tags <- TwoTags
  Pasts <- NoPast
  Requests <- OneRequest
  MaxRows = 2
  Faults <- NoFaults
SPECIFICATION Spec
INVARIANTS
  LocalRepoFirst
