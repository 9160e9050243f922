\* One request at a virtual repository with a local member and two proxies,
\* files that other clients publish and fetch, every format and every fault.
CONSTANTS
  local = local  proxy = proxy  other = other
  f1 = f1  f2 = f2  r1 = r1
  None = None
  Members <- ThreeMembers
  Kind <- ThreeKinds
  Priority <- ThreePriorities
  Files <- TwoFiles
  ModFiles <- OneModFile
  Tags <- TwoTags
  Pasts <- OnePast
  Requests <- OneRequest
  MaxRows = 3
  Faults <- MemberFaults
SPECIFICATION Spec
INVARIANTS
  TypeOK
  FirstHolderServes
  OneMemberAnswers
  IndexFollowsPriority
  TagsFollowPriority
