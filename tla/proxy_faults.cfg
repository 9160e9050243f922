\* PyPI under every fault: three requests, downloads and uploads, for one file
\* name that two packages share.
CONSTANTS
  p1 = p1  p2 = p2  f1 = f1
  a = a  b = b  v = v
  c1 = c1  c2 = c2
  d1 = d1  d2 = d2  d3 = d3
  None = None
  Torn = Torn
  Packages <- TwoPackages
  Filenames <- OneFile
  Artifacts <- SharedName
  Contents <- TwoContents
  Uploads <- ThreeClients
  Faults <- FaultKinds
  Protocol = "pypi"
SPECIFICATION Spec
SYMMETRY Interchangeable
INVARIANTS
  TypeOK
  RowsAreIntact
  OneRowPerName
  NoNilRow
