\* Interleavings only: three uploads over two packages that share a file name.
CONSTANTS
  p1 = p1  p2 = p2
  f1 = f1  f2 = f2
  c1 = c1  c2 = c2
  u1 = u1  u2 = u2  u3 = u3
  d1 = d1
  None = None
  Torn = Torn
  Contents <- TwoContents
  Downloads <- OneDownload
  Packages <- TwoPackages
  Filenames <- TwoFiles
  Artifacts <- OwnAndShared
  Uploads <- ThreeUploads
  Faults <- NoFaults
SPECIFICATION Spec
SYMMETRY Interchangeable
INVARIANTS
  TypeOK
  FailureHasCause
  DownloadExplained
