\* Three uploads over three versions of two modules, every fault: two share a
\* version, two share a key.
CONSTANTS
  a = a  b = b  v = v
  c1 = c1  c2 = c2
  u1 = u1  u2 = u2  u3 = u3
  None = None
  Torn = Torn
  Segments <- PathSegments
  Packages <- Modules
  Filenames <- Versions
  Artifacts <- MeetingPaths
  Contents <- TwoContents
  Uploads <- ThreeUploads
  Faults <- AllFaults
SPECIFICATION Spec
SYMMETRY Interchangeable
INVARIANTS
  TypeOK
  AtMostOneCreated
  LossIsExplained
  RecordedHasBlob
