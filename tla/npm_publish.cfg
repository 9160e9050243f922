\* Two publishes with up to two attachments each, every fault they can meet.
CONSTANTS
  p1 = p1  p2 = p2
  f1 = f1  f2 = f2
  c1 = c1  c2 = c2
  u1 = u1  u2 = u2
  None = None
  Torn = Torn
  Garbled = Garbled
  Packages <- TwoPackages
  Filenames <- TwoFiles
  Artifacts <- OwnAndShared
  Contents <- TwoContents
  Uploads <- TwoUploads
  Faults <- PublishFaults
SPECIFICATION Spec
SYMMETRY Interchangeable
INVARIANTS
  TypeOK
  AcknowledgedIsRecorded
  PublishedOnceIsSafe
