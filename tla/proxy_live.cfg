\* Go: three downloads of two versions that lead to one key, from an upstream
\* that may fail.
CONSTANTS
  p1 = p1  p2 = p2  f1 = f1
  a = a  b = b  v = v
  c1 = c1  c2 = c2
  d1 = d1  d2 = d2  d3 = d3
  None = None
  Torn = Torn
  Packages <- Modules
  Filenames <- Versions
  Artifacts <- MeetingPaths
  Contents <- TwoContents
  Uploads <- ThreeClients
  Faults <- UpstreamOnly
  Protocol = "go"
SPECIFICATION FairSpec
INVARIANTS
  NoNilRow
  AllReceiveTheSame
PROPERTIES
  EveryDownloadIsAnswered
