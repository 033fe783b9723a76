SPECIFICATION Spec
CONSTANTS
  b = b
  c = c
  Roots <- TwoRoots
  FilesOf <- ThreeFiles
  Names = {"s"}
  MaxEdits = 2
SYMMETRY Alike
INVARIANTS
  ManifestIsOneMoment
  CandidatesFitManifest
CHECK_DEADLOCK FALSE
