\* What the recorder says of changes behind links.
SPECIFICATION AttestorsSpec
CONSTANTS
  WalkOrder <- MCWalkOrder
  WorkingDir <- MCWorkingDir
  Trees <- MCTrees
  Content = {"c1", "c2"}
  Hashes = {"sha256"}
  DirHashGlobs <- MCDirHashGlobs
  Names <- MCNames
  Targets <- MCTargets
  MaxLinks = 3
  MaxWrites = 2
  PostAttestors = {}
  PostTrees <- MCPostTrees
  Readings <- MCReadings
  Caller = {c1, c2}
  Variables = {"def", "glob", "add", "add2", "plain"}
  DefaultKeys = {"DEF", "GLOB"}
  Matches <- MCMatches
  CaptureOptions <- MCCaptureOptions
  Corpora <- MCCorpora
  ScanOptions <- MCScanOptions
  ScanCaptures <- MCScanCaptures
  Manifests <- MCManifests
  K8sOptions <- MCK8sOptions
  ServerDefaults <- MCServerDefaults
  RegisteredAttestors = {"products"}
INVARIANT LinkedChangesAreProducts
CHECK_DEADLOCK FALSE
