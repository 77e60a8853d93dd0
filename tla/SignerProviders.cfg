SPECIFICATION SignersSpec
CONSTANTS
  FulcioURLs <- MCFulcioURLs
  FulcioTokens <- MCFulcioTokens
  FulcioChains <- MCFulcioChains
  MaxVersion = 2
  TTL = 2
  HashOf <- MCHashOf
  CurveOf <- MCCurveOf
  Messages = {"m1", "m2"}
  PemFiles <- MCPemFiles
  Passphrases = {"", "p1", "p2"}
  RegisteredNames = {"fulcio", "kms", "file", "vault", "spiffe"}
CHECK_DEADLOCK FALSE
INVARIANTS
  RetriesAreJustified
  ConfiguredIdentityIsUsed
  PinnedVersionHolds
  LocalSignerIsAsConfigured
PROPERTIES
  SignerReturns
  KeyRotationIsNoticed
  RenewalStops
