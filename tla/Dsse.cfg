\* Signing, verification and the policy signature.
SPECIFICATION Spec
CONSTANTS
  k1 = k1
  k2 = k2
  tsa = tsa
  other = other
  Absent = Absent
  Key = {k1, k2}
  Authority = {tsa, other}
  Instance <- MCInstance
INVARIANTS
  VerifyMatchesDefinition
  AcceptedPolicyIsSigned
CHECK_DEADLOCK FALSE
