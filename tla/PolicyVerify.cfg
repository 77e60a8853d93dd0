\* Chains of collections over three passes, and flows of artifacts through
\* three steps.
SPECIFICATION Spec
CONSTANTS
  build = build
  test = test
  release = release
  c1 = c1
  c2 = c2
  c3 = c3
  c4 = c4
  Step = {build, test, release}
  Coll = {c1, c2, c3, c4}
  Digest = {1, 2, 3}
  Path = {p}
  Content = {x, y}
  Case <- MCCase
INVARIANTS
  SearchIsSound
  SearchIsComplete
  VerdictIgnoresStepOrder
CHECK_DEADLOCK FALSE
