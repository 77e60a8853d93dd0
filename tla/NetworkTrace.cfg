\* Two connections, one per listener, and a channel they have to share.
SPECIFICATION Spec
CONSTANTS
  c1 = c1
  c2 = c2
  Conn = {c1, c2}
  Family <- MCFamily
  Cap = 1
INVARIANTS
  CountedAreRecordedOnce
  ShutdownIsNotAnError
PROPERTY ShutdownCompletes
CHECK_DEADLOCK FALSE
