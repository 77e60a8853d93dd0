\* The command may fail to start.
SPECIFICATION Spec
CONSTANTS
  NetworkTrace = nt
  Observer = ob
  HookAttestor = {nt, ob}
  Setup <- MCSetup
  Code = {0, 3}
  Signal = 9
  MaxSignals = 1
  Command = {TRUE}
  Faults = {{"start"}}
PROPERTY CleanupIrrespectiveOfExit
CHECK_DEADLOCK FALSE
