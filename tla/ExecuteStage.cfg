\* No fault at all, and all of them at once.
SPECIFICATION Spec
CONSTANTS
  NetworkTrace = nt
  Observer = ob
  HookAttestor = {nt, ob}
  Setup <- MCSetup
  Code = {0, 3}
  Signal = 9
  MaxSignals = 2
  Command = {TRUE, FALSE}
  Faults = {{}, {"init", "slow", "start", "hook", "ptrace", "sigkill", "cancel",
                 "eventmsg", "output"}}
INVARIANTS
  NoUserCodeBeforePreExec
  HookProtocol
  SignalsAreGivenBack
PROPERTIES
  CommandRunReturns
  StageTerminates
CHECK_DEADLOCK FALSE
