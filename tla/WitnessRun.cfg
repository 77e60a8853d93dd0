\* Three attestors: the context with the first, the hooked and the last run
\* type of a run, verify, an unset and an unknown one; and run() with two
\* material attestors and one product attestor, of every export kind.
SPECIFICATION RunSpec
CONSTANTS
  N = 3
  Path = {p1}
  RunTypes = {"prematerial", "execute", "postproduct", "verify", "", "other"}
  Declarers = {{}, {2}}
  Kinds = {"plain", "off", "on", "multi", "multioff", "multion"}
  Configuration <- MCConfiguration
  RunOptions <- MCRunOptions
  Runs <- MCRuns
  NExported = 2
INVARIANTS
  TypeOK
  StagesAreOrdered
  SeesEarlierStages
  LatestStageWins
  ReturnAccountsForAll
  
  PartialResultsAreSound
  CollectionAgreesWithContext
PROPERTIES
  NoLostUpdate
  RunReturns
CHECK_DEADLOCK FALSE
