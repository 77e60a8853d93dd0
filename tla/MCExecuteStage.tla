---------------------------- MODULE MCExecuteStage ----------------------------
(***************************************************************************)
(* Instances of ExecuteStage: network-trace (both hooks), an attestor with *)
(* any set of hooks, and a second network-trace, with and without tracing. *)
(***************************************************************************)
EXTENDS ExecuteStage

CONSTANTS NetworkTrace,  \* declares both hooks
          Observer,      \* declares any non-empty set of hooks
          Command,       \* whether the stage has a command-run
          Faults         \* what may go wrong, in each run

MCSetup ==
  [declarers : {<<>>, <<NetworkTrace>>, <<Observer>>, <<NetworkTrace, Observer>>,
                <<NetworkTrace, NetworkTrace>>},
   stages    : {[a \in {NetworkTrace, Observer} |->
                   IF a = NetworkTrace THEN {PreExec, PreExit} ELSE s] :
                s \in {{PreExec}, {PreExit}, {PreExec, PreExit}}},
   tracing   : BOOLEAN,
   command   : Command,
   faults    : Faults]
=============================================================================
