-------------------------- MODULE ExecuteStageProofs --------------------------
(***************************************************************************)
(* However many attestors use hooks, whatever fails and however the        *)
(* goroutines interleave: no user code runs before every PreExec hook was  *)
(* called, a hook is called at most once and only when it is ready, and a  *)
(* signal the process stopped at is given back to it.                      *)
(*                                                                         *)
(* The argument: command-run passes WaitForDeclaredHooks only when every   *)
(* declared hook is in h.hooks, and from then on none is added; so the     *)
(* hooks RunHooks still has to call are exactly those declared for the     *)
(* stage that were not called, and the process is resumed when there are   *)
(* none.                                                                   *)
(***************************************************************************)
EXTENDS ExecuteStage, SequenceTheorems, TLAPS

STypes ==
  /\ declared \subseteq Declaration
  /\ fulfilled \subseteq declared
  /\ ready \subseteq fulfilled
  /\ hooks \in Seq(Declaration)
  /\ allFulfilled \in BOOLEAN
  /\ main \in {"declare", "error", "wait", "done"}
  /\ DOMAIN attestor = HookAttestor
  /\ called \in [Declaration -> {0, 1}]
  /\ cr \in {"idle", "wait", "flags", "start", "stopped", "preexec", "loop",
             "waitpid", "preexit", "reap", "returned"}
  /\ tracee \in {"none", "execstop", "running", "sigstop", "exitstop", "held",
                 "heldexit", "dead", "reaped"}
  /\ owed \in Nat

\* h.hooks lists what was registered, each hook once.
Registered ==
  /\ \A i \in 1..Len(hooks) : hooks[i] \in fulfilled
  /\ \A d \in fulfilled : \E i \in 1..Len(hooks) : hooks[i] = d
  /\ \A i, j \in 1..Len(hooks) : hooks[i] = hooks[j] => i = j
  /\ allFulfilled => declared \subseteq fulfilled

\* Nothing runs while hooks are declared.
Declaring ==
  main \in {"declare", "error"} =>
    /\ cr = "idle"
    /\ tracee = "none"
    /\ ~ allFulfilled
    /\ \A a \in HookAttestor : attestor[a] = "idle"

\* Where the process can be when command-run is somewhere.
Positions ==
  /\ cr \in {"idle", "wait", "flags", "start"} => tracee = "none"
  /\ cr \in {"stopped", "preexec"} => tracee = "execstop"
  /\ cr \in {"loop", "waitpid", "reap"} => tracee \notin {"none", "execstop"}
  /\ cr = "preexit" => tracee = "exitstop"
  /\ tracee \in {"exitstop", "heldexit", "dead", "reaped"} => outcome # NoOutcome

\* Once command-run went on, every declared hook is registered; once it has
\* looked, it knows which stages have hooks.
Rendezvous ==
  /\ cr \notin {"idle", "wait", "returned"} \/ tracee # "none" =>
       declared \subseteq fulfilled
  /\ cr \notin {"idle", "wait", "flags", "returned"} \/ tracee # "none" =>
       \A d \in declared : d[2] \in has

\* When a hook cannot have been called yet.
Calls ==
  \A d \in Declaration :
    /\ called[d] = 1 => d \in ready
    /\ tracee = "none" \/ cr = "stopped" => called[d] = 0
    /\ d[2] = PreExit /\ tracee \notin {"exitstop", "heldexit", "dead", "reaped"} =>
         called[d] = 0
    /\ d[2] = PreExit /\ tracee = "exitstop" /\ cr = "loop" => called[d] = 0

\* The hooks of stage s that were not called, by position.
Uncalled(s) == {i \in 1..Len(hooks) : hooks[i][2] = s /\ called[hooks[i]] = 0}

\* RunHooks has those to call; after a PreExit hook failed, none.
Batches ==
  /\ cr = "preexec" => batch = Uncalled(PreExec)
  /\ cr = "preexit" => batch \subseteq Uncalled(PreExit)

\* A signal is owed to the process only while it is stopped at it.
Signals ==
  /\ tracee \in {"none", "execstop", "running"} => owed = 0
  /\ tracee = "sigstop" => /\ stopSignal \in {"signal", "trap", "syscall"}
                           /\ owed = IF stopSignal = "syscall" THEN 0 ELSE 1

SInv ==
  /\ STypes /\ Registered /\ Declaring /\ Positions /\ Rendezvous
  /\ Calls /\ Batches /\ NoUserCodeBeforePreExec /\ Signals

-----------------------------------------------------------------------------

LEMMA StageInitially == Init => SInv
<1> SUFFICES ASSUME Init PROVE SInv
  OBVIOUS
<1>1. /\ hooks = <<>> /\ Len(hooks) = 0 /\ declared = {} /\ fulfilled = {}
      /\ called = [d \in Declaration |-> 0] /\ cr = "idle" /\ tracee = "none"
  BY DEF Init, HooksInit
<1>2. STypes
  <2>1. hooks \in Seq(Declaration)
    BY <1>1
  <2>2. allFulfilled \in BOOLEAN
    BY DEF Init, HooksInit
  <2>3. called \in [Declaration -> {0, 1}]
    BY <1>1
  <2>4. main = "declare" /\ DOMAIN attestor = HookAttestor /\ owed = 0 /\ ready = {}
    BY DEF Init, HooksInit
  <2> QED
    BY <1>1, <2>1, <2>2, <2>3, <2>4 DEF STypes
<1>3. Registered /\ Declaring
  BY <1>1 DEF Init, HooksInit, Registered, Declaring
<1>4. Positions /\ Rendezvous /\ Batches /\ Signals
  BY <1>1 DEF Init, Positions, Rendezvous, Batches, Signals
<1>5. Calls /\ NoUserCodeBeforePreExec
  BY <1>1 DEF Calls, NoUserCodeBeforePreExec, UserCodeRan
<1> QED
  BY <1>2, <1>3, <1>4, <1>5 DEF SInv

-----------------------------------------------------------------------------
(* The hooks that are declared, registered and ready                       *)

\* What DeclareHooks of an attestor does; nothing runs yet.
LEMMA DeclareEffect ==
  ASSUME SInv, DeclareHooks
  PROVE  /\ main = "declare" /\ main' \in {"declare", "error"}
         /\ cr = "idle" /\ tracee = "none" /\ ~ allFulfilled
         /\ declared \subseteq declared' /\ declared' \subseteq Declaration
         /\ UNCHANGED <<fulfilled, hooks, ready, allFulfilled, attestor, called,
                        crVars, traceeVars>>
<1>1. main = "declare" /\ cr = "idle" /\ tracee = "none" /\ ~ allFulfilled
  BY DEF DeclareHooks, SInv, Declaring
<1>2. /\ main' \in {"declare", "error"}
      /\ declared \subseteq declared' /\ declared' \subseteq Declaration
      /\ UNCHANGED <<fulfilled, hooks, ready, allFulfilled>>
  BY <1>1 DEF DeclareHooks, Declare, Hooks, hookVars, SInv, STypes
<1> QED
  BY <1>1, <1>2 DEF DeclareHooks

\* A hook can only be registered while command-run waits, or has given up
\* before it started the process.
LEMMA RegisterEffect ==
  ASSUME SInv, NEW a \in HookAttestor, AttestorRegister(a)
  PROVE  \E d \in declared \ fulfilled :
           /\ hooks' = Append(hooks, d)
           /\ Len(hooks') = Len(hooks) + 1
           /\ hooks'[Len(hooks) + 1] = d
           /\ \A i \in 1..Len(hooks) : hooks'[i] = hooks[i]
           /\ fulfilled' = fulfilled \cup {d}
           /\ allFulfilled' = (allFulfilled \/ declared \subseteq fulfilled')
           /\ attestor' = [attestor EXCEPT ![a] = "close"]
           /\ main \notin {"declare", "error"}
           /\ cr \in {"idle", "wait", "returned"} /\ tracee = "none"
           /\ UNCHANGED <<declared, ready, main, called, crVars, traceeVars>>
<1>1. PICK d \in Declaration : RegisterHook(d)
  BY DEF AttestorRegister
<1>2. d \in declared \ fulfilled /\ hooks \in Seq(Declaration)
  BY <1>1 DEF RegisterHook, SInv, STypes
<1>3. /\ hooks' = Append(hooks, d) /\ Len(hooks') = Len(hooks) + 1
      /\ hooks'[Len(hooks) + 1] = d
      /\ \A i \in 1..Len(hooks) : hooks'[i] = hooks[i]
  BY <1>1, <1>2 DEF RegisterHook
<1>4. cr \in {"idle", "wait", "returned"} /\ tracee = "none"
  BY <1>2 DEF SInv, Rendezvous
<1>5. main \notin {"declare", "error"}
  BY DEF AttestorRegister, SInv, Declaring
<1> QED
  BY <1>1, <1>2, <1>3, <1>4, <1>5
     DEF AttestorRegister, RegisterHook, checkAllFulfilled, Goto

\* All other steps leave the hooks as they are, but for ready channels.
LEMMA HooksStay ==
  ASSUME SInv, [Next]_vars, ~ DeclareHooks,
         \A a \in HookAttestor : ~ AttestorRegister(a)
  PROVE  /\ UNCHANGED <<declared, fulfilled, hooks, allFulfilled>>
         /\ ready \subseteq ready' /\ (ready' \subseteq fulfilled)
<1>1. CASE \E a \in HookAttestor : AttestorClose(a)
  BY <1>1 DEF AttestorClose, CloseReady, SInv, STypes
<1>2. CASE UNCHANGED hookVars
  BY <1>2 DEF hookVars, SInv, STypes
<1>3. CASE UNCHANGED vars
  BY <1>3, <1>2 DEF vars
<1>4. CASE Spawn \/ EndStage
  BY <1>4, <1>2 DEF Spawn, EndStage
<1>5. CASE CommandRun \/ CmdWaitFails
  BY <1>5, <1>2 DEF CommandRun, CmdWait, CmdTimeout, CmdFlags, CmdStart, CmdPreExec,
     CmdCallPreExec, CmdContinue, CmdReap, CmdWaitFails, CmdResume, CmdPreExit,
     CmdCallPreExit, CmdExitEvent
<1>6. CASE \E a \in HookAttestor : AttestorInit(a) \/ AttestorReturn(a)
  BY <1>6, <1>2 DEF AttestorInit, AttestorReturn
<1>7. CASE TraceeEnds \/ TraceeStops \/ Cancel
  BY <1>7, <1>2 DEF TraceeEnds, TraceeStops, Cancel
<1> QED
  BY <1>1, <1>3, <1>4, <1>5, <1>6, <1>7 DEF Next, RunAttestors, Attest

\* h.hooks stays the list of what was registered.
LEMMA RegisteredStep == SInv /\ [Next]_vars => Registered'
<1> SUFFICES ASSUME SInv, [Next]_vars PROVE Registered'
  OBVIOUS
<1>1. Registered /\ Len(hooks) \in Nat
  BY DEF SInv, STypes
<1>2. CASE DeclareHooks
  BY <1>1, <1>2, DeclareEffect DEF Registered
<1>3. ASSUME NEW a \in HookAttestor, AttestorRegister(a) PROVE Registered'
  <2>1. PICK d \in declared \ fulfilled :
          /\ Len(hooks') = Len(hooks) + 1
          /\ hooks'[Len(hooks) + 1] = d
          /\ \A i \in 1..Len(hooks) : hooks'[i] = hooks[i]
          /\ fulfilled' = fulfilled \cup {d} /\ declared' = declared
          /\ allFulfilled' = (allFulfilled \/ declared \subseteq fulfilled')
    BY <1>3, RegisterEffect
  <2>2. \A i \in 1..Len(hooks') : i \in 1..Len(hooks) \/ i = Len(hooks) + 1
    BY <1>1, <2>1
  <2>3. \A i \in 1..Len(hooks) : i \in 1..Len(hooks') /\ hooks[i] # d
    BY <1>1, <2>1 DEF Registered
  <2>4. \A i \in 1..Len(hooks') : hooks'[i] \in fulfilled'
    BY <1>1, <2>1, <2>2 DEF Registered
  <2>5. \A e \in fulfilled' : \E i \in 1..Len(hooks') : hooks'[i] = e
    <3>1. Len(hooks) + 1 \in 1..Len(hooks')
      BY <1>1, <2>1
    <3> QED
      BY <1>1, <2>1, <2>3, <3>1 DEF Registered
  <2>6. \A i, j \in 1..Len(hooks') : hooks'[i] = hooks'[j] => i = j
    BY <1>1, <2>1, <2>2, <2>3 DEF Registered
  <2>7. allFulfilled' => declared' \subseteq fulfilled'
    BY <1>1, <2>1 DEF Registered
  <2> QED
    BY <2>4, <2>5, <2>6, <2>7 DEF Registered
<1>4. CASE ~ DeclareHooks /\ \A a \in HookAttestor : ~ AttestorRegister(a)
  BY <1>1, <1>4, HooksStay DEF Registered
<1> QED
  BY <1>2, <1>3, <1>4

-----------------------------------------------------------------------------
(* The rendezvous, and where command-run and the process are               *)

\* Nothing runs until the hooks are declared.
LEMMA DeclaringStep == SInv /\ [Next]_vars => Declaring'
<1> SUFFICES ASSUME SInv, [Next]_vars PROVE Declaring'
  OBVIOUS
<1>1. Declaring /\ DOMAIN attestor = HookAttestor
  BY DEF SInv, STypes
<1>2. CASE DeclareHooks
  BY <1>1, <1>2, DeclareEffect DEF Declaring, crVars, traceeVars
<1>3. CASE Spawn \/ EndStage
  BY <1>1, <1>3 DEF Spawn, EndStage, Declaring
<1>4. ASSUME NEW a \in HookAttestor, Attest(a) PROVE Declaring'
  BY <1>1, <1>4 DEF Attest, AttestorInit, AttestorRegister, AttestorClose,
     AttestorReturn, Declaring
<1>5. CASE CommandRun \/ CmdWaitFails
  BY <1>1, <1>5 DEF Declaring, CommandRun, CmdWait, CmdTimeout, CmdFlags, CmdStart,
     CmdPreExec, CmdCallPreExec, CmdContinue, CmdReap, CmdWaitFails, CmdResume,
     CmdPreExit, CmdCallPreExit, CmdExitEvent
<1>6. CASE TraceeEnds \/ TraceeStops
  BY <1>1, <1>6 DEF TraceeEnds, TraceeStops, Declaring
<1>7. CASE Cancel \/ UNCHANGED vars
  BY <1>1, <1>7 DEF Cancel, vars, hookVars, crVars, traceeVars, Declaring
<1> QED
  BY <1>2, <1>3, <1>4, <1>5, <1>6, <1>7 DEF Next, RunAttestors

\* The positions of command-run and of the process go together.
LEMMA PositionsStep == SInv /\ [Next]_vars => Positions'
<1> SUFFICES ASSUME SInv, [Next]_vars PROVE Positions'
  OBVIOUS
<1>1. Positions /\ Declaring
  BY DEF SInv
<1>2. CASE UNCHANGED <<crVars, traceeVars>>
  BY <1>1, <1>2 DEF Positions, crVars, traceeVars
<1>3. CASE DeclareHooks \/ EndStage
  BY <1>2, <1>3 DEF DeclareHooks, EndStage
<1>4. CASE Spawn
  BY <1>1, <1>4 DEF Spawn, Positions, Declaring, traceeVars
<1>5. ASSUME NEW a \in HookAttestor, Attest(a) PROVE Positions'
  BY <1>2, <1>5 DEF Attest, AttestorInit, AttestorRegister, AttestorClose,
     AttestorReturn
<1>6. CASE CmdWait \/ CmdTimeout \/ CmdFlags \/ CmdPreExec \/ CmdCallPreExec
           \/ CmdWaitFails \/ CmdPreExit \/ CmdCallPreExit
  BY <1>1, <1>6 DEF CmdWait, CmdTimeout, CmdFlags, CmdPreExec, CmdCallPreExec,
     CmdWaitFails, CmdPreExit, CmdCallPreExit, Return, Positions, crVars, traceeVars
<1>7. CASE CmdStart \/ CmdContinue
  BY <1>1, <1>7 DEF CmdStart, CmdContinue, Return, Positions
<1>8. CASE CmdReap \/ CmdResume
  BY <1>1, <1>8 DEF CmdReap, CmdResume, Return, Positions
<1>9. CASE CmdExitEvent
  BY <1>1, <1>9 DEF CmdExitEvent, Return, Positions
<1>10. CASE TraceeEnds
  <2>1. outcome' # NoOutcome
    BY <1>10 DEF TraceeEnds, Exited, Signaled, NoOutcome
  <2> QED
    BY <1>1, <1>10, <2>1 DEF TraceeEnds, Positions, crVars
<1>11. CASE TraceeStops
  BY <1>1, <1>11 DEF TraceeStops, Positions, crVars
<1>12. CASE Cancel \/ UNCHANGED vars
  BY <1>2, <1>12 DEF Cancel, vars
<1> QED
  BY <1>3, <1>4, <1>5, <1>6, <1>7, <1>8, <1>9, <1>10, <1>11, <1>12
     DEF Next, RunAttestors, CommandRun

\* What command-run learns of the hooks stays true.
LEMMA RendezvousStep == SInv /\ [Next]_vars => Rendezvous'
<1> SUFFICES ASSUME SInv, [Next]_vars PROVE Rendezvous'
  OBVIOUS
<1>1. Rendezvous /\ Registered /\ Positions /\ Declaring
  BY DEF SInv
<1>2. CASE DeclareHooks
  BY <1>2, DeclareEffect DEF Rendezvous, crVars, traceeVars
<1>3. ASSUME NEW a \in HookAttestor, AttestorRegister(a) PROVE Rendezvous'
  BY <1>3, RegisterEffect DEF Rendezvous, crVars, traceeVars
<1>4. CASE ~ DeclareHooks /\ \A a \in HookAttestor : ~ AttestorRegister(a)
  <2>1. declared' = declared /\ fulfilled' = fulfilled
    BY <1>4, HooksStay
  <2>2. CASE UNCHANGED <<crVars, traceeVars>>
    BY <1>1, <2>1, <2>2 DEF Rendezvous, crVars, traceeVars
  <2>3. CASE CmdWait
    BY <1>1, <2>1, <2>3 DEF CmdWait, WaitIsOver, Rendezvous, Registered, Positions,
       traceeVars
  <2>4. CASE CmdFlags
    <3>1. ASSUME NEW d \in declared PROVE d[2] \in has'
      <4>1. d \in fulfilled /\ d[2] \in {PreExec, PreExit}
        BY <1>1, <2>4, <3>1 DEF CmdFlags, Rendezvous, SInv, STypes, Declaration
      <4>2. PICK i \in 1..Len(hooks) : hooks[i] = d
        BY <1>1, <4>1 DEF Registered
      <4>3. i \in DOMAIN hooks
        BY DEF SInv, STypes
      <4> QED
        BY <2>4, <4>1, <4>2, <4>3 DEF CmdFlags, HasHooks, StageHooks
    <3> QED
      BY <1>1, <2>1, <2>4, <3>1 DEF CmdFlags, Rendezvous
  <2>5. CASE Spawn \/ CmdTimeout
    BY <1>1, <2>1, <2>5 DEF Spawn, CmdTimeout, Return, Rendezvous, Positions, Declaring,
       traceeVars
  <2>6. CASE CmdStart \/ CmdPreExec \/ CmdCallPreExec \/ CmdContinue \/ CmdReap
             \/ CmdWaitFails \/ CmdResume \/ CmdPreExit \/ CmdCallPreExit
             \/ CmdExitEvent
    <3>1. /\ cr \notin {"idle", "wait", "flags", "returned"} /\ has' = has
      BY <2>6 DEF CmdStart, CmdPreExec, CmdCallPreExec, CmdContinue, CmdReap,
         CmdWaitFails, CmdResume, CmdPreExit, CmdCallPreExit, CmdExitEvent
    <3> QED
      BY <1>1, <2>1, <3>1 DEF Rendezvous
  <2>7. CASE TraceeEnds \/ TraceeStops
    BY <1>1, <2>1, <2>7 DEF TraceeEnds, TraceeStops, Rendezvous, crVars
  <2>8. CASE EndStage \/ Cancel \/ UNCHANGED vars
    BY <2>2, <2>8 DEF EndStage, Cancel, vars
  <2>9. ASSUME NEW a \in HookAttestor, Attest(a) PROVE Rendezvous'
    BY <2>2, <2>9 DEF Attest, AttestorInit, AttestorRegister, AttestorClose,
       AttestorReturn
  <2> QED
    BY <1>4, <2>3, <2>4, <2>5, <2>6, <2>7, <2>8, <2>9
       DEF Next, RunAttestors, CommandRun
<1> QED
  BY <1>2, <1>3, <1>4

\* A signal stop raises one signal, which the next step gives back.
LEMMA SignalsStep == SInv /\ [Next]_vars => Signals'
<1> SUFFICES ASSUME SInv, [Next]_vars PROVE Signals'
  OBVIOUS
<1>1. Signals /\ Positions
  BY DEF SInv
<1>2. CASE UNCHANGED <<tracee, owed, stopSignal>>
  BY <1>1, <1>2 DEF Signals
<1>3. CASE CmdStart \/ CmdContinue \/ CmdReap \/ CmdExitEvent
  BY <1>1, <1>3 DEF CmdStart, CmdContinue, CmdReap, CmdExitEvent, Signals, Positions
<1>4. CASE CmdResume
  <2>1. /\ stopSignal \in {"signal", "trap", "syscall"}
        /\ owed = IF stopSignal = "syscall" THEN 0 ELSE 1
    BY <1>1, <1>4 DEF CmdResume, Signals
  <2>2. CASE tracee' = "running"
    <3>1. owed' = IF InjectedSignal(stopSignal) = "none" THEN owed ELSE owed - 1
      BY <1>4, <2>2 DEF CmdResume
    <3>2. owed' = 0
      BY <2>1, <3>1 DEF InjectedSignal
    <3> QED
      BY <2>2, <3>2 DEF Signals
  <2>3. CASE tracee' # "running"
    BY <1>1, <1>2, <1>4, <2>3 DEF CmdResume, Signals
  <2> QED
    BY <2>2, <2>3
<1>5. CASE TraceeEnds \/ TraceeStops
  BY <1>1, <1>5 DEF TraceeEnds, TraceeStops, Signals
<1>6. CASE RunAttestors \/ Cancel \/ UNCHANGED vars
  BY <1>2, <1>6 DEF RunAttestors, DeclareHooks, Spawn, EndStage, Cancel, vars, traceeVars
<1>7. ASSUME NEW a \in HookAttestor, Attest(a) PROVE Signals'
  BY <1>2, <1>7 DEF Attest, AttestorInit, AttestorRegister, AttestorClose,
     AttestorReturn, traceeVars
<1>8. CASE CmdWait \/ CmdTimeout \/ CmdFlags \/ CmdPreExec \/ CmdCallPreExec
           \/ CmdWaitFails \/ CmdPreExit \/ CmdCallPreExit
  BY <1>2, <1>8 DEF CmdWait, CmdTimeout, CmdFlags, CmdPreExec, CmdCallPreExec,
     CmdWaitFails, CmdPreExit, CmdCallPreExit, traceeVars
<1> QED
  BY <1>3, <1>4, <1>5, <1>6, <1>7, <1>8 DEF Next, CommandRun

-----------------------------------------------------------------------------
(* The calls of the hooks                                                  *)

\* RunHooks calls a hook of its batch, which is ready and was not called.
LEMMA CallEffect ==
  ASSUME SInv, NEW s \in {PreExec, PreExit}, NEW i \in batch, CallHook(i),
         batch \subseteq Uncalled(s)
  PROVE  /\ hooks[i] \in Declaration /\ hooks[i][2] = s /\ hooks[i] \in ready
         /\ i \in 1..Len(hooks)
         /\ called[hooks[i]] = 0
         /\ \A d \in Declaration : called'[d] = IF d = hooks[i] THEN 1 ELSE called[d]
         /\ called' \in [Declaration -> {0, 1}]
<1>1. i \in 1..Len(hooks) /\ hooks[i][2] = s /\ called[hooks[i]] = 0
  BY DEF Uncalled
<1>2. hooks[i] \in Declaration
  BY <1>1 DEF SInv, STypes
<1>3. hooks[i] \in ready
  BY DEF CallHook
<1>4. called' = [called EXCEPT ![hooks[i]] = 1]
  BY <1>1 DEF CallHook, SInv, STypes
<1> QED
  BY <1>1, <1>2, <1>3, <1>4 DEF SInv, STypes

\* The calls only change in RunHooks.
LEMMA CallsStay ==
  ASSUME [Next]_vars, ~ CmdCallPreExec, ~ CmdCallPreExit
  PROVE  called' = called
<1>1. CASE CommandRun \/ CmdWaitFails
  BY <1>1 DEF CommandRun, CmdWait, CmdTimeout, CmdFlags, CmdStart, CmdPreExec,
     CmdContinue, CmdReap, CmdWaitFails, CmdResume, CmdPreExit, CmdExitEvent
<1>2. CASE RunAttestors \/ Cancel \/ TraceeEnds \/ TraceeStops \/ UNCHANGED vars
  BY <1>2 DEF RunAttestors, DeclareHooks, Spawn, EndStage, Cancel, TraceeEnds,
     TraceeStops, vars
<1>3. ASSUME NEW a \in HookAttestor, Attest(a) PROVE called' = called
  BY <1>3 DEF Attest, AttestorInit, AttestorRegister, AttestorClose, AttestorReturn
<1> QED
  BY <1>1, <1>2, <1>3 DEF Next

\* Ready channels are never opened again.
LEMMA ReadyGrows ==
  ASSUME SInv, [Next]_vars
  PROVE  ready \subseteq ready'
<1>1. CASE DeclareHooks
  BY <1>1, DeclareEffect
<1>2. CASE \E a \in HookAttestor : AttestorRegister(a)
  BY <1>2, RegisterEffect
<1>3. CASE ~ DeclareHooks /\ \A a \in HookAttestor : ~ AttestorRegister(a)
  BY <1>3, HooksStay
<1> QED
  BY <1>1, <1>2, <1>3

LEMMA STypesStep == SInv /\ [Next]_vars => STypes'
<1> SUFFICES ASSUME SInv, [Next]_vars PROVE STypes'
  OBVIOUS
<1>1. STypes /\ Positions /\ Batches /\ Signals
  BY DEF SInv
<1>2. /\ declared' \subseteq Declaration /\ fulfilled' \subseteq declared'
      /\ ready' \subseteq fulfilled' /\ hooks' \in Seq(Declaration)
  <2>1. CASE DeclareHooks
    BY <1>1, <2>1, DeclareEffect DEF STypes
  <2>2. CASE \E a \in HookAttestor : AttestorRegister(a)
    <3>1. PICK d \in declared \ fulfilled :
            /\ hooks' = Append(hooks, d) /\ fulfilled' = fulfilled \cup {d}
            /\ declared' = declared /\ ready' = ready
      BY <2>2, RegisterEffect
    <3> QED
      BY <1>1, <3>1 DEF STypes
  <2>3. CASE ~ DeclareHooks /\ \A a \in HookAttestor : ~ AttestorRegister(a)
    BY <1>1, <2>3, HooksStay DEF STypes
  <2> QED
    BY <2>1, <2>2, <2>3
<1>3. allFulfilled' \in BOOLEAN
  <2>1. CASE DeclareHooks
    BY <1>1, <2>1, DeclareEffect DEF STypes
  <2>2. CASE \E a \in HookAttestor : AttestorRegister(a)
    <3>1. PICK d : allFulfilled' = (allFulfilled \/ declared \subseteq fulfilled')
      BY <2>2, RegisterEffect
    <3> QED
      BY <3>1
  <2>3. CASE ~ DeclareHooks /\ \A a \in HookAttestor : ~ AttestorRegister(a)
    BY <1>1, <2>3, HooksStay DEF STypes
  <2> QED
    BY <2>1, <2>2, <2>3
<1>4. called' \in [Declaration -> {0, 1}]
  <2>1. CASE CmdCallPreExec
    BY <1>1, <2>1, CallEffect DEF CmdCallPreExec, Batches
  <2>2. CASE CmdCallPreExit
    BY <1>1, <2>2, CallEffect DEF CmdCallPreExit, Batches
  <2> QED
    BY <1>1, <2>1, <2>2, CallsStay DEF STypes
<1> DEFINE Rest == /\ main \in {"declare", "error", "wait", "done"}
                   /\ DOMAIN attestor = HookAttestor
                   /\ cr \in {"idle", "wait", "flags", "start", "stopped", "preexec",
                              "loop", "waitpid", "preexit", "reap", "returned"}
                   /\ tracee \in {"none", "execstop", "running", "sigstop",
                                  "exitstop", "held", "heldexit", "dead", "reaped"}
                   /\ owed \in Nat
<1>5. Rest'
  <2>1. Rest
    BY <1>1 DEF STypes
  <2>2. CASE RunAttestors
    BY <2>1, <2>2 DEF RunAttestors, DeclareHooks, Declare, Spawn, EndStage, crVars,
       traceeVars
  <2>3. ASSUME NEW a \in HookAttestor, Attest(a) PROVE Rest'
    BY <2>1, <2>3 DEF Attest, AttestorInit, AttestorRegister, AttestorClose,
       AttestorReturn, Goto, crVars, traceeVars
  <2>4. CASE CmdWait \/ CmdTimeout \/ CmdFlags \/ CmdPreExec \/ CmdCallPreExec
             \/ CmdWaitFails \/ CmdPreExit \/ CmdCallPreExit
    BY <2>1, <2>4 DEF CmdWait, CmdTimeout, CmdFlags, CmdPreExec, CmdCallPreExec,
       CmdWaitFails, CmdPreExit, CmdCallPreExit, Return, crVars, traceeVars
  <2>5. CASE CmdStart \/ CmdContinue \/ CmdReap
    BY <2>1, <2>5 DEF CmdStart, CmdContinue, CmdReap, Return
  <2>6. CASE CmdExitEvent
    BY <2>1, <2>6 DEF CmdExitEvent, Return
  <2>7. CASE CmdResume
    <3>1. owed' \in Nat
      <4>1. CASE InjectedSignal(stopSignal) = "none"
        BY <2>1, <2>7, <4>1 DEF CmdResume
      <4>2. CASE InjectedSignal(stopSignal) # "none"
        <5>1. owed = 1
          BY <1>1, <2>7, <4>2 DEF CmdResume, Signals, InjectedSignal
        <5>2. owed' = owed - 1 \/ owed' = owed
          BY <2>7, <4>2 DEF CmdResume
        <5> QED
          BY <5>1, <5>2
      <4> QED
        BY <4>1, <4>2
    <3> QED
      BY <2>1, <2>7, <3>1 DEF CmdResume, Return
  <2>8. CASE TraceeEnds \/ TraceeStops
    BY <2>1, <2>8 DEF TraceeEnds, TraceeStops, crVars
  <2>9. CASE Cancel \/ UNCHANGED vars
    BY <2>1, <2>9 DEF Cancel, vars, crVars, traceeVars
  <2> QED
    BY <2>2, <2>3, <2>4, <2>5, <2>6, <2>7, <2>8, <2>9 DEF Next, CommandRun
<1> QED
  BY <1>2, <1>3, <1>4, <1>5 DEF STypes

\* No hook is called early.
LEMMA CallsStep == SInv /\ [Next]_vars => Calls'
<1> SUFFICES ASSUME SInv, [Next]_vars PROVE Calls'
  OBVIOUS
<1>1. Calls /\ Positions /\ Batches /\ Declaring /\ ready \subseteq ready'
  BY ReadyGrows DEF SInv
<1>2. CASE CmdCallPreExec
  <2>1. PICK i \in batch : CallHook(i)
    BY <1>2 DEF CmdCallPreExec
  <2>2. /\ hooks[i][2] = PreExec /\ hooks[i] \in ready
        /\ \A d \in Declaration : called'[d] = IF d = hooks[i] THEN 1 ELSE called[d]
    BY <1>1, <1>2, <2>1, CallEffect DEF CmdCallPreExec, Batches
  <2>3. /\ tracee' = "execstop" /\ cr' \in {"preexec", "returned"}
        /\ tracee = "execstop"
    BY <1>1, <1>2 DEF CmdCallPreExec, Return, Positions, traceeVars
  <2> QED
    BY <1>1, <2>2, <2>3 DEF Calls, PreExec, PreExit
<1>3. CASE CmdCallPreExit
  <2>1. PICK i \in batch : CallHook(i)
    BY <1>3 DEF CmdCallPreExit
  <2>2. /\ hooks[i] \in ready
        /\ \A d \in Declaration : called'[d] = IF d = hooks[i] THEN 1 ELSE called[d]
    BY <1>1, <1>3, <2>1, CallEffect DEF CmdCallPreExit, Batches
  <2>3. tracee' = "exitstop" /\ tracee = "exitstop" /\ cr' = "preexit"
    BY <1>1, <1>3 DEF CmdCallPreExit, Positions, traceeVars
  <2> QED
    BY <1>1, <2>2, <2>3 DEF Calls
<1>4. CASE ~ CmdCallPreExec /\ ~ CmdCallPreExit
  <2>1. called' = called
    BY <1>4, CallsStay
  <2>2. CASE tracee' = tracee /\ (cr' = cr \/ cr' \notin {"stopped", "loop"})
    BY <1>1, <2>1, <2>2 DEF Calls
  <2>3. CASE RunAttestors
    BY <1>1, <2>2, <2>3 DEF RunAttestors, DeclareHooks, Spawn, EndStage, crVars,
       traceeVars
  <2>4. ASSUME NEW a \in HookAttestor, Attest(a) PROVE Calls'
    BY <2>2, <2>4 DEF Attest, AttestorInit, AttestorRegister, AttestorClose,
       AttestorReturn, crVars, traceeVars
  <2>5. CASE CmdWait \/ CmdTimeout \/ CmdFlags \/ CmdPreExec \/ CmdWaitFails
             \/ CmdPreExit
    BY <2>2, <2>5 DEF CmdWait, CmdTimeout, CmdFlags, CmdPreExec, CmdWaitFails,
       CmdPreExit, Return, traceeVars
  <2>6. CASE CmdStart \/ CmdContinue
    BY <1>1, <2>1, <2>6 DEF CmdStart, CmdContinue, Return, Calls, Positions
  <2>7. CASE CmdReap \/ CmdResume \/ CmdExitEvent
    BY <1>1, <2>1, <2>7 DEF CmdReap, CmdResume, CmdExitEvent, Return, Calls, Positions
  <2>8. CASE TraceeEnds \/ TraceeStops
    BY <1>1, <2>1, <2>8 DEF TraceeEnds, TraceeStops, Calls, crVars
  <2>9. CASE Cancel \/ UNCHANGED vars
    BY <2>2, <2>9 DEF Cancel, vars, crVars, traceeVars
  <2> QED
    BY <1>4, <2>3, <2>4, <2>5, <2>6, <2>7, <2>8, <2>9 DEF Next, CommandRun
<1> QED
  BY <1>2, <1>3, <1>4

\* The hooks that are left to call are those of the stage not called yet.
LEMMA BatchesStep == SInv /\ [Next]_vars => Batches'
<1> SUFFICES ASSUME SInv, [Next]_vars PROVE Batches'
  OBVIOUS
<1>1. Calls /\ Positions /\ Batches /\ Declaring /\ Registered /\ Rendezvous
  BY DEF SInv
<1>2. CASE cr' \notin {"preexec", "preexit"}
  BY <1>2 DEF Batches
<1>3. CASE DeclareHooks
  BY <1>2, <1>3, DeclareEffect DEF crVars
<1>4. ASSUME NEW a \in HookAttestor, AttestorRegister(a) PROVE Batches'
  BY <1>2, <1>4, RegisterEffect DEF crVars
<1>5. CASE CmdPreExec
  <2>1. /\ batch' = (IF PreExec \in has THEN StageHooks(PreExec) ELSE {})
        /\ cr = "stopped" /\ cr' = "preexec" /\ hooks' = hooks /\ called' = called
    BY <1>5 DEF CmdPreExec, hookVars
  <2>2. \A d \in declared : d[2] \in has
    BY <1>1, <2>1 DEF Rendezvous
  <2>3. \A i \in 1..Len(hooks) : hooks[i] \in declared /\ called[hooks[i]] = 0
    BY <1>1, <2>1 DEF Registered, Calls, SInv, STypes
  <2>4. DOMAIN hooks = 1..Len(hooks)
    BY DEF SInv, STypes
  <2>5. batch' = {i \in 1..Len(hooks) : hooks[i][2] = PreExec}
    BY <2>1, <2>2, <2>3, <2>4 DEF StageHooks
  <2> QED
    BY <2>1, <2>3, <2>5 DEF Batches, Uncalled
<1>6. CASE CmdPreExit
  <2>1. /\ batch' \subseteq StageHooks(PreExit)
        /\ cr = "loop" /\ tracee = "exitstop" /\ cr' = "preexit" /\ hooks' = hooks
        /\ called' = called
    BY <1>6 DEF CmdPreExit, hookVars
  <2>2. \A i \in 1..Len(hooks) : hooks[i][2] = PreExit => called[hooks[i]] = 0
    BY <1>1, <2>1 DEF Calls, SInv, STypes
  <2>3. DOMAIN hooks = 1..Len(hooks)
    BY DEF SInv, STypes
  <2> QED
    BY <2>1, <2>2, <2>3 DEF Batches, Uncalled, StageHooks
<1>7. CASE CmdCallPreExec
  <2>1. PICK i \in batch : /\ CallHook(i)
                           /\ cr' = "preexec" => batch' = batch \ {i}
    BY <1>7 DEF CmdCallPreExec, Return
  <2>2. /\ batch = Uncalled(PreExec) /\ hooks' = hooks
        /\ cr' \in {"preexec", "returned"}
    BY <1>1, <1>7 DEF CmdCallPreExec, Return, Batches, hookVars
  <2>3. /\ i \in 1..Len(hooks)
        /\ \A d \in Declaration : called'[d] = IF d = hooks[i] THEN 1 ELSE called[d]
    BY <2>1, <2>2, CallEffect
  <2>4. \A j \in 1..Len(hooks) : called'[hooks[j]] = IF j = i THEN 1 ELSE called[hooks[j]]
    BY <1>1, <2>3 DEF Registered, SInv, STypes
  <2> QED
    BY <2>1, <2>2, <2>4 DEF Batches, Uncalled
<1>8. CASE CmdCallPreExit
  <2>1. PICK i \in batch : CallHook(i) /\ batch' \subseteq batch \ {i}
    BY <1>8 DEF CmdCallPreExit
  <2>2. /\ batch \subseteq Uncalled(PreExit) /\ hooks' = hooks /\ cr' = "preexit"
    BY <1>1, <1>8 DEF CmdCallPreExit, Batches, hookVars
  <2>3. /\ i \in 1..Len(hooks)
        /\ \A d \in Declaration : called'[d] = IF d = hooks[i] THEN 1 ELSE called[d]
    BY <2>1, <2>2, CallEffect
  <2>4. \A j \in 1..Len(hooks) : called'[hooks[j]] = IF j = i THEN 1 ELSE called[hooks[j]]
    BY <1>1, <2>3 DEF Registered, SInv, STypes
  <2> QED
    BY <2>1, <2>2, <2>4 DEF Batches, Uncalled
<1>9. CASE CmdWait \/ CmdTimeout \/ CmdFlags \/ CmdStart \/ CmdContinue \/ CmdReap
           \/ CmdWaitFails \/ CmdResume \/ CmdExitEvent
  <2>1. CASE cr' = cr /\ cr \notin {"preexec", "preexit"}
    BY <1>2, <2>1
  <2>2. CASE CmdContinue /\ cr' = "preexec"
    BY <2>2 DEF CmdContinue, Return
  <2> QED
    BY <1>2, <1>9, <2>1, <2>2 DEF CmdWait, CmdTimeout, CmdFlags, CmdStart, CmdContinue,
       CmdReap, CmdWaitFails, CmdResume, CmdExitEvent, Return
<1>10. CASE UNCHANGED <<crVars, hooks, called>>
  BY <1>1, <1>10 DEF Batches, Uncalled, crVars
<1>11. CASE Spawn
  BY <1>2, <1>11 DEF Spawn
<1>12. CASE EndStage \/ Cancel \/ TraceeEnds \/ TraceeStops \/ UNCHANGED vars
  BY <1>10, <1>12 DEF EndStage, Cancel, TraceeEnds, TraceeStops, vars, hookVars
<1>13. ASSUME NEW a \in HookAttestor,
              AttestorInit(a) \/ AttestorClose(a) \/ AttestorReturn(a)
       PROVE  Batches'
  BY <1>10, <1>13 DEF AttestorInit, AttestorClose, CloseReady, AttestorReturn, hookVars
<1> QED
  BY <1>3, <1>4, <1>5, <1>6, <1>7, <1>8, <1>9, <1>11, <1>12, <1>13
     DEF Next, RunAttestors, CommandRun, Attest

\* The process is let go when no PreExec hook is left to call.
LEMMA UserCodeStep == SInv /\ [Next]_vars => NoUserCodeBeforePreExec'
<1> SUFFICES ASSUME SInv, [Next]_vars, tracee' \notin {"none", "execstop"},
                    NEW d \in declared', d[2] = PreExec
             PROVE  called'[d] = 1
  BY DEF NoUserCodeBeforePreExec, UserCodeRan
<1>1. /\ STypes /\ Calls /\ Positions /\ Batches /\ Registered /\ Rendezvous
      /\ NoUserCodeBeforePreExec
  BY DEF SInv
<1>2. declared' = declared
  <2>1. ~ DeclareHooks
    BY DeclareEffect DEF traceeVars
  <2>2. CASE \E a \in HookAttestor : AttestorRegister(a)
    BY <2>2, RegisterEffect
  <2> QED
    BY <2>1, <2>2, HooksStay
<1>3. d \in Declaration
  BY <1>1, <1>2 DEF STypes
<1>4. CASE tracee \notin {"none", "execstop"}
  <2>1. called[d] = 1
    BY <1>1, <1>2, <1>4 DEF NoUserCodeBeforePreExec, UserCodeRan
  <2>2. ~ CmdCallPreExec
    BY <1>1, <1>4 DEF CmdCallPreExec, Positions
  <2>3. CASE CmdCallPreExit
    BY <1>1, <1>3, <2>1, <2>3, CallEffect DEF CmdCallPreExit, Batches
  <2> QED
    BY <2>1, <2>2, <2>3, CallsStay
<1>5. CASE tracee \in {"none", "execstop"}
  <2>1. CmdStart \/ CmdContinue \/ CmdReap \/ CmdResume \/ CmdExitEvent
    <3>1. tracee' # tracee
      BY <1>5
    <3>2. ~ TraceeEnds /\ ~ TraceeStops
      BY <1>5 DEF TraceeEnds, TraceeStops
    <3>3. \A a \in HookAttestor : ~ Attest(a)
      BY <3>1 DEF Attest, AttestorInit, AttestorRegister, AttestorClose,
         AttestorReturn, traceeVars
    <3>4. ~ RunAttestors /\ ~ Cancel /\ ~ UNCHANGED vars
      BY <3>1 DEF RunAttestors, DeclareHooks, Spawn, EndStage, Cancel, vars, traceeVars
    <3> QED
      BY <3>1, <3>2, <3>3, <3>4 DEF Next, CommandRun, CmdWait, CmdTimeout, CmdFlags,
         CmdPreExec, CmdCallPreExec, CmdWaitFails, CmdPreExit, CmdCallPreExit, traceeVars
  <2>2. CASE CmdStart
    <3>1. ~ Traced /\ cr = "start"
      BY <1>5, <2>2 DEF CmdStart
    <3>2. d[2] \in has
      BY <1>1, <1>2, <3>1 DEF Rendezvous
    <3> QED
      BY <3>1, <3>2 DEF Traced
  <2>3. CASE CmdContinue
    <3>1. cr = "preexec" /\ batch = {} /\ called' = called
      BY <2>3 DEF CmdContinue
    <3>2. d \in fulfilled
      BY <1>1, <1>2, <3>1 DEF Rendezvous
    <3>3. PICK i \in 1..Len(hooks) : hooks[i] = d
      BY <1>1, <3>2 DEF Registered
    <3>4. called[d] # 0
      BY <1>1, <3>1, <3>3 DEF Batches, Uncalled
    <3> QED
      BY <1>1, <1>3, <3>1, <3>4 DEF STypes
  <2>4. CASE CmdReap \/ CmdResume \/ CmdExitEvent
    BY <1>1, <1>5, <2>4 DEF CmdReap, CmdResume, CmdExitEvent, Positions
  <2> QED
    BY <2>1, <2>2, <2>3, <2>4
<1> QED
  BY <1>4, <1>5

-----------------------------------------------------------------------------

\* The invariant of the execute stage.
THEOREM StageInvariant == Spec => []SInv
<1>1. SInv /\ [Next]_vars => SInv'
  BY STypesStep, RegisteredStep, DeclaringStep, PositionsStep, RendezvousStep,
     CallsStep, BatchesStep, UserCodeStep, SignalsStep DEF SInv
<1> QED
  BY StageInitially, <1>1, PTL DEF Spec

\* With any number of attestors with hooks, whatever they do and whatever
\* fails, the process runs no user code before every PreExec hook was called.
THEOREM PreExecComesFirst == Spec => []NoUserCodeBeforePreExec
<1>1. SInv => NoUserCodeBeforePreExec
  BY DEF SInv
<1> QED
  BY <1>1, StageInvariant, PTL

\* Every hook is called at most once, when it is ready, and PreExit hooks only
\* at the end of the process and after all PreExec hooks.
THEOREM HooksFollowTheProtocol == Spec => []HookProtocol
<1>1. ASSUME SInv PROVE HookProtocol
  <2> SUFFICES ASSUME NEW d \in Declaration
               PROVE  /\ called[d] <= 1
                      /\ called[d] > 0 => d \in ready
                      /\ called[d] > 0 /\ d[2] = PreExit =>
                           /\ outcome # NoOutcome
                           /\ \A e \in declared : e[2] = PreExec => called[e] = 1
    BY DEF HookProtocol
  <2>1. called[d] = 0 \/ called[d] = 1
    BY <1>1 DEF SInv, STypes
  <2>2. called[d] = 1 => d \in ready
    BY <1>1 DEF SInv, Calls
  <2>3. called[d] = 1 /\ d[2] = PreExit =>
          tracee \in {"exitstop", "heldexit", "dead", "reaped"}
    BY <1>1 DEF SInv, Calls
  <2>4. tracee \in {"exitstop", "heldexit", "dead", "reaped"} =>
          /\ outcome # NoOutcome
          /\ \A e \in declared : e[2] = PreExec => called[e] = 1
    BY <1>1 DEF SInv, Positions, NoUserCodeBeforePreExec, UserCodeRan
  <2> QED
    BY <2>1, <2>2, <2>3, <2>4
<1> QED
  BY <1>1, StageInvariant, PTL

\* However often the process stops at signals, breakpoint traps and system
\* calls, it never runs on without a signal it stopped at.
THEOREM EverySignalIsGivenBack == Spec => []SignalsAreGivenBack
<1>1. SInv => SignalsAreGivenBack
  BY DEF SInv, Signals, SignalsAreGivenBack
<1> QED
  BY <1>1, StageInvariant, PTL
=============================================================================
