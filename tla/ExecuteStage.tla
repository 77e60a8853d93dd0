----------------------------- MODULE ExecuteStage -----------------------------
(***************************************************************************)
(* The execute stage of a run on Linux: the goroutine of command-run       *)
(* (attestation/commandrun), the goroutines of the attestors with hooks    *)
(* (attestation/networktrace), the process command-run starts and the      *)
(* kernel that traces it, all meeting in ExecuteHooks.  The process's      *)
(* children are left out: the hooks and the exit code are about the one    *)
(* process command-run starts.                                             *)
(***************************************************************************)
EXTENDS ExecuteHooks, Integers

CONSTANTS Setup,      \* the stages a run may be given
          Code,       \* exit codes of the process
          Signal,     \* the signal that may kill it
          MaxSignals  \* how many other signals it may get

ASSUME CodeAssumption == Code \subseteq 0..255 /\ Signal \in 1..64

\* What the environment may do wrong.
Fault == {"init", "slow", "start", "hook", "ptrace", "sigkill", "cancel",
          "eventmsg", "output"}

\* declarers: the attestors with hooks in ctx.attestors order, by name;
\* stages: which hooks each declares; tracing: enableTracing of command-run;
\* command: whether the stage has a command-run attestor at all; faults: what
\* the environment may do wrong in this run.
ASSUME SetupAssumption ==
  Setup \subseteq [declarers : Seq(HookAttestor),
                   stages    : [HookAttestor -> SUBSET {PreExec, PreExit}],
                   tracing   : BOOLEAN,
                   command   : BOOLEAN,
                   faults    : SUBSET Fault]

VARIABLES setup,      \* the stage of this run; never changes
          main,       \* where RunAttestors is in the stage
          next,       \* next declarer to ask
          attestor,   \* where the goroutine of each attestor with hooks is
          called,     \* how often each hook was called
          cr,         \* where command-run is
          has,        \* hasPreExec and hasPreExit
          batch,      \* the hooks RunHooks has still to call, by position
          exitCode,   \* rc.ExitCode
          failed,     \* command-run returned an error
          tracee,     \* the process, as the kernel sees it
          traceexit,  \* PTRACE_O_TRACEEXIT is set and ptrace attached
          outcome,    \* how the process ended
          stopSignal, \* the signal a signal stop reports
          owed,       \* signals raised and not yet delivered
          raised,     \* how many were raised
          cancelled   \* ctx.Context() is done

crVars == <<cr, has, batch, exitCode, failed>>
traceeVars == <<tracee, traceexit, outcome, stopSignal, owed, raised>>
vars == <<hookVars, setup, main, next, attestor, called, crVars, traceeVars,
          cancelled>>

-----------------------------------------------------------------------------

NoOutcome == [kind |-> "none", n |-> 0]
Exited(c) == [kind |-> "exited", n |-> c]
Signaled(s) == [kind |-> "signaled", n |-> s]

Init ==
  /\ HooksInit
  /\ setup \in Setup
  /\ main = "declare"
  /\ next = 1
  /\ attestor = [a \in HookAttestor |-> "idle"]
  /\ called = [d \in Declaration |-> 0]
  /\ cr = "idle"
  /\ has = {}
  /\ batch = {}
  /\ exitCode = 0
  /\ failed = FALSE
  /\ tracee = "none"
  /\ traceexit = FALSE
  /\ outcome = NoOutcome
  /\ stopSignal = "none"
  /\ owed = 0
  /\ raised = 0
  /\ cancelled = FALSE

-----------------------------------------------------------------------------
(* RunAttestors, the execute stage                                         *)

Hooks(a) == {d \in Declaration : d[1] = a /\ d[2] \in setup.stages[a]}

\* DeclareHooks of the next attestor; a name declared before is an error.
DeclareHooks ==
  /\ main = "declare"
  /\ next <= Len(setup.declarers)
  /\ LET a == setup.declarers[next]
     IN  \/ Declare(Hooks(a)) /\ UNCHANGED main
         \/ /\ Hooks(a) \cap declared # {}
            /\ main' = "error"
            /\ UNCHANGED hookVars
  /\ next' = next + 1
  /\ UNCHANGED <<setup, attestor, called, crVars, traceeVars, cancelled>>

\* All hooks are declared: every attestor of the stage gets its goroutine.
Spawn ==
  /\ main = "declare"
  /\ next > Len(setup.declarers)
  /\ main' = "wait"
  /\ attestor' = [a \in HookAttestor |->
       IF a \in ToSet(setup.declarers) THEN "init" ELSE "returned"]
  /\ cr' = IF setup.command THEN "wait" ELSE "returned"
  /\ UNCHANGED <<hookVars, setup, next, called, has, batch, exitCode, failed,
                 traceeVars, cancelled>>

\* wg.Wait returns.
EndStage ==
  /\ main = "wait"
  /\ cr = "returned"
  /\ \A a \in HookAttestor : attestor[a] = "returned"
  /\ main' = "done"
  /\ UNCHANGED <<hookVars, setup, next, attestor, called, crVars, traceeVars,
                 cancelled>>

-----------------------------------------------------------------------------
(* An attestor with hooks: networktrace.Attest                             *)

Goto(a, l) == attestor' = [attestor EXCEPT ![a] = l]

\* initBPF and initProxies.
AttestorInit(a) ==
  /\ attestor[a] = "init"
  /\ \/ Goto(a, "register")
     \/ "init" \in setup.faults /\ Goto(a, "returned")
  /\ UNCHANGED <<hookVars, setup, main, next, called, crVars, traceeVars,
                 cancelled>>

\* The hooks a has not registered, PreExec first.
Unregistered(a, d) ==
  /\ d \in Hooks(a) \ fulfilled
  /\ d[2] = PreExit => <<a, PreExec>> \notin Hooks(a) \ fulfilled

\* registerHooks: RegisterHook, then close of the ready channel.
AttestorRegister(a) ==
  /\ attestor[a] = "register"
  /\ \E d \in Declaration : Unregistered(a, d) /\ RegisterHook(d)
  /\ Goto(a, "close")
  /\ UNCHANGED <<setup, main, next, called, crVars, traceeVars, cancelled>>

AttestorClose(a) ==
  /\ attestor[a] = "close"
  /\ \E d \in Hooks(a) : CloseReady(d)
  /\ Goto(a, IF Hooks(a) \subseteq fulfilled THEN "shutdown" ELSE "register")
  /\ UNCHANGED <<setup, main, next, called, crVars, traceeVars, cancelled>>

\* The last hook of a was called: its function closes shutdownSignal.
ShutdownSignal(a) ==
  \/ called[<<a, PreExit>>] > 0
  \/ PreExit \notin setup.stages[a] /\ called[<<a, PreExec>>] > 0

\* waitAndCleanup.
AttestorReturn(a) ==
  /\ attestor[a] = "shutdown"
  /\ ShutdownSignal(a) \/ cancelled
  /\ Goto(a, "returned")
  /\ UNCHANGED <<hookVars, setup, main, next, called, crVars, traceeVars,
                 cancelled>>

-----------------------------------------------------------------------------
(* command-run: runCmd and, on Linux, runTrace                             *)

Return(err) == cr' = "returned" /\ failed' = err

Traced == setup.tracing \/ has # {}
HooksOnly == ~ setup.tracing

\* WaitForDeclaredHooks returns nil.
CmdWait ==
  /\ cr = "wait"
  /\ WaitIsOver
  /\ cr' = "flags"
  /\ UNCHANGED <<hookVars, setup, main, next, attestor, called, has, batch,
                 exitCode, failed, traceeVars, cancelled>>

\* Mutant of CmdTimeout: the timer covers the first registration only.
CmdTimeoutOnFirst ==
  /\ cr = "wait"
  /\ declared # {}
  /\ fulfilled = {}
  /\ "slow" \in setup.faults \/ \E d \in declared : attestor[d[1]] = "returned"
  /\ Return(TRUE)
  /\ UNCHANGED <<hookVars, setup, main, next, attestor, called, has, batch,
                 exitCode, traceeVars, cancelled>>

\* ... or times out after 30 seconds, which is long enough for an attestor
\* that is not slow: one that is not waited for in vain has registered.
CmdTimeout ==
  /\ cr = "wait"
  /\ declared # {}
  /\ "slow" \in setup.faults \/ \E d \in declared \ fulfilled : attestor[d[1]] = "returned"
  /\ Return(TRUE)
  /\ UNCHANGED <<hookVars, setup, main, next, attestor, called, has, batch,
                 exitCode, traceeVars, cancelled>>

\* hasPreExec and hasPreExit, computed once.
CmdFlags ==
  /\ cr = "flags"
  /\ has' = {s \in {PreExec, PreExit} : HasHooks(s)}
  /\ cr' = "start"
  /\ UNCHANGED <<hookVars, setup, main, next, attestor, called, batch, exitCode,
                 failed, traceeVars, cancelled>>

\* c.Start; a traced process stops at its exec.
CmdStart ==
  /\ cr = "start"
  /\ \/ /\ cr' = IF Traced THEN "stopped" ELSE "waitpid"
        /\ tracee' = IF Traced THEN "execstop" ELSE "running"
        /\ UNCHANGED failed
     \/ "start" \in setup.faults /\ Return(TRUE) /\ UNCHANGED tracee
  /\ UNCHANGED <<hookVars, setup, main, next, attestor, called, has, batch,
                 exitCode, traceexit, outcome, stopSignal, owed, raised,
                 cancelled>>

\* runTrace after the first Wait4: RunHooks(StagePreExec) takes its snapshot.
CmdPreExec ==
  /\ cr = "stopped"
  /\ tracee = "execstop"
  /\ batch' = IF PreExec \in has THEN StageHooks(PreExec) ELSE {}
  /\ cr' = "preexec"
  /\ UNCHANGED <<hookVars, setup, main, next, attestor, called, has, exitCode,
                 failed, traceeVars, cancelled>>

\* Mutant of CallHook: readiness is not awaited.
CallHookUnready(i) ==
  /\ \A j \in batch : i <= j
  /\ called' = [called EXCEPT ![hooks[i]] = @ + 1]

\* RunHooks: once all hooks of the batch are ready, call the next one.
CallHook(i) ==
  /\ \A j \in batch : i <= j /\ hooks[j] \in ready
  /\ called' = [called EXCEPT ![hooks[i]] = @ + 1]

\* A PreExec hook that fails ends the run with the process still stopped.
CmdCallPreExec ==
  /\ cr = "preexec"
  /\ \E i \in batch :
       /\ CallHook(i)
       /\ \/ batch' = batch \ {i} /\ UNCHANGED <<cr, failed>>
          \/ "hook" \in setup.faults /\ batch' = {} /\ Return(TRUE)
  /\ UNCHANGED <<hookVars, setup, main, next, attestor, has, exitCode,
                 traceeVars, cancelled>>

\* Let the process run: detached when only PreExec was asked for, otherwise
\* with PTRACE_O_TRACEEXIT, whose calls may fail.
CmdContinue ==
  /\ cr = "preexec"
  /\ batch = {}
  /\ \/ /\ tracee' = "running"
        /\ traceexit' = (setup.tracing \/ PreExit \in has)
        /\ cr' = IF traceexit' THEN "loop" ELSE "waitpid"
        /\ UNCHANGED failed
     \/ "ptrace" \in setup.faults /\ Return(TRUE) /\ UNCHANGED <<tracee, traceexit>>
  /\ UNCHANGED <<hookVars, setup, main, next, attestor, called, has, batch,
                 exitCode, outcome, stopSignal, owed, raised, cancelled>>

\* The exit code of a process that is gone: runTrace decodes the status of
\* Wait4, an untraced command has the ExitCode() of c.Wait's error.
StatusCode(o) == CASE o.kind = "exited" -> o.n
                   [] o.kind = "signaled" /\ Traced -> 128 + o.n
                   [] OTHER -> -1

\* The process is reaped: in the loop, after a detach, or by c.Wait, which
\* may also fail to copy the output of a command that succeeded.
CmdReap ==
  /\ cr \in {"loop", "waitpid"}
  /\ tracee = "dead"
  /\ exitCode' = StatusCode(outcome)
  /\ \/ Return(exitCode' # 0)
     \/ "output" \in setup.faults /\ ~ Traced /\ Return(TRUE)
  /\ tracee' = "reaped"
  /\ UNCHANGED <<hookVars, setup, main, next, attestor, called, has, batch,
                 traceexit, outcome, stopSignal, owed, raised, cancelled>>

\* Wait4 itself fails; nothing is reaped.  After the exit event that is only
\* logged.
CmdWaitFails ==
  /\ "ptrace" \in setup.faults
  /\ Traced
  /\ \/ cr \in {"stopped", "loop", "waitpid"} /\ Return(TRUE)
     \/ cr = "reap" /\ Return(exitCode # 0)
  /\ UNCHANGED <<hookVars, setup, main, next, attestor, called, has, batch,
                 exitCode, traceeVars, cancelled>>

\* Mutant of InjectedSignal: a breakpoint trap is not given back.
InjectNoTrap(sig) == IF sig \in {"syscall", "trap"} THEN "none" ELSE sig

\* The signal to inject at a stop: none for a trap of ptrace itself.
InjectedSignal(sig) == IF sig = "syscall" THEN "none" ELSE sig

\* A signal stop, or a syscall stop of full tracing: continue with the signal.
\* When that fails, waitForExitOnly gives up.  Full tracing only logs it and
\* goes back to Wait4, which has nothing more to report of this stop: the
\* process is held.
CmdResume ==
  /\ cr = "loop"
  /\ tracee = "sigstop"
  /\ \/ /\ owed' = IF InjectedSignal(stopSignal) = "none" THEN owed ELSE owed - 1
        /\ stopSignal' = "none"
        /\ tracee' = "running"
        /\ UNCHANGED <<cr, failed>>
     \/ /\ "ptrace" \in setup.faults
        /\ IF HooksOnly THEN Return(TRUE) /\ UNCHANGED tracee
                        ELSE tracee' = "held" /\ UNCHANGED <<cr, failed>>
        /\ UNCHANGED <<owed, stopSignal>>
  /\ UNCHANGED <<hookVars, setup, main, next, attestor, called, has, batch,
                 exitCode, traceexit, outcome, raised, cancelled>>

\* PTRACE_EVENT_EXIT: RunHooks(StagePreExit) takes its snapshot.
CmdPreExit ==
  /\ cr = "loop"
  /\ tracee = "exitstop"
  /\ batch' = IF PreExit \in has THEN StageHooks(PreExit) ELSE {}
  /\ cr' = "preexit"
  /\ UNCHANGED <<hookVars, setup, main, next, attestor, called, has, exitCode,
                 failed, traceeVars, cancelled>>

\* A PreExit hook that fails is logged; the hooks after it are not called.
CmdCallPreExit ==
  /\ cr = "preexit"
  /\ \E i \in batch :
       /\ CallHook(i)
       /\ \/ batch' = batch \ {i}
          \/ "hook" \in setup.faults /\ batch' = {}
  /\ UNCHANGED <<hookVars, setup, main, next, attestor, cr, has, exitCode,
                 failed, traceeVars, cancelled>>

\* PtraceGetEventMsg: the status the process will have, in wait(2)'s encoding.
EventMsg(o) == IF o.kind = "exited" THEN o.n * 256 ELSE o.n

\* The exit code waitForExitOnly takes from the message.
EventCode(msg) == msg \div 256

\* After the hooks.  Full tracing resumes the process and goes on waiting for
\* it.  waitForExitOnly reads the exit code from the event message, resumes,
\* reaps without looking at the status, and returns.  Both only log it when the
\* process cannot be resumed, and wait for it nevertheless.
CmdExitEvent ==
  /\ cr = "preexit"
  /\ batch = {}
  /\ IF HooksOnly
       THEN /\ exitCode' \in {EventCode(EventMsg(outcome))}
                 \cup (IF "eventmsg" \in setup.faults THEN {exitCode} ELSE {})
            /\ \/ Return(exitCode' # 0) /\ tracee' = "reaped"
               \/ /\ "ptrace" \in setup.faults
                  /\ cr' = "reap"
                  /\ tracee' = "heldexit"
                  /\ UNCHANGED failed
       ELSE /\ cr' = "loop"
            /\ \/ tracee' = "dead"
               \/ "ptrace" \in setup.faults /\ tracee' = "heldexit"
            /\ UNCHANGED <<exitCode, failed>>
  /\ UNCHANGED <<hookVars, setup, main, next, attestor, called, has, batch,
                 traceexit, outcome, stopSignal, owed, raised, cancelled>>

-----------------------------------------------------------------------------
(* The environment: the process, the kernel and the caller's context       *)

\* The process ends by itself or by a signal; with PTRACE_O_TRACEEXIT it stops
\* first, except that SIGKILL may take it without that stop.
TraceeEnds ==
  /\ tracee = "running"
  /\ \E o \in {Exited(c) : c \in Code} \cup {Signaled(Signal)} :
       /\ outcome' = o
       /\ \/ tracee' = IF traceexit THEN "exitstop" ELSE "dead"
          \/ /\ "sigkill" \in setup.faults
             /\ o.kind = "signaled"
             /\ tracee' = "dead"
  /\ UNCHANGED <<hookVars, setup, main, next, attestor, called, crVars,
                 traceexit, stopSignal, owed, raised, cancelled>>

\* A traced process stops at a signal (a breakpoint trap is one) or, in full
\* tracing, at a system call.
TraceeStops ==
  /\ tracee = "running"
  /\ traceexit
  /\ raised < MaxSignals
  /\ raised' = raised + 1
  /\ stopSignal' \in {"signal", "trap"}
                       \cup (IF setup.tracing THEN {"syscall"} ELSE {})
  /\ owed' = IF stopSignal' = "syscall" THEN owed ELSE owed + 1
  /\ tracee' = "sigstop"
  /\ UNCHANGED <<hookVars, setup, main, next, attestor, called, crVars,
                 traceexit, outcome, cancelled>>

Cancel ==
  /\ "cancel" \in setup.faults
  /\ ~ cancelled
  /\ cancelled' = TRUE
  /\ UNCHANGED <<hookVars, setup, main, next, attestor, called, crVars,
                 traceeVars>>

-----------------------------------------------------------------------------

CommandRun ==
  \/ CmdWait \/ CmdTimeout \/ CmdFlags \/ CmdStart \/ CmdPreExec
  \/ CmdCallPreExec \/ CmdContinue \/ CmdReap \/ CmdResume
  \/ CmdPreExit \/ CmdCallPreExit \/ CmdExitEvent

Attest(a) ==
  \/ AttestorInit(a) \/ AttestorRegister(a) \/ AttestorClose(a)
  \/ AttestorReturn(a)

RunAttestors == DeclareHooks \/ Spawn \/ EndStage

Next ==
  \/ RunAttestors
  \/ \E a \in HookAttestor : Attest(a)
  \/ CommandRun \/ CmdWaitFails
  \/ TraceeEnds \/ TraceeStops
  \/ Cancel

\* Goroutines are scheduled, timers fire, and the process, once it runs, ends.
\* Nothing makes the caller cancel, and nothing makes a Wait4 fail.
Fairness ==
  /\ WF_vars(RunAttestors)
  /\ \A a \in HookAttestor : WF_vars(Attest(a))
  /\ WF_vars(CommandRun)
  /\ WF_vars(TraceeEnds)

Spec == Init /\ [][Next]_vars /\ Fairness

-----------------------------------------------------------------------------
(* Properties                                                              *)

UserCodeRan == tracee \notin {"none", "execstop"}

\* execute_hooks.go, StagePreExec: "The process is frozen and no user code has
\* run yet".  Once the process has run at all, every PreExec hook declared in
\* this stage has been called, whichever way registration, the timeout and the
\* start of the process interleaved.
NoUserCodeBeforePreExec ==
  UserCodeRan => \A d \in declared : d[2] = PreExec => called[d] = 1

\* The life of a hook: it is called at most once (close(shutdownSignal) in a
\* second call would panic), only after its attestor closed the ready channel,
\* and a PreExit hook only when the process is ending, after every PreExec hook.
HookProtocol ==
  \A d \in Declaration :
    /\ called[d] <= 1
    /\ called[d] > 0 => d \in ready
    /\ called[d] > 0 /\ d[2] = PreExit =>
         /\ outcome # NoOutcome
         /\ \A e \in declared : e[2] = PreExec => called[e] = 1

\* Signals are given back: whenever the process runs, every signal it stopped
\* at was injected (a breakpoint trap too), and no trap of ptrace was.
SignalsAreGivenBack == tracee = "running" => owed = 0

\* command-run returns in spite of attestors that never register, hooks that
\* fail and a process that is killed.  One thing keeps it for ever: a stopped
\* process that the kernel refused to resume, which tracing_linux.go:203-205 and
\* 263-266 only log before waiting for it again.
CommandRunReturns ==
  <>(cr = "returned" \/ main = "error") \/ <>[](tracee \in {"held", "heldexit"})

\* Without faults the whole stage ends, every attestor with hooks included.
StageTerminates ==
  setup.faults = {} /\ setup.command ~> main \in {"done", "error"}

\* networktrace.go:248, on the hooks: "Cleanup is still done irrespective of
\* the process exiting": network-trace returns even when the process does not
\* exit, because it could not be started.
CleanupIrrespectiveOfExit ==
  [](main = "wait" => <>(\A a \in HookAttestor : attestor[a] = "returned"))
=============================================================================
