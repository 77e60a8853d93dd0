----------------------------- MODULE ExecuteHooks -----------------------------
(***************************************************************************)
(* attestation/execute_hooks.go: the rendezvous between command-run, which *)
(* starts a process, and the attestors that want to be called back at      *)
(* points of its life.  An attestor declares its hooks before any attestor *)
(* of the stage runs, registers them from its own goroutine, and closes    *)
(* the returned ready channel when it can be called.  Every operator is    *)
(* one critical section of h.mu.                                           *)
(***************************************************************************)
EXTENDS Naturals, Sequences, SequencesExt

CONSTANT HookAttestor  \* names of the attestors that use hooks

PreExec == "PreExec"
PreExit == "PreExit"

\* ExecuteHookDeclaration
Declaration == HookAttestor \X {PreExec, PreExit}

VARIABLES declared,      \* the keys of declarationToFulfilled
          fulfilled,     \* those mapped to true
          hooks,         \* h.hooks, in order of registration
          ready,         \* the hooks whose ready channel is closed
          allFulfilled   \* the channel allFulfilled is closed

hookVars == <<declared, fulfilled, hooks, ready, allFulfilled>>

HooksInit ==
  /\ declared = {}
  /\ fulfilled = {}
  /\ hooks = <<>>
  /\ ready = {}
  /\ allFulfilled = FALSE

\* Declare of every hook in ds; only possible while none of them is declared.
Declare(ds) ==
  /\ ds \cap declared = {}
  /\ declared' = declared \cup ds
  /\ UNCHANGED <<fulfilled, hooks, ready, allFulfilled>>

checkAllFulfilled(done) == declared \subseteq done

\* Mutant of RegisterHook: the check comes before the hook is marked.
RegisterHookChecksFirst(d) ==
  /\ d \in declared \ fulfilled
  /\ hooks' = Append(hooks, d)
  /\ fulfilled' = fulfilled \cup {d}
  /\ allFulfilled' = (allFulfilled \/ checkAllFulfilled(fulfilled))
  /\ UNCHANGED <<declared, ready>>

\* RegisterHook, on a declared hook that was not registered yet.
RegisterHook(d) ==
  /\ d \in declared \ fulfilled
  /\ hooks' = Append(hooks, d)
  /\ fulfilled' = fulfilled \cup {d}
  /\ allFulfilled' = (allFulfilled \/ checkAllFulfilled(fulfilled'))
  /\ UNCHANGED <<declared, ready>>

\* The caller of RegisterHook closes the channel it was given.
CloseReady(d) ==
  /\ d \in fulfilled \ ready
  /\ ready' = ready \cup {d}
  /\ UNCHANGED <<declared, fulfilled, hooks, allFulfilled>>

\* Mutant of WaitIsOver: one registration ends the wait.
WaitIsOverAtFirst == declared = {} \/ fulfilled # {}

\* WaitForDeclaredHooks returns nil.
WaitIsOver == declared = {} \/ allFulfilled

\* The snapshot RunHooks takes, by position in h.hooks, which only grows; and
\* HasHooks.
StageHooks(s) == {i \in DOMAIN hooks : hooks[i][2] = s}
HasHooks(s) == StageHooks(s) # {}
=============================================================================
