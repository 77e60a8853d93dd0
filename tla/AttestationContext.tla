------------------------- MODULE AttestationContext -------------------------
(***************************************************************************)
(* attestation/context.go: RunAttestors groups the attestors of a run by   *)
(* their run type and runs the groups one after the other, the attestors   *)
(* of a group in one goroutine each.  The goroutines share the context:    *)
(* the list of completed attestors and the maps of materials and products, *)
(* each written under the mutex but in critical sections of its own.       *)
(*                                                                         *)
(* An attestor is its index in ctx.attestors.  A digest is abstracted to   *)
(* the attestor that recorded it, so that materials[p] = a reads "the      *)
(* digest of p is the one a observed" and materials[p] = None "p is not in *)
(* the map".  Attest itself is external: it takes one copy of the context  *)
(* at any time while it runs, and returns nil or an error.  (Each getter   *)
(* copies under RLock; the properties speak of each copy by itself.)       *)
(***************************************************************************)
EXTENDS Naturals, Sequences

CONSTANTS N,             \* len(ctx.attestors)
          Path,          \* the paths materials and products are keyed by
          Configuration  \* the lists of attestors a run may be given

Attestor == 1..N
None == 0

PreMaterial == "prematerial"
Material    == "material"
Execute     == "execute"
Product     == "product"
PostProduct == "postproduct"
Verify      == "verify"
Unset       == ""
Other       == "other"   \* a non-empty run type that no order contains

RunType == {PreMaterial, Material, Execute, Product, PostProduct, Verify,
            Unset, Other}

ASSUME NAssumption == N \in Nat

\* What the code asks of an attestor: its run type, whether it implements
\* ExecuteHookDeclarer, and what Materials() and Products() will return.
ASSUME ConfigurationAssumption ==
  Configuration \subseteq [runType   : [Attestor -> RunType],
                           declarers : SUBSET Attestor,
                           materials : [Attestor -> SUBSET Path],
                           products  : [Attestor -> SUBSET Path]]

VARIABLES config,     \* the attestors of this run; never changes
          main,       \* where RunAttestors is
          order,      \* the run types to go through
          stage,      \* index of the current run type in order, 0 before it
          routine,    \* where each attestor's goroutine is
          completed,  \* ctx.completedAttestors
          materials,  \* ctx.materials
          products,   \* ctx.products
          seen        \* what Attest read of the context

vars == <<config, main, order, stage, routine, completed, materials, products,
          seen>>

-----------------------------------------------------------------------------

runTypeOrder == <<PreMaterial, Material, Execute, Product, PostProduct>>
verifyTypeOrder == <<Verify>>

Of(k) == {a \in Attestor : config.runType[a] = k}

\* The attestors of the i-th run type of the order.
StageOf(i) == Of(order[i])

Unread == [materials |-> [p \in Path |-> None], completed |-> <<>>]

Completed(a, err) == [attestor |-> a, error |-> err]

Init ==
  /\ config \in Configuration
  /\ main = "group"
  /\ order = <<>>
  /\ stage = 0
  /\ routine = [a \in Attestor |-> "idle"]
  /\ completed = <<>>
  /\ materials = [p \in Path |-> None]
  /\ products = [p \in Path |-> None]
  /\ seen = [a \in Attestor |-> Unread]

-----------------------------------------------------------------------------
(* RunAttestors                                                            *)

\* attestors[Verify] != nil && len(attestors) > 1
VerifyIsMixed ==
  /\ Of(Verify) # {}
  /\ \E a \in Attestor : config.runType[a] # Verify

\* Group the attestors by run type and choose the order.
Group ==
  /\ main = "group"
  /\ IF Of(Unset) # {} \/ VerifyIsMixed
       THEN main' = "error" /\ UNCHANGED order
       ELSE /\ main' = "stage"
            /\ order' = IF Of(Verify) # {} THEN verifyTypeOrder
                                           ELSE runTypeOrder
  /\ UNCHANGED <<config, stage, routine, completed, materials, products, seen>>

\* The hook phase of a stage: outside the execute stage a declarer is an
\* error; in it every declarer declares its hooks, which may fail.
HookPhase(k, failed) ==
  IF k = Execute
    THEN failed \in {FALSE} \cup {Of(k) \cap config.declarers # {}}
    ELSE failed = (Of(k) \cap config.declarers # {})

\* Begin the next run type: hook phase, then one goroutine per attestor.
StartStage ==
  /\ main = "stage"
  /\ stage < Len(order)
  /\ stage' = stage + 1
  /\ \E failed \in BOOLEAN :
       /\ HookPhase(order[stage'], failed)
       /\ IF failed
            THEN main' = "error" /\ UNCHANGED routine
            ELSE /\ main' = "wait"
                 /\ routine' = [a \in Attestor |->
                      IF a \in Of(order[stage']) THEN "spawned" ELSE routine[a]]
  /\ UNCHANGED <<config, order, completed, materials, products, seen>>

\* wg.Wait returns once every goroutine waited for is in one of the states.
WaitReturns(waited, states) ==
  /\ main = "wait"
  /\ \A a \in waited : routine[a] \in states
  /\ main' = "stage"

\* Mutants of EndStage: the stage is advanced a second time; there is no wait;
\* Done is called as soon as the attestor is recorded; one wait group counts
\* the attestors of every run type.
EndStageAdvances ==
  /\ WaitReturns(StageOf(stage), {"done"})
  /\ stage' = stage + 1
  /\ UNCHANGED <<config, order, routine, completed, materials, products, seen>>

EndStageWithoutWait ==
  /\ WaitReturns({}, {})
  /\ UNCHANGED <<config, order, stage, routine, completed, materials, products,
                 seen>>

EndStageWhenRecorded ==
  /\ WaitReturns(StageOf(stage), {"materials", "products", "done"})
  /\ UNCHANGED <<config, order, stage, routine, completed, materials, products,
                 seen>>

EndStageWaitsForAll ==
  /\ WaitReturns(Attestor, {"done"})
  /\ UNCHANGED <<config, order, stage, routine, completed, materials, products,
                 seen>>

\* wg.Wait returns: the goroutines of the stage are done.
EndStage ==
  /\ WaitReturns(StageOf(stage), {"done"})
  /\ UNCHANGED <<config, order, stage, routine, completed, materials, products,
                 seen>>

\* Mutant of ReturnNil: the loop stops before the last run type.
ReturnNilEarly ==
  /\ main = "stage"
  /\ stage + 1 = Len(order)
  /\ main' = "nil"
  /\ UNCHANGED <<config, order, stage, routine, completed, materials, products,
                 seen>>

\* The last run type is done: RunAttestors returns nil.
ReturnNil ==
  /\ main = "stage"
  /\ stage = Len(order)
  /\ main' = "nil"
  /\ UNCHANGED <<config, order, stage, routine, completed, materials, products,
                 seen>>

-----------------------------------------------------------------------------
(* runAttestor, in the goroutine of attestor a                             *)

\* Attest reads the context through its getters, which copy under RLock.
Read(a) ==
  /\ routine[a] = "spawned"
  /\ routine' = [routine EXCEPT ![a] = "attesting"]
  /\ seen' = [seen EXCEPT ![a] =
                [materials |-> materials, completed |-> completed]]
  /\ UNCHANGED <<config, main, order, stage, completed, materials, products>>

\* Attest returns an error: the attestor is recorded with it and that is all.
Fail(a) ==
  /\ routine[a] = "attesting"
  /\ completed' = Append(completed, Completed(a, TRUE))
  /\ routine' = [routine EXCEPT ![a] = "done"]
  /\ UNCHANGED <<config, main, order, stage, materials, products, seen>>

\* Mutant of Succeed: the list is copied before Attest and written back.
SucceedOnStaleList(a) ==
  /\ routine[a] = "attesting"
  /\ completed' = Append(seen[a].completed, Completed(a, FALSE))
  /\ routine' = [routine EXCEPT ![a] = "materials"]
  /\ UNCHANGED <<config, main, order, stage, materials, products, seen>>

\* Attest returns nil: first critical section.
Succeed(a) ==
  /\ routine[a] = "attesting"
  /\ completed' = Append(completed, Completed(a, FALSE))
  /\ routine' = [routine EXCEPT ![a] = "materials"]
  /\ UNCHANGED <<config, main, order, stage, materials, products, seen>>

\* Mutant of AddMaterials: a path that is in the map keeps its digest.
AddMissingMaterials(a) ==
  /\ routine[a] = "materials"
  /\ materials' = [p \in Path |->
       IF p \in config.materials[a] /\ materials[p] = None THEN a ELSE materials[p]]
  /\ routine' = [routine EXCEPT ![a] = "products"]
  /\ UNCHANGED <<config, main, order, stage, completed, products, seen>>

\* Second critical section, of a Materialer; the others offer no path.
AddMaterials(a) ==
  /\ routine[a] = "materials"
  /\ materials' = [p \in Path |->
                     IF p \in config.materials[a] THEN a ELSE materials[p]]
  /\ routine' = [routine EXCEPT ![a] = "products"]
  /\ UNCHANGED <<config, main, order, stage, completed, products, seen>>

\* Third critical section, of a Producer; the others offer no path.
AddProducts(a) ==
  /\ routine[a] = "products"
  /\ products' = [p \in Path |->
                    IF p \in config.products[a] THEN a ELSE products[p]]
  /\ routine' = [routine EXCEPT ![a] = "done"]
  /\ UNCHANGED <<config, main, order, stage, completed, materials, seen>>

runAttestor(a) ==
  Read(a) \/ Fail(a) \/ Succeed(a) \/ AddMaterials(a) \/ AddProducts(a)

RunAttestors == Group \/ StartStage \/ EndStage \/ ReturnNil

Next == RunAttestors \/ \E a \in Attestor : runAttestor(a)

\* The Go scheduler runs every goroutine, and every Attest returns.
Fairness ==
  /\ WF_vars(RunAttestors)
  /\ \A a \in Attestor : WF_vars(runAttestor(a))

Spec == Init /\ [][Next]_vars /\ Fairness

-----------------------------------------------------------------------------
(* Properties                                                              *)

\* The type invariant: materials and products name attestors of the run, and
\* completed is a list of outcomes.
TypeOK ==
  /\ config \in Configuration
  /\ main \in {"group", "stage", "wait", "nil", "error"}
  /\ order \in {<<>>, runTypeOrder, verifyTypeOrder}
  /\ stage \in 0..Len(order)
  /\ routine \in [Attestor -> {"idle", "spawned", "attesting", "materials",
                               "products", "done"}]
  /\ completed \in Seq([attestor : Attestor, error : BOOLEAN])
  /\ materials \in [Path -> Attestor \cup {None}]
  /\ products \in [Path -> Attestor \cup {None}]
  /\ seen \in [Attestor ->
                 [materials : [Path -> Attestor \cup {None}],
                  completed : Seq([attestor : Attestor, error : BOOLEAN])]]

Entries(log) == {log[i] : i \in DOMAIN log}

\* a is in the list, with that outcome.
Succeeded(log, a) == Completed(a, FALSE) \in Entries(log)
Failed(log, a) == Completed(a, TRUE) \in Entries(log)

Before(a, b) ==
  \E i, j \in DOMAIN order :
    i < j /\ config.runType[a] = order[i] /\ config.runType[b] = order[j]

\* The wait group is a barrier between run types (context.go, wg.Wait before
\* the next k): nothing of a run type is recorded while an earlier run type
\* still has a goroutine that is not done, and each attestor is recorded once.
StagesAreOrdered ==
  \A i, j \in DOMAIN completed :
    i < j => /\ completed[i].attestor # completed[j].attestor
             /\ ~ Before(completed[j].attestor, completed[i].attestor)

\* What Attest reads is complete with respect to earlier run types: every
\* attestor of an earlier type is in the list it saw, and the materials it saw
\* hold, for every path that a successful one offered, a digest, although the
\* list and the map are written in different critical sections.
SeesEarlierStages ==
  \A b \in Attestor : routine[b] \notin {"idle", "spawned"} =>
    \A a \in Attestor : Before(a, b) =>
      \/ Failed(seen[b].completed, a)
      \/ /\ Succeeded(seen[b].completed, a)
         /\ \A p \in config.materials[a] :
              /\ seen[b].materials[p] # None
              /\ ~ Before(seen[b].materials[p], a)

\* The maps keep the digests of the latest run type that observed the path,
\* whatever the order of the goroutines: an attestor whose digests were
\* published and that is not the one a path is charged to was overwritten by
\* one that is not of an earlier type.
LatestStageWins ==
  \A a \in Attestor :
    /\ Succeeded(completed, a) /\ routine[a] \in {"products", "done"} =>
         \A p \in config.materials[a] :
           materials[p] # None /\ ~ Before(materials[p], a)
    /\ Succeeded(completed, a) /\ routine[a] = "done" =>
         \A p \in config.products[a] :
           products[p] # None /\ ~ Before(products[p], a)

\* Only successful attestors publish: whoever a path is charged to is in the
\* list without an error, so that the early return of a failed attestor keeps
\* its observations out of both maps.
OnlySuccessfulPublish ==
  \A p \in Path :
    /\ materials[p] # None => Succeeded(completed, materials[p])
    /\ products[p] # None => Succeeded(completed, products[p])

\* RunAttestors returns nil only after every attestor whose run type is in the
\* order has been recorded; after an error exactly the run types before the
\* failing one have been (nothing of the failing stage has started).
ReturnAccountsForAll ==
  /\ main = "nil" =>
       \A a \in Attestor : (config.runType[a] # Other) =>
         Succeeded(completed, a) \/ Failed(completed, a)
  /\ main = "error" =>
       \A a \in Attestor :
         (Succeeded(completed, a) \/ Failed(completed, a))
           <=> (\E i \in DOMAIN order : i < stage /\ config.runType[a] = order[i])

\* A verify attestor never runs in the context of another type of attestor
\* (context.go, "cannot be run in conjunction with other attestor types").
VerifyRunsAlone ==
  \A a, b \in Attestor :
    routine[a] # "idle" /\ config.runType[a] = Verify
      => config.runType[b] = Verify

\* What is recorded stays recorded: the list only grows, and a path is never
\* given back to an attestor of an earlier run type.
NoLostUpdate ==
  [][ /\ Entries(completed) \subseteq Entries(completed')
      /\ \A p \in Path : materials[p] # None =>
           materials'[p] # None /\ ~ Before(materials'[p], materials[p]) ]_vars
=============================================================================
