--------------------------- MODULE WitnessRunProofs ---------------------------
(***************************************************************************)
(* Proofs about RunAttestors (AttestationContext) and about run()          *)
(* (WitnessRun), for every number of attestors, every set of paths, every  *)
(* mix of run types and export interfaces and every order of goroutines.   *)
(*                                                                         *)
(* Of the context: what was recorded when.  What makes it inductive is how *)
(* far each goroutine can be for the stage RunAttestors is in.             *)
(*                                                                         *)
(* Of run(): what it returns speaks for the attestors that succeeded, in   *)
(* the order of completion, accounts for each of them in exactly one place *)
(* when there is no error, and its collection agrees with the context it   *)
(* was made in.  The two loops of run() go through the completed list from *)
(* its start, so what they have made is a function of the part behind the  *)
(* cursor.                                                                 *)
(***************************************************************************)
EXTENDS WitnessRun, FiniteSetTheorems, TLAPS

-----------------------------------------------------------------------------
(* The context: RunAttestors                                               *)


Past == {"materials", "products", "done"}

Recorded(a) == \E i \in DOMAIN completed : completed[i].attestor = a

\* The order is chosen once, and matches the grouping of the attestors.
OrderInv ==
  /\ main = "group" => order = <<>>
  /\ main \in {"stage", "wait", "nil"} => order # <<>>
  /\ main = "wait" => stage > 0
  /\ main = "nil" => stage = Len(order)
  /\ order # <<>> =>
       /\ Of(Unset) = {}
       /\ ~ VerifyIsMixed
       /\ order = IF Of(Verify) # {} THEN verifyTypeOrder ELSE runTypeOrder

\* Whoever has started is of a run type the loop has reached; whoever is busy
\* is of the current one, and RunAttestors waits.
StartedInv ==
  \A a \in Attestor : routine[a] # "idle" =>
    \E i \in 1..stage : order[i] = config.runType[a]

BusyInv ==
  \A a \in Attestor : routine[a] \notin {"idle", "done"} =>
    main = "wait" /\ order[stage] = config.runType[a]

\* The run types behind the loop are done, and a failed one has not started.
BehindInv ==
  \A a \in Attestor : \A i \in 1..stage :
    config.runType[a] = order[i] =>
      /\ i < stage \/ main \in {"stage", "nil"} => routine[a] = "done"
      /\ i = stage /\ main = "error" => routine[a] = "idle"

\* The list records exactly those past Attest, and who publishes succeeded.
RecordInv ==
  /\ \A a \in Attestor : Recorded(a) <=> routine[a] \in Past
  /\ \A a \in Attestor :
       routine[a] \in {"materials", "products"} => Succeeded(completed, a)

\* The digests in the maps are of attestors that have written them.
WriteInv ==
  \A p \in Path :
    /\ materials[p] # None =>
         /\ routine[materials[p]] \in {"products", "done"}
         /\ Succeeded(completed, materials[p])
    /\ products[p] # None =>
         /\ routine[products[p]] = "done"
         /\ Succeeded(completed, products[p])

ProgressInv == OrderInv /\ StartedInv /\ BusyInv /\ BehindInv /\ RecordInv

Inv == TypeOK /\ ProgressInv /\ StagesAreOrdered /\ WriteInv /\ LatestStageWins
       /\ SeesEarlierStages

-----------------------------------------------------------------------------
(* The order and the type invariant                                        *)

\* An order lists run types, each once.
LEMMA OrderFacts ==
  ASSUME order \in {<<>>, runTypeOrder, verifyTypeOrder}
  PROVE  /\ order \in Seq(RunType)
         /\ DOMAIN order = 1..Len(order)
         /\ Len(order) \in Nat
         /\ \A i, j \in 1..Len(order) : order[i] = order[j] => i = j
<1>1. CASE order = <<>>
  BY <1>1
<1>2. CASE order = verifyTypeOrder
  BY <1>2 DEF verifyTypeOrder, RunType
<1>3. CASE order = runTypeOrder
  <2>1. /\ order \in Seq(RunType)
        /\ Len(order) = 5
    BY <1>3 DEF runTypeOrder, RunType
  <2>2. \A i, j \in 1..5 : order[i] = order[j] => i = j
    BY <1>3 DEF runTypeOrder, PreMaterial, Material, Execute, Product, PostProduct
  <2> QED
    BY <2>1, <2>2
<1> QED
  BY <1>1, <1>2, <1>3

Ungrouped == main = "group" => order = <<>>

\* A step keeps the types, given that no order is chosen before the grouping.
LEMMA TypeStep == TypeOK /\ Ungrouped /\ [Next]_vars => TypeOK' /\ Ungrouped'
<1> SUFFICES ASSUME TypeOK, Ungrouped, [Next]_vars
             PROVE  TypeOK' /\ Ungrouped'
  OBVIOUS
<1> USE DEF TypeOK, Ungrouped
<1>0. /\ Len(order) \in Nat
      /\ Len(<<>>) = 0 /\ Len(runTypeOrder) = 5 /\ Len(verifyTypeOrder) = 1
  BY OrderFacts DEF runTypeOrder, verifyTypeOrder
<1>1. CASE Group
  <2>1. stage = 0 /\ order = <<>>
    BY <1>0, <1>1 DEF Group
  <2>2. /\ main' \in {"stage", "error"}
        /\ order' \in {<<>>, runTypeOrder, verifyTypeOrder}
    BY <1>1, <2>1 DEF Group
  <2>3. stage' \in 0..Len(order')
    BY <1>0, <1>1, <2>1, <2>2 DEF Group
  <2> QED
    BY <1>1, <2>2, <2>3 DEF Group
<1>2. CASE StartStage
  <2>1. stage' \in 0..Len(order') /\ order' = order
    BY <1>0, <1>2 DEF StartStage
  <2>2. /\ main' \in {"wait", "error"}
        /\ routine' \in [Attestor -> {"idle", "spawned", "attesting",
                                      "materials", "products", "done"}]
    BY <1>2 DEF StartStage
  <2> QED
    BY <1>2, <2>1, <2>2 DEF StartStage
<1>3. CASE EndStage
  BY <1>3 DEF EndStage, WaitReturns
<1>4. CASE ReturnNil
  BY <1>4 DEF ReturnNil
<1>5. ASSUME NEW a \in Attestor, Read(a)
      PROVE  TypeOK' /\ Ungrouped'
  BY <1>5 DEF Read
<1>6. ASSUME NEW a \in Attestor, Fail(a)
      PROVE  TypeOK' /\ Ungrouped'
  BY <1>6 DEF Fail, Completed
<1>7. ASSUME NEW a \in Attestor, Succeed(a)
      PROVE  TypeOK' /\ Ungrouped'
  BY <1>7 DEF Succeed, Completed
<1>8. ASSUME NEW a \in Attestor, AddMaterials(a)
      PROVE  TypeOK' /\ Ungrouped'
  BY <1>8 DEF AddMaterials
<1>9. ASSUME NEW a \in Attestor, AddProducts(a)
      PROVE  TypeOK' /\ Ungrouped'
  BY <1>9 DEF AddProducts
<1>10. CASE UNCHANGED vars
  BY <1>10 DEF vars
<1> QED
  BY <1>1, <1>2, <1>3, <1>4, <1>5, <1>6, <1>7, <1>8, <1>9, <1>10
     DEF Next, RunAttestors, runAttestor

\* The type invariant of context.go's state holds throughout: in particular the
\* maps name attestors of the run, and the loop stays within its order.
THEOREM TypeCorrect == Spec => []TypeOK
<1>1. Init => TypeOK /\ Ungrouped
  BY ConfigurationAssumption DEF Init, TypeOK, Ungrouped, Unread, None
<1> QED
  BY <1>1, TypeStep, PTL DEF Spec

-----------------------------------------------------------------------------
(* How far the goroutines can be                                           *)

\* What appending to the list does to the facts the invariants are about.
LEMMA AppendFacts ==
  ASSUME TypeOK, NEW a \in Attestor, NEW e \in BOOLEAN,
         completed' = Append(completed, Completed(a, e))
  PROVE  /\ Len(completed) \in Nat
         /\ DOMAIN completed = 1..Len(completed)
         /\ DOMAIN completed' = 1..(Len(completed) + 1)
         /\ \A i \in 1..Len(completed) : completed'[i] = completed[i]
         /\ completed'[Len(completed) + 1] = Completed(a, e)
         /\ Entries(completed') = Entries(completed) \cup {Completed(a, e)}
         /\ \A b : Recorded(b)' <=> (Recorded(b) \/ b = a)
<1>1. completed \in Seq([attestor : Attestor, error : BOOLEAN])
  BY DEF TypeOK
<1>2. Completed(a, e) \in [attestor : Attestor, error : BOOLEAN]
      /\ Completed(a, e).attestor = a
  BY DEF Completed
<1>3. /\ Len(completed) \in Nat
      /\ DOMAIN completed = 1..Len(completed)
      /\ DOMAIN completed' = 1..(Len(completed) + 1)
      /\ \A i \in 1..Len(completed) : completed'[i] = completed[i]
      /\ completed'[Len(completed) + 1] = Completed(a, e)
  BY <1>1, <1>2
<1>4. Entries(completed') = Entries(completed) \cup {Completed(a, e)}
  BY <1>3 DEF Entries
<1>5. \A b : Recorded(b)' <=> (Recorded(b) \/ b = a)
  BY <1>2, <1>3 DEF Recorded
<1> QED
  BY <1>3, <1>4, <1>5

\* A busy attestor is of the current run type and of no other.
LEMMA BusyFacts ==
  ASSUME TypeOK, ProgressInv, NEW a \in Attestor,
         routine[a] \notin {"idle", "done"}
  PROVE  /\ main = "wait"
         /\ stage \in 1..Len(order)
         /\ config.runType[a] = order[stage]
         /\ \A i \in 1..Len(order) : config.runType[a] = order[i] => i = stage
<1>1. /\ main = "wait" /\ config.runType[a] = order[stage]
      /\ stage \in 1..Len(order)
  BY OrderFacts DEF ProgressInv, BusyInv, OrderInv, TypeOK
<1> QED
  BY <1>1, OrderFacts DEF TypeOK

\* A goroutine that moves within the stage and does not touch the list.
LEMMA ProgressWithin ==
  ASSUME TypeOK, ProgressInv, NEW a \in Attestor,
         NEW s \in {"attesting", "materials", "products", "done"},
         routine[a] \in {"spawned", "attesting", "materials", "products"},
         routine' = [routine EXCEPT ![a] = s],
         UNCHANGED <<config, main, order, stage>>
  PROVE  (OrderInv /\ StartedInv /\ BusyInv /\ BehindInv)'
<1>0. /\ main = "wait"
      /\ stage \in 1..Len(order)
      /\ config.runType[a] = order[stage]
      /\ \A i \in 1..Len(order) : config.runType[a] = order[i] => i = stage
  BY BusyFacts
<1>r. /\ routine \in [Attestor -> {"idle", "spawned", "attesting", "materials",
                                   "products", "done"}]
      /\ routine'[a] = s
      /\ \A b \in Attestor : b # a => routine'[b] = routine[b]
  BY DEF TypeOK
<1>1. OrderInv'
  BY DEF ProgressInv, OrderInv, VerifyIsMixed, Of
<1>2. StartedInv'
  BY <1>0, <1>r DEF ProgressInv, StartedInv
<1>3. BusyInv'
  BY <1>0, <1>r DEF ProgressInv, BusyInv
<1>4. BehindInv'
  BY <1>0, <1>r DEF ProgressInv, BehindInv, TypeOK
<1> QED
  BY <1>1, <1>2, <1>3, <1>4

\* A goroutine that records itself: Fail or Succeed.
LEMMA RecordStep ==
  ASSUME TypeOK, ProgressInv, NEW a \in Attestor, NEW e \in BOOLEAN, NEW s \in Past,
         routine[a] = "attesting",
         routine' = [routine EXCEPT ![a] = s],
         completed' = Append(completed, Completed(a, e)),
         ~ e \/ s = "done"
  PROVE  RecordInv'
<1>1. /\ \A b : Recorded(b)' <=> (Recorded(b) \/ b = a)
      /\ Entries(completed') = Entries(completed) \cup {Completed(a, e)}
  BY AppendFacts
<1>2. /\ routine'[a] = s
      /\ \A b \in Attestor : b # a => routine'[b] = routine[b]
  BY DEF TypeOK
<1>3. \A b \in Attestor : Recorded(b)' <=> routine'[b] \in Past
  BY <1>1, <1>2 DEF ProgressInv, RecordInv
<1>4. ASSUME NEW b \in Attestor, routine'[b] \in {"materials", "products"}
      PROVE  Succeeded(completed', b)
  <2>1. CASE b = a
    BY <1>1, <1>2, <1>4, <2>1 DEF Succeeded
  <2>2. CASE b # a
    BY <1>1, <1>2, <1>4, <2>2 DEF Succeeded, ProgressInv, RecordInv
  <2> QED
    BY <2>1, <2>2
<1> QED
  BY <1>3, <1>4 DEF RecordInv, Succeeded, Entries

\* A goroutine that moves after it has recorded itself.
LEMMA RecordKept ==
  ASSUME TypeOK, ProgressInv, NEW a \in Attestor, NEW s,
         routine' = [routine EXCEPT ![a] = s],
         (routine[a] \in Past) <=> (s \in Past),
         s \in {"materials", "products"} => routine[a] \in {"materials", "products"},
         UNCHANGED completed
  PROVE  RecordInv'
<1>1. /\ routine'[a] = s
      /\ \A b \in Attestor : b # a => routine'[b] = routine[b]
  BY DEF TypeOK
<1> QED
  BY <1>1 DEF ProgressInv, RecordInv, Recorded, Succeeded, Entries

\* A step keeps what the loop of RunAttestors and its goroutines know of each
\* other: one case per action.
LEMMA ProgressStep == TypeOK /\ ProgressInv /\ [Next]_vars => ProgressInv'
<1> SUFFICES ASSUME TypeOK, ProgressInv, [Next]_vars
             PROVE  ProgressInv'
  OBVIOUS
<1>0. /\ order \in Seq(RunType) /\ Len(order) \in Nat /\ stage \in 0..Len(order)
      /\ \A i, j \in 1..Len(order) : order[i] = order[j] => i = j
      /\ \A a \in Attestor : routine[a] \in {"idle", "spawned", "attesting",
                                             "materials", "products", "done"}
  BY OrderFacts DEF TypeOK
<1>1. CASE Group
  <2>1. /\ order = <<>> /\ stage = 0
        /\ \A a \in Attestor : routine[a] = "idle" /\ routine'[a] = "idle"
    BY <1>0, <1>1 DEF Group, ProgressInv, OrderInv, StartedInv
  <2>2. main' \in {"stage", "error"} /\ stage' = 0 /\ UNCHANGED config
    BY <1>1, <2>1 DEF Group
  <2>3. OrderInv'
    <3>1. runTypeOrder # <<>> /\ verifyTypeOrder # <<>>
      BY DEF runTypeOrder, verifyTypeOrder
    <3>2. CASE Of(Unset) # {} \/ VerifyIsMixed
      BY <1>1, <2>1, <3>2 DEF Group, OrderInv
    <3>3. CASE ~ (Of(Unset) # {} \/ VerifyIsMixed)
      BY <1>1, <2>1, <2>2, <3>1, <3>3 DEF Group, OrderInv, Of, VerifyIsMixed
    <3> QED
      BY <3>2, <3>3
  <2>4. StartedInv' /\ BusyInv' /\ BehindInv'
    BY <2>1, <2>2 DEF StartedInv, BusyInv, BehindInv
  <2>5. RecordInv'
    BY <1>1 DEF Group, ProgressInv, RecordInv, Recorded, Succeeded, Entries
  <2> QED
    BY <2>3, <2>4, <2>5 DEF ProgressInv
<1>2. CASE StartStage
  <2>1. /\ main = "stage" /\ stage' = stage + 1 /\ stage' \in 1..Len(order)
        /\ UNCHANGED <<config, order, completed>>
        /\ main' \in {"wait", "error"}
    BY <1>0, <1>2 DEF StartStage
  <2>2. \A a \in Attestor : routine[a] \in {"idle", "done"}
    BY <1>0, <2>1 DEF ProgressInv, BusyInv
  <2>3. \A a \in Of(order[stage']) : routine[a] = "idle"
    BY <1>0, <2>1 DEF ProgressInv, StartedInv, Of
  <2>4. \A a \in Attestor :
          routine'[a] = IF main' = "wait" /\ a \in Of(order[stage'])
                          THEN "spawned" ELSE routine[a]
    BY <1>2 DEF StartStage
  <2>5. OrderInv'
    BY <1>0, <2>1 DEF ProgressInv, OrderInv, Of, VerifyIsMixed
  <2>6. StartedInv'
    BY <1>0, <2>1, <2>4 DEF ProgressInv, StartedInv, Of
  <2>7. BusyInv'
    BY <2>1, <2>2, <2>4 DEF BusyInv, Of
  <2>8. BehindInv'
    <3> SUFFICES ASSUME NEW a \in Attestor, NEW i \in 1..stage',
                        config.runType[a] = order[i]
                 PROVE  /\ i < stage' => routine'[a] = "done"
                        /\ i = stage' /\ main' = "error" => routine'[a] = "idle"
      BY <2>1 DEF BehindInv
    <3>1. CASE i = stage'
      BY <2>1, <2>3, <2>4, <3>1 DEF Of
    <3>2. CASE i < stage'
      <4>1. i \in 1..stage /\ routine[a] = "done"
        BY <1>0, <2>1, <3>2 DEF ProgressInv, BehindInv
      <4>2. a \notin Of(order[stage'])
        BY <2>3, <4>1
      <4> QED
        BY <2>4, <3>2, <4>1, <4>2
    <3> QED
      BY <3>1, <3>2, <2>1
  <2>9. RecordInv'
    BY <2>1, <2>2, <2>3, <2>4 DEF ProgressInv, RecordInv, Recorded, Succeeded,
       Entries, Past
  <2> QED
    BY <2>5, <2>6, <2>7, <2>8, <2>9 DEF ProgressInv
<1>3. CASE EndStage
  <2>1. /\ main = "wait" /\ main' = "stage"
        /\ UNCHANGED <<config, order, stage, routine, completed>>
        /\ \A a \in Attestor : config.runType[a] = order[stage] => routine[a] = "done"
    BY <1>3 DEF EndStage, WaitReturns, StageOf, Of
  <2>2. OrderInv'
    BY <2>1 DEF ProgressInv, OrderInv, Of, VerifyIsMixed
  <2>5. StartedInv' /\ RecordInv'
    BY <2>1 DEF ProgressInv, StartedInv, RecordInv, Recorded, Succeeded, Entries
  <2>3. BusyInv'
    BY <2>1 DEF ProgressInv, BusyInv
  <2>4. BehindInv'
    BY <1>0, <2>1 DEF ProgressInv, BehindInv
  <2> QED
    BY <2>2, <2>3, <2>4, <2>5 DEF ProgressInv
<1>4. CASE ReturnNil
  <2>1. /\ main = "stage" /\ main' = "nil" /\ stage = Len(order)
        /\ UNCHANGED <<config, order, stage, routine, completed>>
    BY <1>4 DEF ReturnNil
  <2>2. OrderInv'
    BY <2>1 DEF ProgressInv, OrderInv, Of, VerifyIsMixed
  <2>5. StartedInv' /\ RecordInv'
    BY <2>1 DEF ProgressInv, StartedInv, RecordInv, Recorded, Succeeded, Entries
  <2>3. BusyInv'
    BY <2>1 DEF ProgressInv, BusyInv
  <2>4. BehindInv'
    BY <2>1 DEF ProgressInv, BehindInv
  <2> QED
    BY <2>2, <2>3, <2>4, <2>5 DEF ProgressInv
<1>5. ASSUME NEW a \in Attestor, Read(a)
      PROVE  ProgressInv'
  <2>1. (OrderInv /\ StartedInv /\ BusyInv /\ BehindInv)'
    BY <1>5, ProgressWithin DEF Read
  <2>2. RecordInv'
    BY <1>5, RecordKept DEF Read, Past
  <2> QED
    BY <2>1, <2>2 DEF ProgressInv
<1>6. ASSUME NEW a \in Attestor, Fail(a)
      PROVE  ProgressInv'
  <2>0. /\ routine[a] = "attesting"
        /\ routine' = [routine EXCEPT ![a] = "done"]
        /\ UNCHANGED <<config, main, order, stage>>
    BY <1>6 DEF Fail
  <2>1. (OrderInv /\ StartedInv /\ BusyInv /\ BehindInv)'
    BY <2>0, ProgressWithin
  <2>2. RecordInv'
    BY <1>6, RecordStep DEF Fail, Past
  <2> QED
    BY <2>1, <2>2 DEF ProgressInv
<1>7. ASSUME NEW a \in Attestor, Succeed(a)
      PROVE  ProgressInv'
  <2>1. (OrderInv /\ StartedInv /\ BusyInv /\ BehindInv)'
    BY <1>7, ProgressWithin DEF Succeed
  <2>2. RecordInv'
    BY <1>7, RecordStep DEF Succeed, Past
  <2> QED
    BY <2>1, <2>2 DEF ProgressInv
<1>8. ASSUME NEW a \in Attestor, AddMaterials(a)
      PROVE  ProgressInv'
  <2>1. (OrderInv /\ StartedInv /\ BusyInv /\ BehindInv)'
    BY <1>8, ProgressWithin DEF AddMaterials
  <2>2. RecordInv'
    BY <1>8, RecordKept DEF AddMaterials, Past
  <2> QED
    BY <2>1, <2>2 DEF ProgressInv
<1>9. ASSUME NEW a \in Attestor, AddProducts(a)
      PROVE  ProgressInv'
  <2>0. /\ routine[a] = "products"
        /\ routine' = [routine EXCEPT ![a] = "done"]
        /\ UNCHANGED <<config, main, order, stage>>
    BY <1>9 DEF AddProducts
  <2>1. (OrderInv /\ StartedInv /\ BusyInv /\ BehindInv)'
    BY <2>0, ProgressWithin
  <2>2. RecordInv'
    BY <1>9, RecordKept DEF AddProducts, Past
  <2> QED
    BY <2>1, <2>2 DEF ProgressInv
<1>10. CASE UNCHANGED vars
  <2>1. OrderInv'
    BY <1>10 DEF vars, ProgressInv, OrderInv, Of, VerifyIsMixed
  <2>2. StartedInv' /\ BusyInv' /\ BehindInv'
    BY <1>10 DEF vars, ProgressInv, StartedInv, BusyInv, BehindInv
  <2>3. RecordInv'
    BY <1>10 DEF vars, ProgressInv, RecordInv, Recorded, Succeeded, Entries
  <2> QED
    BY <2>1, <2>2, <2>3 DEF ProgressInv
<1> QED
  BY <1>1, <1>2, <1>3, <1>4, <1>5, <1>6, <1>7, <1>8, <1>9, <1>10
     DEF Next, RunAttestors, runAttestor

-----------------------------------------------------------------------------
(* Run types behind and ahead                                              *)

\* Before is settled once the order is.
LEMMA BeforeIsFixed ==
  ASSUME UNCHANGED <<config, order>>
  PROVE  \A a, b : Before(a, b)' <=> Before(a, b)
BY DEF Before

\* No attestor is of an earlier run type than itself.
LEMMA BeforeIsStrict ==
  ASSUME TypeOK, NEW a
  PROVE  ~ Before(a, a)
<1>1. /\ DOMAIN order = 1..Len(order) /\ Len(order) \in Nat
      /\ \A i, j \in 1..Len(order) : order[i] = order[j] => i = j
  BY OrderFacts DEF TypeOK
<1> QED
  BY <1>1 DEF Before

\* The busy attestors are ahead of everyone that has started.
LEMMA BusyIsLatest ==
  ASSUME TypeOK, ProgressInv, NEW a \in Attestor, NEW b \in Attestor,
         routine[a] \notin {"idle", "done"}, routine[b] # "idle"
  PROVE  ~ Before(a, b)
<1> SUFFICES ASSUME NEW i \in DOMAIN order, NEW j \in DOMAIN order, i < j,
                    config.runType[a] = order[i], config.runType[b] = order[j]
             PROVE  FALSE
  BY DEF Before
<1>1. i \in 1..Len(order) /\ j \in 1..Len(order) /\ stage \in 0..Len(order)
  BY OrderFacts DEF TypeOK
<1>2. i = stage
  BY <1>1, BusyFacts
<1>3. PICK k \in 1..stage : order[k] = config.runType[b]
  BY DEF ProgressInv, StartedInv
<1>4. \A m, n \in 1..Len(order) : order[m] = order[n] => m = n
  BY OrderFacts DEF TypeOK
<1>5. j = k
  BY <1>1, <1>3, <1>4
<1> QED
  BY <1>1, <1>2, <1>3, <1>5

\* An element of a sequence is the value at one of its positions.
LEMMA SeqElement ==
  ASSUME NEW S, NEW s \in Seq(S), NEW i \in DOMAIN s
  PROVE  s[i] \in S
<1>1. DOMAIN s = 1..Len(s)
  OBVIOUS
<1> QED
  BY <1>1

\* What the list holds.
LEMMA EntryFacts ==
  ASSUME TypeOK, NEW i \in DOMAIN completed
  PROVE  /\ completed[i].attestor \in Attestor
         /\ completed[i].error \in BOOLEAN
         /\ completed[i] = Completed(completed[i].attestor, completed[i].error)
         /\ Recorded(completed[i].attestor)
<1>1. completed \in Seq([attestor : Attestor, error : BOOLEAN])
  BY DEF TypeOK
<1>2. completed[i] \in [attestor : Attestor, error : BOOLEAN]
  BY <1>1, SeqElement
<1> QED
  BY <1>2 DEF Completed, Recorded

\* Before the grouping nothing has happened.
LEMMA NothingYet ==
  ASSUME TypeOK, ProgressInv, main = "group"
  PROVE  /\ \A a \in Attestor : routine[a] = "idle"
         /\ DOMAIN completed = {}
<1>1. \A a \in Attestor : routine[a] = "idle"
  BY OrderFacts DEF TypeOK, ProgressInv, OrderInv, StartedInv
<1>2. \A i \in DOMAIN completed :
        completed[i].attestor \in Attestor /\ Recorded(completed[i].attestor)
  BY EntryFacts
<1> QED
  BY <1>1, <1>2 DEF ProgressInv, RecordInv, Past

\* A recorded attestor is in the list with or without an error.
LEMMA RecordedOutcome ==
  ASSUME TypeOK, NEW a \in Attestor
  PROVE  Recorded(a) <=> (Succeeded(completed, a) \/ Failed(completed, a))
<1>2. \A i \in DOMAIN completed :
        completed[i] = Completed(completed[i].attestor, completed[i].error)
        /\ completed[i].error \in BOOLEAN
  BY EntryFacts
<1>3. \A e : Completed(a, e).attestor = a
  BY DEF Completed
<1>4. ASSUME Recorded(a)
      PROVE  Succeeded(completed, a) \/ Failed(completed, a)
  BY <1>2, <1>4 DEF Recorded, Succeeded, Failed, Entries
<1>5. ASSUME Succeeded(completed, a) \/ Failed(completed, a)
      PROVE  Recorded(a)
  BY <1>3, <1>5 DEF Recorded, Succeeded, Failed, Entries
<1> QED
  BY <1>4, <1>5

-----------------------------------------------------------------------------
(* The steps that record                                                   *)

\* The context as NewContext returns it satisfies the inductive invariant.
LEMMA InitFacts ==
  ASSUME Init
  PROVE  TypeOK /\ ProgressInv /\ StagesAreOrdered /\ WriteInv
<1>1. TypeOK
  BY ConfigurationAssumption DEF Init, TypeOK, Unread, None
<1>2. OrderInv /\ StartedInv /\ BusyInv /\ BehindInv
  BY DEF Init, OrderInv, StartedInv, BusyInv, BehindInv
<1>3. DOMAIN completed = {}
  BY DEF Init
<1>4. RecordInv /\ StagesAreOrdered
  BY <1>3 DEF Init, RecordInv, Recorded, Past, StagesAreOrdered
<1>5. WriteInv
  BY DEF Init, WriteInv
<1> QED
  BY <1>1, <1>2, <1>4, <1>5 DEF ProgressInv

\* A step keeps the list in the order of the stages: only Fail and Succeed
\* append, and by ProgressInv everyone recorded so far is of no later stage.
LEMMA OrderedStep ==
  TypeOK /\ ProgressInv /\ StagesAreOrdered /\ [Next]_vars => StagesAreOrdered'
<1> SUFFICES ASSUME TypeOK, ProgressInv, StagesAreOrdered, [Next]_vars
             PROVE  StagesAreOrdered'
  OBVIOUS
<1>1. CASE Group
  BY <1>1, NothingYet DEF Group, StagesAreOrdered
<1>2. CASE UNCHANGED <<config, order, completed>>
  BY <1>2, BeforeIsFixed DEF StagesAreOrdered
<1>3. ASSUME NEW a \in Attestor, NEW e \in BOOLEAN, routine[a] = "attesting",
             completed' = Append(completed, Completed(a, e)),
             UNCHANGED <<config, order>>
      PROVE  StagesAreOrdered'
  <2>1. /\ Len(completed) \in Nat
        /\ DOMAIN completed = 1..Len(completed)
        /\ DOMAIN completed' = 1..(Len(completed) + 1)
        /\ \A i \in 1..Len(completed) : completed'[i] = completed[i]
        /\ completed'[Len(completed) + 1].attestor = a
    BY <1>3, AppendFacts DEF Completed
  <2>2. ASSUME NEW i \in 1..Len(completed)
        PROVE  /\ completed[i].attestor # a
               /\ ~ Before(a, completed[i].attestor)
    <3>1. completed[i].attestor \in Attestor /\ Recorded(completed[i].attestor)
      BY <2>1, EntryFacts
    <3>2. routine[completed[i].attestor] \in Past
      BY <3>1 DEF ProgressInv, RecordInv
    <3> QED
      BY <1>3, <3>1, <3>2, BusyIsLatest DEF Past
  <2>3. \A b, c : Before(b, c)' <=> Before(b, c)
    BY <1>3, BeforeIsFixed
  <2> SUFFICES ASSUME NEW i \in 1..(Len(completed) + 1),
                      NEW j \in 1..(Len(completed) + 1), i < j
               PROVE  /\ completed'[i].attestor # completed'[j].attestor
                      /\ ~ Before(completed'[j].attestor, completed'[i].attestor)
    BY <2>1, <2>3 DEF StagesAreOrdered
  <2>4. CASE j \in 1..Len(completed)
    BY <2>1, <2>4 DEF StagesAreOrdered
  <2>5. CASE j = Len(completed) + 1
    BY <2>1, <2>2, <2>5
  <2> QED
    BY <2>1, <2>4, <2>5
<1>4. ASSUME NEW a \in Attestor, Fail(a)
      PROVE  StagesAreOrdered'
  BY <1>3, <1>4 DEF Fail
<1>5. ASSUME NEW a \in Attestor, Succeed(a)
      PROVE  StagesAreOrdered'
  BY <1>3, <1>5 DEF Succeed
<1> QED
  BY <1>1, <1>2, <1>4, <1>5 DEF Next, RunAttestors, runAttestor, StartStage,
     EndStage, WaitReturns, ReturnNil, Read, AddMaterials, AddProducts, vars

\* wg.Wait is a barrier: whatever the goroutines of a stage do, no outcome of a
\* run type is recorded after one of a later type, and none is recorded twice.
THEOREM StagesOrdered == Spec => []StagesAreOrdered
<1>1. Init => TypeOK /\ ProgressInv /\ StagesAreOrdered
  BY InitFacts
<1>2. TypeOK /\ ProgressInv /\ StagesAreOrdered /\ [Next]_vars
        => (TypeOK /\ ProgressInv /\ StagesAreOrdered)'
  BY TypeStep, ProgressStep, OrderedStep DEF ProgressInv, OrderInv, Ungrouped
<1> QED
  BY <1>1, <1>2, PTL DEF Spec

-----------------------------------------------------------------------------
(* The maps                                                                *)

\* A step keeps the entries of the list, and no goroutine goes back.
LEMMA NoStepBack ==
  ASSUME TypeOK, ProgressInv, [Next]_vars
  PROVE  /\ Entries(completed) \subseteq Entries(completed')
         /\ \A a \in Attestor :
              /\ routine[a] = "done" => routine'[a] = "done"
              /\ routine[a] = "products" => routine'[a] \in {"products", "done"}
<1>0. routine \in [Attestor -> {"idle", "spawned", "attesting", "materials",
                                "products", "done"}]
  BY DEF TypeOK
<1>1. CASE UNCHANGED <<completed, routine>>
  BY <1>1
<1>2. CASE StartStage
  <2>1. /\ UNCHANGED completed
        /\ \A a \in Attestor : a \notin Of(order[stage']) => routine'[a] = routine[a]
    BY <1>0, <1>2 DEF StartStage
  <2>2. \A a \in Of(order[stage']) : routine[a] = "idle"
    <3>1. /\ stage' = stage + 1 /\ stage < Len(order) /\ stage \in Nat
          /\ Len(order) \in Nat
          /\ \A i, j \in 1..Len(order) : order[i] = order[j] => i = j
      BY <1>2, OrderFacts DEF StartStage, TypeOK
    <3> QED
      BY <3>1 DEF ProgressInv, StartedInv, Of
  <2> QED
    BY <2>1, <2>2 DEF Of
<1>3. ASSUME NEW a \in Attestor, Read(a) \/ AddMaterials(a) \/ AddProducts(a)
      PROVE  /\ UNCHANGED completed
             /\ \A b \in Attestor :
                  /\ routine[b] = "done" => routine'[b] = "done"
                  /\ routine[b] = "products" => routine'[b] \in {"products", "done"}
  BY <1>0, <1>3 DEF Read, AddMaterials, AddProducts
<1>4. ASSUME NEW a \in Attestor, Fail(a) \/ Succeed(a)
      PROVE  /\ Entries(completed) \subseteq Entries(completed')
             /\ \A b \in Attestor :
                  /\ routine[b] = "done" => routine'[b] = "done"
                  /\ routine[b] = "products" => routine'[b] \in {"products", "done"}
  <2>1. \A b \in Attestor :
          /\ routine[b] = "done" => routine'[b] = "done"
          /\ routine[b] = "products" => routine'[b] \in {"products", "done"}
    BY <1>0, <1>4 DEF Fail, Succeed
  <2>2. PICK e \in BOOLEAN : completed' = Append(completed, Completed(a, e))
    BY <1>4 DEF Fail, Succeed
  <2>3. Entries(completed) \subseteq Entries(completed')
    BY <2>2, AppendFacts
  <2> QED
    BY <2>1, <2>3
<1> QED
  BY <1>1, <1>2, <1>3, <1>4 DEF Next, RunAttestors, runAttestor, Group,
     EndStage, WaitReturns, ReturnNil, vars

\* A digest in a map is of an attestor that succeeded and has got that far.
LEMMA WriteStep ==
  TypeOK /\ ProgressInv /\ WriteInv /\ [Next]_vars => WriteInv'
<1> SUFFICES ASSUME TypeOK, ProgressInv, WriteInv, [Next]_vars
             PROVE  WriteInv'
  OBVIOUS
<1>0. /\ Entries(completed) \subseteq Entries(completed')
      /\ \A a \in Attestor :
           /\ routine[a] = "done" => routine'[a] = "done"
           /\ routine[a] = "products" => routine'[a] \in {"products", "done"}
  BY NoStepBack
<1>t. /\ \A p \in Path : materials[p] # None => materials[p] \in Attestor
      /\ \A p \in Path : products[p] # None => products[p] \in Attestor
      /\ routine \in [Attestor -> {"idle", "spawned", "attesting", "materials",
                                   "products", "done"}]
  BY DEF TypeOK
<1>1. ASSUME NEW p \in Path, materials'[p] # None, materials'[p] = materials[p]
      PROVE  /\ routine'[materials'[p]] \in {"products", "done"}
             /\ Succeeded(completed', materials'[p])
  BY <1>0, <1>t, <1>1 DEF WriteInv, Succeeded
<1>2. ASSUME NEW p \in Path, products'[p] # None, products'[p] = products[p]
      PROVE  /\ routine'[products'[p]] = "done"
             /\ Succeeded(completed', products'[p])
  BY <1>0, <1>t, <1>2 DEF WriteInv, Succeeded
<1>3. CASE UNCHANGED <<materials, products>>
  BY <1>1, <1>2, <1>3 DEF WriteInv
<1>4. ASSUME NEW a \in Attestor, AddMaterials(a)
      PROVE  WriteInv'
  <2>1. /\ routine'[a] = "products" /\ Succeeded(completed', a)
        /\ UNCHANGED products
        /\ \A p \in Path : materials'[p] = a \/ materials'[p] = materials[p]
    BY <1>t, <1>4 DEF AddMaterials, ProgressInv, RecordInv, Succeeded, Entries
  <2> QED
    BY <1>1, <1>2, <2>1 DEF WriteInv
<1>5. ASSUME NEW a \in Attestor, AddProducts(a)
      PROVE  WriteInv'
  <2>1. /\ routine'[a] = "done" /\ Succeeded(completed', a)
        /\ UNCHANGED materials
        /\ \A p \in Path : products'[p] = a \/ products'[p] = products[p]
    BY <1>t, <1>5 DEF AddProducts, ProgressInv, RecordInv, Succeeded, Entries
  <2> QED
    BY <1>1, <1>2, <2>1 DEF WriteInv
<1> QED
  BY <1>3, <1>4, <1>5 DEF Next, RunAttestors, runAttestor, Group, StartStage,
     EndStage, WaitReturns, ReturnNil, Read, Fail, Succeed, vars

\* What ConfigurationAssumption says of one attestor.
LEMMA OfferedPaths ==
  ASSUME TypeOK, NEW a \in Attestor
  PROVE  config.materials[a] \subseteq Path /\ config.products[a] \subseteq Path
<1>1. config \in [runType   : [Attestor -> RunType],
                 declarers : SUBSET Attestor,
                 materials : [Attestor -> SUBSET Path],
                 products  : [Attestor -> SUBSET Path]]
  BY ConfigurationAssumption DEF TypeOK
<1> QED
  BY <1>1

\* An attestor that has just written is of no earlier type than those that
\* have started: they may be overwritten.
LEMMA MayOverwrite ==
  ASSUME TypeOK, ProgressInv, NEW a \in Attestor, NEW b \in Attestor,
         routine[a] \in {"materials", "products"},
         b = a \/ routine[b] # "idle"
  PROVE  a # None /\ ~ Before(a, b)
<1>1. a # None
  BY NAssumption DEF Attestor, None
<1>2. CASE b = a
  BY <1>1, <1>2, BeforeIsStrict
<1>3. CASE routine[b] # "idle"
  BY <1>1, <1>3, BusyIsLatest
<1> QED
  BY <1>2, <1>3

\* A step keeps the latest stage's digest in the maps: only AddMaterials and
\* AddProducts write, and a busy attestor is of the latest stage started.
LEMMA LatestStep ==
  TypeOK /\ ProgressInv /\ LatestStageWins /\ [Next]_vars => LatestStageWins'
<1> SUFFICES ASSUME TypeOK, ProgressInv, LatestStageWins, [Next]_vars
             PROVE  LatestStageWins'
  OBVIOUS
<1>t. routine \in [Attestor -> {"idle", "spawned", "attesting", "materials",
                                "products", "done"}]
  BY DEF TypeOK
<1>1. CASE Group
  <2>1. \A a \in Attestor : routine'[a] = "idle"
    BY <1>1, NothingYet DEF Group
  <2> QED
    BY <2>1 DEF LatestStageWins
<1>2. ASSUME UNCHANGED <<config, order, completed, materials, products>>,
             \A a \in Attestor : routine'[a] \in {"products", "done"} =>
                                 routine'[a] = routine[a]
      PROVE  LatestStageWins'
  <2>1. \A a, b : Before(a, b)' <=> Before(a, b)
    BY <1>2, BeforeIsFixed
  <2> QED
    BY <1>2, <2>1 DEF LatestStageWins, Succeeded, Entries
<1>3. CASE StartStage \/ EndStage \/ ReturnNil \/ (\E a \in Attestor : Read(a))
           \/ UNCHANGED vars
  <2>1. UNCHANGED <<config, order, completed, materials, products>>
    BY <1>3 DEF StartStage, EndStage, WaitReturns, ReturnNil, Read, vars
  <2>2. \A a \in Attestor : routine'[a] \in {"products", "done"} =>
                             routine'[a] = routine[a]
    BY <1>t, <1>3 DEF StartStage, EndStage, WaitReturns, ReturnNil, Read, vars
  <2> QED
    BY <1>2, <2>1, <2>2
<1>4. ASSUME NEW a \in Attestor, Fail(a) \/ Succeed(a)
      PROVE  LatestStageWins'
  <2>1. /\ routine[a] = "attesting"
        /\ UNCHANGED <<config, order, materials, products>>
        /\ \A b \in Attestor : b # a => routine'[b] = routine[b]
    BY <1>t, <1>4 DEF Fail, Succeed
  <2>2. PICK e \in BOOLEAN :
          /\ completed' = Append(completed, Completed(a, e))
          /\ e \/ routine'[a] = "materials"
    BY <1>t, <1>4 DEF Fail, Succeed
  <2>3. Entries(completed') = Entries(completed) \cup {Completed(a, e)}
    BY <2>2, AppendFacts
  <2>4. ~ Succeeded(completed, a)
    BY <2>1, RecordedOutcome DEF ProgressInv, RecordInv, Past
  <2>5. \A b \in Attestor : b # a /\ Succeeded(completed', b) => Succeeded(completed, b)
    BY <2>3 DEF Succeeded, Completed
  <2>6. ~ (Succeeded(completed', a) /\ routine'[a] \in {"products", "done"})
    BY <2>2, <2>3, <2>4 DEF Succeeded, Completed
  <2>7. \A b, c : Before(b, c)' <=> Before(b, c)
    BY <2>1, BeforeIsFixed
  <2> QED
    BY <2>1, <2>5, <2>6, <2>7 DEF LatestStageWins
<1>5. ASSUME NEW a \in Attestor, AddMaterials(a)
      PROVE  LatestStageWins'
  <2>1. /\ routine[a] = "materials" /\ routine'[a] = "products"
        /\ \A b \in Attestor : b # a => routine'[b] = routine[b]
        /\ UNCHANGED <<config, order, completed, products>>
        /\ \A p \in Path : materials'[p] =
             IF p \in config.materials[a] THEN a ELSE materials[p]
    BY <1>t, <1>5 DEF AddMaterials
  <2>2. \A b, c : Before(b, c)' <=> Before(b, c)
    BY <2>1, BeforeIsFixed
  <2>3. ASSUME NEW b \in Attestor, Succeeded(completed, b),
               routine'[b] \in {"products", "done"},
               NEW p \in config.materials[b]
        PROVE  materials'[p] # None /\ ~ Before(materials'[p], b)
    <3>1. p \in Path
      BY OfferedPaths
    <3>2. CASE p \in config.materials[a]
      BY <2>1, <2>3, <3>1, <3>2, MayOverwrite
    <3>3. CASE p \notin config.materials[a]
      BY <2>1, <2>3, <3>1, <3>3 DEF LatestStageWins
    <3> QED
      BY <3>2, <3>3
  <2>4. ASSUME NEW b \in Attestor, Succeeded(completed, b), routine'[b] = "done",
               NEW p \in config.products[b]
        PROVE  products[p] # None /\ ~ Before(products[p], b)
    BY <2>1, <2>4 DEF LatestStageWins
  <2> QED
    BY <2>1, <2>2, <2>3, <2>4 DEF LatestStageWins
<1>6. ASSUME NEW a \in Attestor, AddProducts(a)
      PROVE  LatestStageWins'
  <2>1. /\ routine[a] = "products" /\ routine'[a] = "done"
        /\ \A b \in Attestor : b # a => routine'[b] = routine[b]
        /\ UNCHANGED <<config, order, completed, materials>>
        /\ \A p \in Path : products'[p] =
             IF p \in config.products[a] THEN a ELSE products[p]
    BY <1>t, <1>6 DEF AddProducts
  <2>2. \A b, c : Before(b, c)' <=> Before(b, c)
    BY <2>1, BeforeIsFixed
  <2>3. ASSUME NEW b \in Attestor, Succeeded(completed, b),
               routine'[b] \in {"products", "done"},
               NEW p \in config.materials[b]
        PROVE  materials[p] # None /\ ~ Before(materials[p], b)
    BY <2>1, <2>3 DEF LatestStageWins
  <2>4. ASSUME NEW b \in Attestor, Succeeded(completed, b), routine'[b] = "done",
               NEW p \in config.products[b]
        PROVE  products'[p] # None /\ ~ Before(products'[p], b)
    <3>1. p \in Path
      BY OfferedPaths
    <3>2. CASE p \in config.products[a]
      BY <2>1, <2>4, <3>1, <3>2, MayOverwrite
    <3>3. CASE p \notin config.products[a]
      BY <2>1, <2>4, <3>1, <3>3 DEF LatestStageWins
    <3> QED
      BY <3>2, <3>3
  <2> QED
    BY <2>1, <2>2, <2>3, <2>4 DEF LatestStageWins
<1> QED
  BY <1>1, <1>3, <1>4, <1>5, <1>6 DEF Next, RunAttestors, runAttestor

-----------------------------------------------------------------------------
(* What Attest reads                                                       *)

\* While an attestor is busy, those of earlier run types are done.
LEMMA EarlierAreDone ==
  ASSUME TypeOK, ProgressInv, NEW a \in Attestor, NEW b \in Attestor,
         routine[b] = "spawned", Before(a, b)
  PROVE  routine[a] = "done"
<1>1. PICK i \in DOMAIN order, j \in DOMAIN order :
        i < j /\ config.runType[a] = order[i] /\ config.runType[b] = order[j]
  BY DEF Before
<1>2. i \in 1..Len(order) /\ j \in 1..Len(order) /\ Len(order) \in Nat
  BY OrderFacts DEF TypeOK
<1>3. j = stage
  BY <1>1, <1>2, BusyFacts
<1> QED
  BY <1>1, <1>2, <1>3 DEF ProgressInv, BehindInv

\* A step keeps what readers saw: at a Read, earlier stages are all done.
LEMMA SeesStep ==
  TypeOK /\ ProgressInv /\ LatestStageWins /\ SeesEarlierStages /\ [Next]_vars
    => SeesEarlierStages'
<1> SUFFICES ASSUME TypeOK, ProgressInv, LatestStageWins, SeesEarlierStages,
                    [Next]_vars
             PROVE  SeesEarlierStages'
  OBVIOUS
<1>t. /\ routine \in [Attestor -> {"idle", "spawned", "attesting", "materials",
                                   "products", "done"}]
      /\ DOMAIN seen = Attestor
  BY DEF TypeOK
<1>1. CASE Group
  <2>1. \A a \in Attestor : routine'[a] = "idle"
    BY <1>1, NothingYet DEF Group
  <2> QED
    BY <2>1 DEF SeesEarlierStages
<1>2. CASE /\ UNCHANGED <<config, order, seen>>
           /\ ~ Group /\ \A a \in Attestor : ~ Read(a)
  <2>1. \A b \in Attestor : routine'[b] \notin {"idle", "spawned"}
                             => routine[b] \notin {"idle", "spawned"}
    BY <1>t, <1>2 DEF Next, RunAttestors, runAttestor, StartStage,
       EndStage, WaitReturns, ReturnNil, Fail, Succeed, AddMaterials,
       AddProducts, vars
  <2>2. \A a, b : Before(a, b)' <=> Before(a, b)
    BY <1>2, BeforeIsFixed
  <2> QED
    BY <1>2, <2>1, <2>2 DEF SeesEarlierStages
<1>3. ASSUME NEW c \in Attestor, Read(c)
      PROVE  SeesEarlierStages'
  <2>1. /\ routine[c] = "spawned"
        /\ UNCHANGED <<config, order>>
        /\ seen'[c] = [materials |-> materials, completed |-> completed]
        /\ \A b \in Attestor : b # c => seen'[b] = seen[b] /\ routine'[b] = routine[b]
    BY <1>t, <1>3 DEF Read
  <2>2. \A a, b : Before(a, b)' <=> Before(a, b)
    BY <2>1, BeforeIsFixed
  <2>3. ASSUME NEW a \in Attestor, Before(a, c)
        PROVE  \/ Failed(completed, a)
               \/ /\ Succeeded(completed, a)
                  /\ \A p \in config.materials[a] :
                       materials[p] # None /\ ~ Before(materials[p], a)
    <3>1. routine[a] = "done"
      BY <2>1, <2>3, EarlierAreDone
    <3>2. Succeeded(completed, a) \/ Failed(completed, a)
      BY <3>1, RecordedOutcome DEF ProgressInv, RecordInv, Past
    <3> QED
      BY <3>1, <3>2 DEF LatestStageWins
  <2>4. /\ seen'[c].materials = materials
        /\ seen'[c].completed = completed
    BY <2>1
  <2>5. ASSUME NEW b \in Attestor, routine'[b] \notin {"idle", "spawned"},
               NEW a \in Attestor, Before(a, b)
        PROVE  \/ Failed(seen'[b].completed, a)
               \/ /\ Succeeded(seen'[b].completed, a)
                  /\ \A p \in config.materials[a] :
                       /\ seen'[b].materials[p] # None
                       /\ ~ Before(seen'[b].materials[p], a)
    <3>1. CASE b = c
      BY <2>3, <2>4, <2>5, <3>1
    <3>2. CASE b # c
      BY <2>1, <2>5, <3>2 DEF SeesEarlierStages
    <3> QED
      BY <3>1, <3>2
  <2> QED
    BY <2>1, <2>2, <2>5 DEF SeesEarlierStages
<1> QED
  BY <1>1, <1>2, <1>3 DEF Next, RunAttestors, runAttestor, Group, StartStage,
     EndStage, WaitReturns, ReturnNil, Fail, Succeed, AddMaterials,
     AddProducts, vars

LEMMA InvInitially == Init => Inv
BY InitFacts DEF Inv, Init, LatestStageWins, SeesEarlierStages

LEMMA InvStep == Inv /\ [Next]_vars => Inv'
BY TypeStep, ProgressStep, OrderedStep, WriteStep, LatestStep, SeesStep
   DEF Inv, ProgressInv, OrderInv, Ungrouped

\* When RunAttestors has returned, the list is what its return value says.
LEMMA InvAccounts == Inv => ReturnAccountsForAll
<1> SUFFICES ASSUME Inv
             PROVE  ReturnAccountsForAll
  OBVIOUS
<1>0. /\ TypeOK /\ ProgressInv
      /\ stage \in 0..Len(order) /\ Len(order) \in Nat
      /\ DOMAIN order = 1..Len(order)
  BY OrderFacts DEF Inv, TypeOK
<1>1. \A a \in Attestor :
        (Succeeded(completed, a) \/ Failed(completed, a)) <=> routine[a] \in Past
  BY <1>0, RecordedOutcome DEF ProgressInv, RecordInv
<1>2. ASSUME main = "nil", NEW a \in Attestor, config.runType[a] # Other
      PROVE  routine[a] \in Past
  <2>1. config.runType[a] \in RunType
    BY <1>0, ConfigurationAssumption DEF TypeOK
  <2>2. /\ config.runType[a] # Unset /\ ~ VerifyIsMixed
        /\ stage = Len(order)
        /\ order = IF Of(Verify) # {} THEN verifyTypeOrder ELSE runTypeOrder
    BY <1>0, <1>2 DEF ProgressInv, OrderInv, Of
  <2>3. \E i \in 1..Len(order) : order[i] = config.runType[a]
    <3>1. CASE Of(Verify) # {}
      <4>1. config.runType[a] = Verify
        BY <2>2, <3>1 DEF VerifyIsMixed
      <4> QED
        BY <2>2, <3>1, <4>1 DEF verifyTypeOrder
    <3>2. CASE Of(Verify) = {}
      <4>1. config.runType[a] \in {PreMaterial, Material, Execute, Product,
                                   PostProduct}
        BY <1>2, <2>1, <2>2, <3>2 DEF RunType, Of
      <4> QED
        BY <2>2, <3>2, <4>1 DEF runTypeOrder
    <3> QED
      BY <3>1, <3>2
  <2> QED
    BY <1>0, <1>2, <2>2, <2>3 DEF ProgressInv, BehindInv, Past
<1>3. ASSUME main = "error", NEW a \in Attestor
      PROVE  (routine[a] \in Past)
               <=> (\E i \in DOMAIN order : i < stage /\ config.runType[a] = order[i])
  <2>1. routine[a] \in {"idle", "done"}
    BY <1>0, <1>3 DEF ProgressInv, BusyInv
  <2>2. ASSUME routine[a] = "done"
        PROVE  \E i \in DOMAIN order : i < stage /\ config.runType[a] = order[i]
    <3>1. PICK i \in 1..stage : order[i] = config.runType[a]
      BY <1>0, <2>2 DEF ProgressInv, StartedInv
    <3>2. i # stage
      BY <1>0, <1>3, <2>2, <3>1 DEF ProgressInv, BehindInv
    <3> QED
      BY <1>0, <3>1, <3>2
  <2>3. ASSUME NEW i \in DOMAIN order, i < stage, config.runType[a] = order[i]
        PROVE  routine[a] = "done"
    BY <1>0, <2>3 DEF ProgressInv, BehindInv
  <2> QED
    BY <2>1, <2>2, <2>3 DEF Past
<1> QED
  BY <1>1, <1>2, <1>3 DEF ReturnAccountsForAll

\* A step takes back nothing that is in the list or in the map.
LEMMA KeptStep ==
  ASSUME Inv, [Next]_vars
  PROVE  /\ Entries(completed) \subseteq Entries(completed')
         /\ \A p \in Path : materials[p] # None =>
              materials'[p] # None /\ ~ Before(materials'[p], materials[p])
<1>1. Entries(completed) \subseteq Entries(completed')
  BY NoStepBack DEF Inv
<1>2. ASSUME NEW p \in Path, materials[p] # None
      PROVE  materials'[p] # None /\ ~ Before(materials'[p], materials[p])
  <2>1. /\ TypeOK /\ ProgressInv
        /\ materials[p] \in Attestor /\ routine[materials[p]] # "idle"
    BY <1>2 DEF Inv, TypeOK, WriteInv
  <2>2. CASE materials'[p] = materials[p]
    BY <1>2, <2>1, <2>2, BeforeIsStrict
  <2>3. ASSUME NEW a \in Attestor, AddMaterials(a), materials'[p] = a
        PROVE  materials'[p] # None /\ ~ Before(materials'[p], materials[p])
    BY <2>1, <2>3, MayOverwrite DEF AddMaterials
  <2>4. \A a \in Attestor : AddMaterials(a) =>
          materials'[p] = a \/ materials'[p] = materials[p]
    BY DEF AddMaterials
  <2> QED
    BY <2>2, <2>3, <2>4 DEF Next, RunAttestors, runAttestor, Group,
       StartStage, EndStage, WaitReturns, ReturnNil, Read, Fail, Succeed,
       AddProducts, vars
<1> QED
  BY <1>1, <1>2

-----------------------------------------------------------------------------
(* The theorems                                                            *)

\* The whole inductive invariant: the stages, the list and the maps of
\* context.go agree with how far the goroutines are.
THEOREM Invariance == Spec => []Inv
BY InvInitially, InvStep, PTL DEF Spec

\* Attest never runs on a context that lacks what an earlier run type recorded,
\* although the list and the maps are filled in separate critical sections.
THEOREM EarlierStagesAreSeen == Spec => []SeesEarlierStages
BY Invariance, PTL DEF Inv

\* The maps hold the digests of the latest run type that observed a path, in
\* whatever order the goroutines call addMaterials and addProducts.
THEOREM LatestStageHolds == Spec => []LatestStageWins
BY Invariance, PTL DEF Inv

\* runAttestor's return after an error: a failed attestor publishes nothing.
THEOREM SuccessfulPublish == Spec => []OnlySuccessfulPublish
<1>1. Inv => OnlySuccessfulPublish
  BY DEF Inv, WriteInv, OnlySuccessfulPublish
<1> QED
  BY <1>1, Invariance, PTL

\* RunAttestors' refusal of a mixed run: a verify attestor that has started has
\* only verify attestors beside it.
THEOREM VerifyIsAlone == Spec => []VerifyRunsAlone
<1>1. Inv => VerifyRunsAlone
  <2> SUFFICES ASSUME Inv, NEW a \in Attestor, NEW b \in Attestor,
                      routine[a] # "idle", config.runType[a] = Verify
               PROVE  config.runType[b] = Verify
    BY DEF VerifyRunsAlone
  <2>1. order # <<>>
    <3>1. stage \in 0..Len(order) /\ Len(<<>>) = 0
      BY DEF Inv, TypeOK
    <3>2. stage # 0
      BY <3>1 DEF Inv, ProgressInv, StartedInv
    <3> QED
      BY <3>1, <3>2
  <2> QED
    BY <2>1 DEF Inv, ProgressInv, OrderInv, VerifyIsMixed, Of
<1> QED
  BY <1>1, Invariance, PTL

\* RunAttestors returns nil with everyone recorded, and an error with exactly
\* the run types before the failing one recorded.
THEOREM AllAccountedFor == Spec => []ReturnAccountsForAll
BY InvAccounts, Invariance, PTL

\* No critical section undoes what another wrote: the list only grows, and a
\* path is never charged back to an earlier run type.
THEOREM UpdatesAreKept == Spec => NoLostUpdate
BY KeptStep, InvInitially, InvStep, Invariance, PTL DEF Spec, NoLostUpdate

-----------------------------------------------------------------------------
(* run()                                                                   *)


RunResult == [kind : {"export", "collection"}, of : Seq(Attestor), item : Nat,
              signed : BOOLEAN]

RTypes ==
  /\ ro \in RunOptions
  /\ phase \in {"validate", "attest", "export", "collect", "nil", "error"}
  /\ cursor \in Nat \ {0}
  /\ item \in 1..(NExported + 1)
  /\ members \in Seq(Attestor)
  /\ result \in Seq(RunResult)

\* The context has returned nil before anything is exported, and a path in its
\* map was offered by the attestor it is charged to.
Behind ==
  /\ phase \in {"export", "collect", "nil"} => main = "nil"
  /\ \A p \in Path : materials[p] # None => p \in config.materials[materials[p]]

\* The completed attestors the export loop and the filter are through with.
Exporting == IF phase = "export" THEN cursor ELSE Len(completed) + 1
Filtering == IF phase = "collect" THEN cursor
             ELSE IF phase = "nil" THEN Len(completed) + 1 ELSE 1

\* Attestor a is at position k of the list, without an error.
At(k, a) == k \in 1..Len(completed) /\ completed[k] = Completed(a, FALSE)
Passed(a) == \E k \in 1..Len(completed) : k < Exporting /\ At(k, a)

\* How many envelopes of its own an attestor gets.
Quota(a) ==
  CASE a \in ro.multiExporters -> NExported
    [] a \in (ro.exporters \cap ro.exporting) \ ro.multiExporters -> 1
    [] OTHER -> 0

\* Only the last result of a run without an error is a collection, of the
\* attestors the filter let through.
OneCollection ==
  /\ phase \in {"validate", "attest"} => result = <<>> /\ cursor = 1 /\ item = 1
  /\ phase # "nil" => \A i \in 1..Len(result) : result[i].kind = "export"
  /\ phase = "nil" =>
       /\ Len(result) > 0
       /\ result[Len(result)].kind = "collection"
       /\ result[Len(result)].of = members
       /\ \A i \in 1..Len(result) : i # Len(result) => result[i].kind = "export"

\* Every result is signed, and an export is one of a successful attestor that
\* the loop has come to.
ExportsAreSound ==
  \A i \in 1..Len(result) :
    /\ result[i].signed = ~ ro.insecure
    /\ result[i].kind = "export" =>
         \E k \in 1..Len(completed) :
           /\ ~ completed[k].error
           /\ result[i].of = <<completed[k].attestor>>
           /\ phase = "export" => k <= cursor

ExportsAreOrdered ==
  \A i, j \in 1..Len(result) :
    i < j /\ result[j].kind = "export" => ~ Before(result[j].of[1], result[i].of[1])

\* A MultiExporter is left in the middle, the others are done at once.
ExportsAreCounted ==
  phase \in {"export", "collect", "nil"} =>
    /\ phase = "export" /\ item > 1 =>
         /\ cursor <= Len(completed)
         /\ completed[cursor].attestor \in ro.multiExporters
    /\ \A a \in Attestor :
         Cardinality(Exports(a)) = IF Passed(a) THEN Quota(a)
                                   ELSE IF phase = "export" /\ At(cursor, a) THEN item - 1
                                   ELSE 0

\* The filter takes what it is to take, each attestor once and in order.
MembersAreSound ==
  /\ \A i \in 1..Len(members) :
       \E k \in 1..Len(completed) : /\ k < Filtering \/ phase = "error"
                                    /\ ForCollection(completed[k])
                                    /\ completed[k].attestor = members[i]
  /\ \A k \in 1..Len(completed) :
       k < Filtering /\ ForCollection(completed[k]) =>
         \E i \in 1..Len(members) : members[i] = completed[k].attestor
  /\ \A i, j \in 1..Len(members) :
       i < j => members[i] # members[j] /\ ~ Before(members[j], members[i])

RInv ==
  /\ Inv /\ RTypes /\ Behind /\ OneCollection /\ ExportsAreSound
  /\ ExportsAreOrdered /\ ExportsAreCounted /\ MembersAreSound

-----------------------------------------------------------------------------
(* The list, and the context once RunAttestors has returned                *)

\* The list of completed attestors, as the two loops read it: each attestor is
\* there once, and none is behind one of a later run type.
LEMMA ListFacts ==
  ASSUME Inv
  PROVE  /\ Len(completed) \in Nat
         /\ DOMAIN completed = 1..Len(completed)
         /\ \A k \in 1..Len(completed) :
              /\ completed[k].attestor \in Attestor
              /\ completed[k].error \in BOOLEAN
              /\ completed[k] = Completed(completed[k].attestor, completed[k].error)
         /\ \A k, m \in 1..Len(completed) :
              completed[k].attestor = completed[m].attestor => k = m
         /\ \A k, m \in 1..Len(completed) :
              k <= m => ~ Before(completed[m].attestor, completed[k].attestor)
<1>1. TypeOK /\ StagesAreOrdered
      /\ completed \in Seq([attestor : Attestor, error : BOOLEAN])
  BY DEF Inv, TypeOK
<1>2. Len(completed) \in Nat /\ DOMAIN completed = 1..Len(completed)
  BY <1>1
<1>3. \A k \in 1..Len(completed) :
        /\ completed[k].attestor \in Attestor
        /\ completed[k].error \in BOOLEAN
        /\ completed[k] = Completed(completed[k].attestor, completed[k].error)
  BY <1>1, <1>2, EntryFacts
<1>4. \A k, m \in 1..Len(completed) :
        k < m => /\ completed[k].attestor # completed[m].attestor
                 /\ ~ Before(completed[m].attestor, completed[k].attestor)
  BY <1>1, <1>2 DEF StagesAreOrdered
<1>5. \A k, m \in 1..Len(completed) :
        completed[k].attestor = completed[m].attestor => k = m
  BY <1>2, <1>4
<1>6. \A k \in 1..Len(completed) :
        ~ Before(completed[k].attestor, completed[k].attestor)
  BY <1>1, BeforeIsStrict
<1>7. \A k, m \in 1..Len(completed) :
        k <= m => ~ Before(completed[m].attestor, completed[k].attestor)
  BY <1>2, <1>4, <1>6
<1> QED
  BY <1>2, <1>3, <1>5, <1>7

\* A position of the list without an error is that of its attestor.
LEMMA AtFacts ==
  ASSUME Inv
  PROVE  /\ \A k \in 1..Len(completed) : \A a :
              At(k, a) <=> ~ completed[k].error /\ completed[k].attestor = a
         /\ \A k, m, a : At(k, a) /\ At(m, a) => k = m
<1>1. \A k \in 1..Len(completed) : \A a :
        At(k, a) <=> ~ completed[k].error /\ completed[k].attestor = a
  <2> SUFFICES ASSUME NEW k \in 1..Len(completed), NEW a
               PROVE  At(k, a) <=> ~ completed[k].error /\ completed[k].attestor = a
    OBVIOUS
  <2>1. /\ completed[k] = Completed(completed[k].attestor, completed[k].error)
        /\ completed[k].error \in BOOLEAN
    BY ListFacts
  <2>2. Completed(a, FALSE).attestor = a /\ ~ Completed(a, FALSE).error
    BY DEF Completed
  <2>3. ~ completed[k].error => completed[k].error = FALSE
    BY <2>1
  <2> QED
    BY <2>1, <2>2, <2>3 DEF At
<1> QED
  BY <1>1, ListFacts DEF At

\* What a step of run() that leaves the context alone leaves as it was.
LEMMA SameContext ==
  ASSUME RInv, UNCHANGED <<vars, ro>>
  PROVE  /\ Inv'
         /\ UNCHANGED <<config, main, order, completed, materials>>
         /\ ro' \in RunOptions
         /\ \A p \in Path : materials'[p] # None => p \in config'.materials[materials'[p]]
         /\ \A a, b : Before(a, b)' <=> Before(a, b)
         /\ \A k, a : At(k, a)' <=> At(k, a)
         /\ \A a : Quota(a)' = Quota(a)
         /\ \A c : ForCollection(c)' <=> ForCollection(c)
<1>1. UNCHANGED <<config, main, order, completed, materials>> /\ ro' = ro
  BY DEF vars
<1>2. Inv'
  BY InvStep DEF RInv
<1>3. \A a, b : Before(a, b)' <=> Before(a, b)
  BY <1>1 DEF Before
<1>4. \A k, a : At(k, a)' <=> At(k, a)
  BY <1>1 DEF At
<1>5. \A a : Quota(a)' = Quota(a)
  BY <1>1 DEF Quota
<1>6. \A c : ForCollection(c)' <=> ForCollection(c)
  BY <1>1 DEF ForCollection
<1> QED
  BY <1>1, <1>2, <1>3, <1>4, <1>5, <1>6 DEF RInv, RTypes, Behind

-----------------------------------------------------------------------------
(* The results                                                             *)

\* The positions of an attestor's own envelopes are finitely many.
LEMMA ExportsAreFinite ==
  ASSUME RTypes, NEW a
  PROVE  IsFiniteSet(Exports(a)) /\ Exports(a) \subseteq 1..Len(result)
<1>1. DOMAIN result = 1..Len(result) /\ Len(result) \in Nat
  BY DEF RTypes
<1>2. Exports(a) \subseteq 1..Len(result)
  BY <1>1 DEF Exports
<1>3. IsFiniteSet(1..Len(result))
  BY <1>1, FS_Interval
<1> QED
  BY <1>2, <1>3, FS_Subset

\* A result is added at the end and counts for the attestor it is of.
LEMMA AppendResult ==
  ASSUME RTypes, NEW r \in RunResult, result' = Append(result, r)
  PROVE  /\ result' \in Seq(RunResult)
         /\ Len(result) \in Nat
         /\ Len(result') = Len(result) + 1
         /\ \A i \in 1..Len(result) : result'[i] = result[i]
         /\ result'[Len(result')] = r
         /\ r.kind = "collection" => \A a : Exports(a)' = Exports(a)
         /\ \A a : r.kind = "export" /\ r.of = <<a>> =>
              /\ Cardinality(Exports(a)') = Cardinality(Exports(a)) + 1
              /\ \A b : b # a => Exports(b)' = Exports(b)
<1>1. /\ result \in Seq(RunResult)
      /\ Len(result) \in Nat /\ DOMAIN result = 1..Len(result)
  BY DEF RTypes
<1>2. /\ result' \in Seq(RunResult)
      /\ Len(result') = Len(result) + 1 /\ DOMAIN result' = 1..(Len(result) + 1)
      /\ \A i \in 1..Len(result) : result'[i] = result[i]
      /\ result'[Len(result) + 1] = r
  BY <1>1
<1>3. \A a : Exports(a)' = Exports(a) \cup
        (IF r.kind = "export" /\ r.of = <<a>> THEN {Len(result) + 1} ELSE {})
  <2> TAKE a
  <2>1. Exports(a)' = {i \in 1..(Len(result) + 1) :
                         result'[i].kind = "export" /\ result'[i].of = <<a>>}
    BY <1>2 DEF Exports
  <2>2. Exports(a) = {i \in 1..Len(result) :
                        result[i].kind = "export" /\ result[i].of = <<a>>}
    BY <1>1 DEF Exports
  <2> QED
    BY <1>1, <1>2, <2>1, <2>2
<1>4. r.kind = "collection" => \A a : Exports(a)' = Exports(a)
  BY <1>3
<1>5. ASSUME NEW a, r.kind = "export", r.of = <<a>>
      PROVE  /\ Cardinality(Exports(a)') = Cardinality(Exports(a)) + 1
             /\ \A b : b # a => Exports(b)' = Exports(b)
  <2>1. Exports(a)' = Exports(a) \cup {Len(result) + 1}
    BY <1>3, <1>5
  <2>2. \A b : b # a => <<a>> # <<b>>
    OBVIOUS
  <2>3. \A b : b # a => Exports(b)' = Exports(b)
    BY <1>3, <1>5, <2>2
  <2>4. IsFiniteSet(Exports(a)) /\ Len(result) + 1 \notin Exports(a)
    BY <1>1, ExportsAreFinite
  <2>5. Cardinality(Exports(a) \cup {Len(result) + 1}) = Cardinality(Exports(a)) + 1
    BY <2>4, FS_AddElement
  <2> QED
    BY <2>1, <2>3, <2>5
<1> QED
  BY <1>1, <1>2, <1>4, <1>5

-----------------------------------------------------------------------------
(* The steps of run()                                                      *)

\* Returning an error adds nothing to the results and keeps what was made.
LEMMA ErrorStep ==
  ASSUME RInv, UNCHANGED <<vars, ro, members, result>>,
         phase # "nil", phase' = "error",
         cursor' \in Nat \ {0}, item' \in 1..(NExported + 1)
  PROVE  RInv'
<1>1. /\ Inv' /\ UNCHANGED <<config, main, completed, materials, ro, result, members>>
      /\ \A a, b : Before(a, b)' <=> Before(a, b)
      /\ \A c : ForCollection(c)' <=> ForCollection(c)
  BY SameContext
<1>2. RTypes'
  BY <1>1 DEF RInv, RTypes
<1>3. Behind'
  BY <1>1 DEF RInv, Behind
<1>4. OneCollection'
  BY <1>1 DEF RInv, OneCollection
<1>5. ExportsAreSound'
  BY <1>1 DEF RInv, ExportsAreSound
<1>6. ExportsAreOrdered'
  BY <1>1 DEF RInv, ExportsAreOrdered
<1>7. ExportsAreCounted'
  BY DEF ExportsAreCounted
<1>8. MembersAreSound'
  <2>1. Filtering' = 1
    BY DEF Filtering
  <2>2. \A k \in 1..Len(completed) : ~ (k < Filtering')
    BY <2>1, ListFacts DEF RInv
  <2> QED
    BY <1>1, <2>2 DEF RInv, MembersAreSound
<1> QED
  BY <1>1, <1>2, <1>3, <1>4, <1>5, <1>6, <1>7, <1>8 DEF RInv

\* What the invariant says of the entry the export loop is at.
LEMMA CursorFacts ==
  ASSUME RInv, phase = "export"
  PROVE  /\ main = "nil"
         /\ cursor \in Nat \ {0} /\ item \in 1..(NExported + 1)
         /\ \A a : Passed(a) <=> \E k \in 1..Len(completed) : k < cursor /\ At(k, a)
         /\ \A a : At(cursor, a) => ~ Passed(a)
         /\ \A a \in Attestor :
              Cardinality(Exports(a)) = IF Passed(a) THEN Quota(a)
                                        ELSE IF At(cursor, a) THEN item - 1 ELSE 0
<1>1. /\ main = "nil"
      /\ cursor \in Nat \ {0} /\ item \in 1..(NExported + 1)
  BY DEF RInv, Behind, RTypes
<1>2. \A a : Passed(a) <=> \E k \in 1..Len(completed) : k < cursor /\ At(k, a)
  BY DEF Passed, Exporting
<1>3. \A a : At(cursor, a) => ~ Passed(a)
  <2>1. \A k, m, a : At(k, a) /\ At(m, a) => k = m
    BY AtFacts DEF RInv
  <2> QED
    BY <1>1, <1>2, <2>1, ListFacts DEF RInv
<1>4. \A a \in Attestor :
        Cardinality(Exports(a)) = IF Passed(a) THEN Quota(a)
                                  ELSE IF At(cursor, a) THEN item - 1 ELSE 0
  BY DEF RInv, ExportsAreCounted
<1> QED
  BY <1>1, <1>2, <1>3, <1>4

\* The loop goes on to the next entry: what the entry gets is settled.
LEMMA CountAdvance ==
  ASSUME RInv, phase = "export", phase' = "export", cursor <= Len(completed),
         Advance, UNCHANGED <<vars, ro>>,
         \A a \in Attestor :
           Cardinality(Exports(a)') = IF Passed(a) \/ At(cursor, a) THEN Quota(a) ELSE 0
  PROVE  ExportsAreCounted'
<1>1. /\ completed' = completed
      /\ \A k, a : At(k, a)' <=> At(k, a)
      /\ \A a : Quota(a)' = Quota(a)
  BY SameContext
<1>2. /\ cursor \in Nat \ {0} /\ cursor' = cursor + 1 /\ item' = 1
      /\ Len(completed) \in Nat /\ cursor \in 1..Len(completed)
  BY CursorFacts, ListFacts DEF Advance, RInv
<1>3. \A a : Passed(a)' <=> Passed(a) \/ At(cursor, a)
  <2> TAKE a
  <2>1. Passed(a) <=> \E k \in 1..Len(completed) : k < cursor /\ At(k, a)
    BY CursorFacts
  <2>2. Passed(a)' <=> \E k \in 1..Len(completed) : k < cursor + 1 /\ At(k, a)
    BY <1>1, <1>2 DEF Passed, Exporting
  <2>3. \A k \in 1..Len(completed) : k < cursor + 1 <=> k < cursor \/ k = cursor
    BY <1>2
  <2> QED
    BY <1>2, <2>1, <2>2, <2>3
<1>4. \A a \in Attestor :
        Cardinality(Exports(a)') =
          IF Passed(a)' THEN Quota(a)'
          ELSE IF phase' = "export" /\ At(cursor, a)' THEN item' - 1 ELSE 0
  BY <1>1, <1>2, <1>3
<1>5. ~ (item' > 1)
  BY <1>2
<1> QED
  BY <1>4, <1>5 DEF ExportsAreCounted

\* The invariant but for the number of envelopes.
Uncounted ==
  /\ Inv /\ RTypes /\ Behind /\ OneCollection /\ ExportsAreSound
  /\ ExportsAreOrdered /\ MembersAreSound

\* In the export loop the filter has not begun.
LEMMA NoMembersYet ==
  ASSUME RInv, phase = "export", phase' = "export",
         UNCHANGED <<vars, ro, members>>
  PROVE  MembersAreSound'
<1>1. completed' = completed /\ \A c : ForCollection(c)' <=> ForCollection(c)
  BY SameContext
<1>2. /\ \A a, b : Before(a, b)' <=> Before(a, b)
      /\ Filtering' = Filtering
  BY SameContext DEF Filtering
<1> QED
  BY <1>1, <1>2 DEF RInv, MembersAreSound

\* The loop moves without making an envelope.
LEMMA LoopKeeps ==
  ASSUME RInv, phase = "export", phase' = "export",
         UNCHANGED <<vars, ro, members, result>>,
         cursor' = cursor + 1, item' = 1
  PROVE  Uncounted'
<1>1. /\ Inv' /\ UNCHANGED <<config, main, completed, materials, ro, result, members>>
      /\ \A a, b : Before(a, b)' <=> Before(a, b)
  BY SameContext
<1>2. cursor \in Nat /\ cursor' \in Nat \ {0} /\ 1 \in 1..(NExported + 1)
  BY CursorFacts, NExportedAssumption
<1>3. RTypes'
  BY <1>1, <1>2 DEF RInv, RTypes
<1>4. Behind'
  BY <1>1 DEF RInv, Behind
<1>5. OneCollection'
  BY <1>1 DEF RInv, OneCollection
<1>6. ExportsAreSound'
  <2>1. \A k \in 1..Len(completed) : k <= cursor => k <= cursor'
    BY <1>2, ListFacts DEF RInv
  <2> QED
    BY <1>1, <2>1 DEF RInv, ExportsAreSound
<1>7. ExportsAreOrdered'
  BY <1>1 DEF RInv, ExportsAreOrdered
<1> QED
  BY <1>1, <1>3, <1>4, <1>5, <1>6, <1>7, NoMembersYet DEF Uncounted

\* The loop makes an envelope of the entry it is at.
LEMMA LoopExports ==
  ASSUME RInv, phase = "export", phase' = "export", cursor <= Len(completed),
         ~ completed[cursor].error, NEW n \in Nat, NEW c, c = Current,
         result' = Append(result, ExportResult(c, n)),
         UNCHANGED <<vars, ro, members>>,
         cursor' \in {cursor, cursor + 1}, item' \in 1..(NExported + 1)
  PROVE  /\ Uncounted'
         /\ c \in Attestor /\ \A a : At(cursor, a) <=> a = c
         /\ Cardinality(Exports(c)') = Cardinality(Exports(c)) + 1
         /\ \A b : b # c => Exports(b)' = Exports(b)
<1> DEFINE r == ExportResult(c, n)
<1>0. /\ cursor \in 1..Len(completed) /\ Len(completed) \in Nat
      /\ c \in Attestor /\ c = completed[cursor].attestor
  BY CursorFacts, ListFacts DEF RInv, Current
<1>1. /\ Inv' /\ UNCHANGED <<config, main, completed, materials, ro, members>>
      /\ \A a, b : Before(a, b)' <=> Before(a, b)
  BY SameContext
<1>2. \A a : At(cursor, a) <=> a = c
  BY <1>0, AtFacts DEF RInv
<1>3. /\ r \in RunResult /\ r.kind = "export" /\ r.of = <<c>>
      /\ r.signed = ~ ro.insecure
  BY <1>0 DEF ExportResult, RunResult
<1>4. /\ result' \in Seq(RunResult) /\ Len(result) \in Nat
      /\ Len(result') = Len(result) + 1
      /\ \A i \in 1..Len(result) : result'[i] = result[i]
      /\ result'[Len(result')] = r
      /\ Cardinality(Exports(c)') = Cardinality(Exports(c)) + 1
      /\ \A b : b # c => Exports(b)' = Exports(b)
  <2> HIDE DEF r
  <2>1. RTypes
    BY DEF RInv
  <2> QED
    BY <1>3, <2>1, AppendResult DEF r
<1>5. \A i \in 1..Len(result') : i \in 1..Len(result) \/ i = Len(result')
  BY <1>4
<1> HIDE DEF r
<1>6. RTypes'
  <2>1. cursor' \in Nat \ {0}
    BY <1>0
  <2> QED
    BY <1>1, <1>4, <2>1 DEF RInv, RTypes
<1>7. Behind'
  BY <1>1 DEF RInv, Behind
<1>8. OneCollection'
  <2>1. \A i \in 1..Len(result') : result'[i].kind = "export"
    BY <1>3, <1>4, <1>5 DEF RInv, OneCollection
  <2> QED
    BY <2>1 DEF OneCollection
<1>9. \A i \in 1..Len(result) : result[i].kind = "export" /\
        \E k \in 1..Len(completed) :
          /\ ~ completed[k].error
          /\ result[i].of = <<completed[k].attestor>>
          /\ k <= cursor
  BY DEF RInv, OneCollection, ExportsAreSound
<1>10. ExportsAreSound'
  <2>1. cursor <= cursor' /\ \A k \in 1..Len(completed) : k <= cursor => k <= cursor'
    BY <1>0
  <2>2. \A i \in 1..Len(result') : result'[i].signed = ~ ro'.insecure
    BY <1>1, <1>3, <1>4, <1>5 DEF RInv, ExportsAreSound
  <2>3. \A i \in 1..Len(result) :
          \E k \in 1..Len(completed) :
            /\ ~ completed[k].error
            /\ result'[i].of = <<completed[k].attestor>>
            /\ k <= cursor'
    BY <1>4, <1>9, <2>1
  <2>4. \E k \in 1..Len(completed) :
          /\ ~ completed[k].error
          /\ result'[Len(result')].of = <<completed[k].attestor>>
          /\ k <= cursor'
    BY <1>0, <1>3, <1>4, <2>1
  <2> QED
    BY <1>1, <1>5, <2>2, <2>3, <2>4 DEF ExportsAreSound
<1>11. ExportsAreOrdered'
  <2>1. \A i, j \in 1..Len(result) :
          i < j => ~ Before(result[j].of[1], result[i].of[1])
    BY <1>9 DEF RInv, ExportsAreOrdered
  <2>2. ASSUME NEW i \in 1..Len(result)
        PROVE  ~ Before(c, result[i].of[1])
    <3>1. PICK k \in 1..Len(completed) :
            result[i].of = <<completed[k].attestor>> /\ k <= cursor
      BY <1>9
    <3>2. result[i].of[1] = completed[k].attestor
      BY <3>1
    <3> QED
      BY <1>0, <3>1, <3>2, ListFacts DEF RInv
  <2>3. r.of[1] = c
    BY <1>3
  <2>4. ASSUME NEW i \in 1..Len(result'), NEW j \in 1..Len(result'), i < j
        PROVE  ~ Before(result'[j].of[1], result'[i].of[1])
    <3>1. i \in 1..Len(result)
      BY <1>4, <2>4
    <3>2. CASE j = Len(result')
      BY <1>4, <2>2, <2>3, <3>1, <3>2
    <3>3. CASE j \in 1..Len(result)
      BY <1>4, <2>1, <2>4, <3>1, <3>3
    <3> QED
      BY <1>5, <3>2, <3>3
  <2> QED
    BY <1>1, <2>4 DEF ExportsAreOrdered
<1> QED
  BY <1>0, <1>1, <1>2, <1>4, <1>6, <1>7, <1>8, <1>10, <1>11, NoMembersYet
     DEF Uncounted

\* A failed attestor gets no envelope.
LEMMA CollectErrorStep == RInv /\ CollectError => RInv'
<1> SUFFICES ASSUME RInv, CollectError PROVE RInv'
  OBVIOUS
<1>1. /\ phase = "export" /\ phase' = "export" /\ cursor <= Len(completed)
      /\ completed[cursor].error /\ Advance
      /\ UNCHANGED <<vars, ro, members, result>>
  BY DEF CollectError
<1>2. Uncounted'
  BY <1>1, LoopKeeps DEF Advance
<1>3. \A a : ~ At(cursor, a)
  <2>1. cursor \in 1..Len(completed)
    BY <1>1, CursorFacts, ListFacts DEF RInv
  <2> QED
    BY <1>1, <2>1, AtFacts DEF RInv
<1>4. \A a : Exports(a)' = Exports(a)
  BY <1>1 DEF Exports
<1>5. \A a \in Attestor :
        Cardinality(Exports(a)') = IF Passed(a) \/ At(cursor, a) THEN Quota(a) ELSE 0
  BY <1>1, <1>3, <1>4, CursorFacts
<1>6. ExportsAreCounted'
  BY <1>1, <1>5, CountAdvance
<1> QED
  BY <1>2, <1>6 DEF Uncounted, RInv

\* The entry of a MultiExporter: an envelope more, an error, or its last one
\* has been made.
LEMMA ExportItemStep == RInv /\ ExportItem => RInv'
<1> SUFFICES ASSUME RInv, ExportItem PROVE RInv'
  OBVIOUS
<1>0. /\ phase = "export" /\ cursor <= Len(completed)
      /\ ~ completed[cursor].error /\ Current \in ro.multiExporters
      /\ UNCHANGED <<vars, ro, members>>
  BY DEF ExportItem
<1>t. /\ cursor \in Nat \ {0} /\ item \in Nat \ {0} /\ NExported \in Nat
      /\ item \in 1..(NExported + 1)
      /\ Len(completed) \in Nat /\ cursor \in 1..Len(completed)
  BY <1>0, CursorFacts, ListFacts, NExportedAssumption DEF RInv
<1>c. /\ \A a : At(cursor, a) => ~ Passed(a)
      /\ \A a \in Attestor :
           Cardinality(Exports(a)) = IF Passed(a) THEN Quota(a)
                                     ELSE IF At(cursor, a) THEN item - 1 ELSE 0
  BY <1>0, CursorFacts
<1>1. CASE item <= NExported
  <2>1. /\ item' = item + 1 /\ cursor' = cursor
        /\ SignOrFail(ExportResult(Current, item))
    BY <1>1 DEF ExportItem
  <2>2. item' \in 1..(NExported + 1) /\ cursor' \in Nat \ {0}
    BY <1>1, <1>t, <2>1
  <2>3. CASE phase' = "error" /\ UNCHANGED result
    BY <1>0, <2>2, <2>3, ErrorStep
  <2>4. ASSUME NEW c, c = Current, result' = Append(result, ExportResult(c, item)),
               phase' = phase
        PROVE  RInv'
    <3>1. /\ Uncounted' /\ c \in Attestor /\ \A a : At(cursor, a) <=> a = c
          /\ Cardinality(Exports(c)') = Cardinality(Exports(c)) + 1
          /\ \A b : b # c => Exports(b)' = Exports(b)
      BY <1>0, <1>t, <2>1, <2>2, <2>4, LoopExports
    <3>2. /\ completed' = completed /\ ro' = ro
          /\ \A k, a : At(k, a)' <=> At(k, a)
          /\ \A a : Quota(a)' = Quota(a)
      BY <1>0, SameContext
    <3>3. \A a : Passed(a)' <=> Passed(a)
      BY <1>0, <2>1, <2>4, <3>2 DEF Passed, Exporting
    <3>4. \A a : At(cursor, a)' <=> a = c
      BY <2>1, <3>1, <3>2 DEF At
    <3>5. ASSUME NEW a \in Attestor
          PROVE  Cardinality(Exports(a)') =
                   IF Passed(a)' THEN Quota(a)'
                   ELSE IF phase' = "export" /\ At(cursor, a)' THEN item' - 1 ELSE 0
      <4>1. CASE a = c
        <5>1. ~ Passed(a) /\ Cardinality(Exports(a)) = item - 1
          BY <1>c, <3>1, <4>1
        <5>2. Cardinality(Exports(a)') = item' - 1
          BY <1>t, <2>1, <3>1, <4>1, <5>1
        <5> QED
          BY <1>0, <2>4, <3>3, <3>4, <4>1, <5>1, <5>2
      <4>2. CASE a # c
        <5>1. Cardinality(Exports(a)') = IF Passed(a) THEN Quota(a) ELSE 0
          BY <1>c, <3>1, <4>2
        <5> QED
          BY <3>2, <3>3, <3>4, <4>2, <5>1
      <4> QED
        BY <4>1, <4>2
    <3>6. cursor' <= Len(completed') /\ completed'[cursor'].attestor \in ro'.multiExporters
      BY <1>0, <2>1, <3>2 DEF Current
    <3>7. ExportsAreCounted'
      BY <3>5, <3>6 DEF ExportsAreCounted
    <3> QED
      BY <3>1, <3>7 DEF Uncounted, RInv
  <2> QED
    BY <2>1, <2>3, <2>4 DEF SignOrFail
<1>2. CASE ~ (item <= NExported)
  <2>1. Advance /\ UNCHANGED <<phase, result>>
    BY <1>2 DEF ExportItem
  <2>2. item = NExported + 1
    BY <1>2, <1>t
  <2>3. Uncounted'
    BY <1>0, <2>1, LoopKeeps DEF Advance
  <2>4. \A a : Exports(a)' = Exports(a)
    BY <2>1 DEF Exports
  <2>5. \A a : At(cursor, a) => Quota(a) = NExported
    BY <1>0, <1>t, AtFacts DEF RInv, Quota, Current
  <2>6. item - 1 = NExported
    BY <1>t, <2>2
  <2>7. \A a \in Attestor :
          Cardinality(Exports(a)') = IF Passed(a) \/ At(cursor, a) THEN Quota(a) ELSE 0
    BY <1>c, <2>4, <2>5, <2>6
  <2>8. ExportsAreCounted'
    BY <1>0, <2>1, <2>7, CountAdvance
  <2> QED
    BY <2>3, <2>8 DEF Uncounted, RInv
<1> QED
  BY <1>1, <1>2

\* The entry of any other attestor: its one envelope, an error, or none.
LEMMA ExportOneStep == RInv /\ ExportOne => RInv'
<1> SUFFICES ASSUME RInv, ExportOne PROVE RInv'
  OBVIOUS
<1>0. /\ phase = "export" /\ cursor <= Len(completed)
      /\ ~ completed[cursor].error /\ Current \notin ro.multiExporters
      /\ Advance /\ cursor' = cursor + 1 /\ item' = 1
      /\ UNCHANGED <<vars, ro, members>>
  BY DEF ExportOne, Advance
<1>t. /\ cursor \in Nat \ {0} /\ item \in 1..(NExported + 1) /\ NExported \in Nat
      /\ Len(completed) \in Nat /\ cursor \in 1..Len(completed)
      /\ cursor' \in Nat \ {0} /\ item' \in 1..(NExported + 1)
  BY <1>0, CursorFacts, ListFacts, NExportedAssumption DEF RInv
<1>1. item = 1
  <2>1. ~ (item > 1)
    BY <1>0 DEF RInv, ExportsAreCounted, Current
  <2> QED
    BY <1>t, <2>1
<1>c. /\ \A a : At(cursor, a) => ~ Passed(a)
      /\ \A a \in Attestor : Cardinality(Exports(a)) = IF Passed(a) THEN Quota(a) ELSE 0
  BY <1>0, <1>1, CursorFacts
<1>2. CASE Current \in ro.exporters \cap ro.exporting
  <2>1. SignOrFail(ExportResult(Current, 0))
    BY <1>2 DEF ExportOne
  <2>2. CASE phase' = "error" /\ UNCHANGED result
    BY <1>0, <1>t, <2>2, ErrorStep
  <2>3. ASSUME NEW c, c = Current, result' = Append(result, ExportResult(c, 0)),
               phase' = phase
        PROVE  RInv'
    <3>1. /\ Uncounted' /\ c \in Attestor /\ \A a : At(cursor, a) <=> a = c
          /\ Cardinality(Exports(c)') = Cardinality(Exports(c)) + 1
          /\ \A b : b # c => Exports(b)' = Exports(b)
      BY <1>0, <1>t, <2>3, LoopExports
    <3>2. Quota(c) = 1
      BY <1>0, <1>2, <2>3 DEF Quota
    <3>3. \A a \in Attestor :
            Cardinality(Exports(a)') = IF Passed(a) \/ At(cursor, a) THEN Quota(a) ELSE 0
      BY <1>c, <3>1, <3>2
    <3>4. ExportsAreCounted'
      BY <1>0, <2>3, <3>3, CountAdvance
    <3> QED
      BY <3>1, <3>4 DEF Uncounted, RInv
  <2> QED
    BY <2>1, <2>2, <2>3 DEF SignOrFail
<1>3. CASE Current \notin ro.exporters \cap ro.exporting
  <2>1. UNCHANGED <<phase, result>>
    BY <1>3 DEF ExportOne
  <2>2. Uncounted'
    BY <1>0, <2>1, LoopKeeps
  <2>3. \A a : Exports(a)' = Exports(a)
    BY <2>1 DEF Exports
  <2>4. \A a : At(cursor, a) => Quota(a) = 0
    BY <1>0, <1>3, <1>t, AtFacts DEF RInv, Quota, Current
  <2>5. \A a \in Attestor :
          Cardinality(Exports(a)') = IF Passed(a) \/ At(cursor, a) THEN Quota(a) ELSE 0
    BY <1>c, <2>3, <2>4
  <2>6. ExportsAreCounted'
    BY <1>0, <2>1, <2>5, CountAdvance
  <2> QED
    BY <2>2, <2>6 DEF Uncounted, RInv
<1> QED
  BY <1>2, <1>3

\* The export loop is over: every entry is passed and the filter begins.
LEMMA CheckErrorsStep == RInv /\ CheckErrors => RInv'
<1> SUFFICES ASSUME RInv, CheckErrors PROVE RInv'
  OBVIOUS
<1>0. /\ phase = "export" /\ cursor = Len(completed) + 1
      /\ phase' \in {"error", "collect"} /\ cursor' = 1
      /\ UNCHANGED <<vars, ro, item, members, result>>
  BY DEF CheckErrors
<1>t. cursor' \in Nat \ {0} /\ item' \in 1..(NExported + 1)
  BY <1>0, CursorFacts
<1>1. CASE phase' = "error"
  BY <1>0, <1>1, <1>t, ErrorStep
<1>2. CASE phase' = "collect"
  <2>1. /\ Inv' /\ UNCHANGED <<config, main, completed, materials, ro, result, members>>
        /\ \A a, b : Before(a, b)' <=> Before(a, b)
        /\ \A k, a : At(k, a)' <=> At(k, a)
        /\ \A a : Quota(a)' = Quota(a)
        /\ \A c : ForCollection(c)' <=> ForCollection(c)
    BY <1>0, SameContext
  <2>2. RTypes'
    BY <1>0, <1>2, <1>t, <2>1 DEF RInv, RTypes
  <2>3. Behind'
    BY <1>0, <2>1 DEF RInv, Behind
  <2>4. OneCollection'
    BY <1>0, <1>2, <2>1 DEF RInv, OneCollection
  <2>5. ExportsAreSound'
    BY <1>0, <1>2, <2>1 DEF RInv, ExportsAreSound
  <2>6. ExportsAreOrdered'
    BY <2>1 DEF RInv, ExportsAreOrdered
  <2>7. ExportsAreCounted'
    <3>1. \A a : Exports(a)' = Exports(a)
      BY <2>1 DEF Exports
    <3>2. \A a : Passed(a)' <=> Passed(a)
      BY <1>0, <1>2, <2>1 DEF Passed, Exporting
    <3>3. \A a : ~ At(cursor, a)
      <4>1. Len(completed) \in Nat
        BY ListFacts DEF RInv
      <4>2. cursor \notin 1..Len(completed)
        BY <1>0, <4>1
      <4> QED
        BY <4>2 DEF At
    <3>4. \A a \in Attestor :
            Cardinality(Exports(a)) = IF Passed(a) THEN Quota(a) ELSE 0
      BY <1>0, <3>3, CursorFacts
    <3> QED
      BY <1>2, <2>1, <3>1, <3>2, <3>4 DEF ExportsAreCounted
  <2>8. MembersAreSound'
    <3>1. Filtering' = Filtering
      BY <1>0, <1>2 DEF Filtering
    <3> QED
      BY <1>0, <2>1, <3>1 DEF RInv, MembersAreSound
  <2> QED
    BY <2>1, <2>2, <2>3, <2>4, <2>5, <2>6, <2>7, <2>8 DEF RInv
<1> QED
  BY <1>0, <1>1, <1>2

\* Until the export loop is over there are no members, and until it begins
\* there are no results.
LEMMA NothingMade ==
  ASSUME RInv
  PROVE  /\ phase \in {"validate", "attest", "export"} => Len(members) = 0
         /\ phase \in {"validate", "attest"} =>
              /\ result = <<>> /\ Len(result) = 0 /\ cursor = 1 /\ item = 1
              /\ \A a : Exports(a) = {}
<1>1. ASSUME phase \in {"validate", "attest", "export"}
      PROVE  Len(members) = 0
  <2>1. Filtering = 1
    BY <1>1 DEF Filtering
  <2>2. \A k \in 1..Len(completed) : ~ (k < Filtering)
    BY <2>1, ListFacts DEF RInv
  <2>3. \A i \in 1..Len(members) : FALSE
    BY <1>1, <2>2 DEF RInv, MembersAreSound
  <2>4. Len(members) \in Nat
    BY DEF RInv, RTypes
  <2> QED
    BY <2>3, <2>4
<1>2. ASSUME phase \in {"validate", "attest"}
      PROVE  /\ result = <<>> /\ Len(result) = 0 /\ cursor = 1 /\ item = 1
             /\ \A a : Exports(a) = {}
  <2>1. result = <<>> /\ cursor = 1 /\ item = 1
    BY <1>2 DEF RInv, OneCollection
  <2>2. Len(result) = 0 /\ DOMAIN result = {}
    BY <2>1
  <2> QED
    BY <2>1, <2>2 DEF Exports
<1> QED
  BY <1>1, <1>2

\* With nothing made, the invariant is about the context alone.
LEMMA NothingToSay ==
  ASSUME Inv, RTypes, Behind, phase \in {"validate", "attest", "export"},
         result = <<>>, members = <<>>, cursor = 1, item = 1
  PROVE  RInv
<1>1. Len(result) = 0 /\ DOMAIN result = {} /\ Len(members) = 0
  OBVIOUS
<1>2. Len(completed) \in Nat
  BY ListFacts
<1>3. OneCollection
  BY <1>1 DEF OneCollection
<1>4. ExportsAreSound /\ ExportsAreOrdered
  BY <1>1 DEF ExportsAreSound, ExportsAreOrdered
<1>5. ExportsAreCounted
  <2>1. \A a : Exports(a) = {} /\ Cardinality(Exports(a)) = 0
    BY <1>1, FS_EmptySet DEF Exports
  <2>2. phase = "export" => \A a : ~ Passed(a)
    BY <1>2 DEF Passed, Exporting
  <2>3. ~ (item > 1) /\ item - 1 = 0
    OBVIOUS
  <2> QED
    BY <2>1, <2>2, <2>3 DEF ExportsAreCounted
<1>6. MembersAreSound
  <2>1. Filtering = 1
    BY DEF Filtering
  <2>2. \A k \in 1..Len(completed) : ~ (k < Filtering)
    BY <1>2, <2>1
  <2> QED
    BY <1>1, <2>2 DEF MembersAreSound
<1> QED
  BY <1>3, <1>4, <1>5, <1>6 DEF RInv

\* A path in the map stays charged to an attestor that offered it.
LEMMA OfferedStep ==
  ASSUME Inv, [Next]_vars,
         \A p \in Path : materials[p] # None => p \in config.materials[materials[p]]
  PROVE  \A p \in Path : materials'[p] # None => p \in config'.materials[materials'[p]]
<1>1. ASSUME NEW a \in Attestor, AddMaterials(a)
      PROVE  \A p \in Path : materials'[p] # None => p \in config'.materials[materials'[p]]
  BY <1>1 DEF AddMaterials
<1> QED
  BY <1>1 DEF Next, RunAttestors, runAttestor, Group, StartStage, EndStage,
     WaitReturns, ReturnNil, Read, Fail, Succeed, AddProducts, vars

\* The steps before the export loop.
LEMMA EarlyStep == RInv /\ (Start \/ Attesting \/ Attested) => RInv'
<1> SUFFICES ASSUME RInv, Start \/ Attesting \/ Attested PROVE RInv'
  OBVIOUS
<1>0. /\ phase \in {"validate", "attest"}
      /\ UNCHANGED <<ro, cursor, item, members, result>>
  BY DEF Start, Attesting, Attested, runVars
<1>1. /\ Len(members) = 0 /\ result = <<>> /\ cursor = 1 /\ item = 1
  BY <1>0, NothingMade
<1>2. members = <<>>
  BY <1>1 DEF RInv, RTypes
<1>3. Inv /\ [Next]_vars
  BY DEF RInv, Start, Attesting, Attested
<1>4. Inv'
  BY <1>3, InvStep
<1>5. \A p \in Path : materials'[p] # None => p \in config'.materials[materials'[p]]
  BY <1>3, OfferedStep DEF RInv, Behind
<1>6. phase' \in {"attest", "export", "error"}
      /\ (phase' = "export" => main' = "nil")
      /\ (phase' = "error" => UNCHANGED vars)
  BY DEF Start, Attesting, Attested, vars, runVars
<1>7. CASE phase' = "error"
  <2>1. cursor' \in Nat \ {0} /\ item' \in 1..(NExported + 1)
    BY <1>0 DEF RInv, RTypes
  <2> QED
    BY <1>0, <1>6, <1>7, <2>1, ErrorStep
<1>8. CASE phase' \in {"attest", "export"}
  <2>1. RTypes'
    BY <1>0, <1>8 DEF RInv, RTypes
  <2>2. Behind'
    BY <1>5, <1>6, <1>8 DEF Behind
  <2>3. (Inv /\ RTypes /\ Behind /\ phase \in {"validate", "attest", "export"}
          /\ result = <<>> /\ members = <<>> /\ cursor = 1 /\ item = 1)'
    BY <1>0, <1>1, <1>2, <1>4, <1>8, <2>1, <2>2
  <2> QED
    BY <2>3, NothingToSay, PTL
<1> QED
  BY <1>6, <1>7, <1>8

\* The filter looks at an entry: a member is new, and of no earlier run type
\* than those before it.
LEMMA FilterStep == RInv /\ Filter => RInv'
<1> SUFFICES ASSUME RInv, Filter PROVE RInv'
  OBVIOUS
<1>0. /\ phase = "collect" /\ phase' = "collect" /\ cursor <= Len(completed)
      /\ cursor' = cursor + 1 /\ UNCHANGED <<vars, ro, item, result>>
  BY DEF Filter
<1>1. /\ Inv' /\ UNCHANGED <<config, main, completed, materials, ro, result>>
      /\ \A a, b : Before(a, b)' <=> Before(a, b)
      /\ \A k, a : At(k, a)' <=> At(k, a)
      /\ \A a : Quota(a)' = Quota(a)
      /\ \A c : ForCollection(c)' <=> ForCollection(c)
  BY <1>0, SameContext
<1>2. /\ cursor \in 1..Len(completed) /\ Len(completed) \in Nat
      /\ completed[cursor].attestor \in Attestor
      /\ members \in Seq(Attestor) /\ Len(members) \in Nat
  BY <1>0, ListFacts DEF RInv, RTypes
<1>3. /\ Filtering = cursor /\ Filtering' = cursor + 1
  BY <1>0 DEF Filtering
<1>m. /\ \A i \in 1..Len(members) :
           \E k \in 1..Len(completed) : /\ k < cursor
                                        /\ ForCollection(completed[k])
                                        /\ completed[k].attestor = members[i]
      /\ \A k \in 1..Len(completed) :
           k < cursor /\ ForCollection(completed[k]) =>
             \E i \in 1..Len(members) : members[i] = completed[k].attestor
      /\ \A i, j \in 1..Len(members) :
           i < j => members[i] # members[j] /\ ~ Before(members[j], members[i])
  BY <1>0, <1>3 DEF RInv, MembersAreSound
<1>4. /\ members' \in Seq(Attestor)
      /\ MembersAreSound'
  <2>0. \A k \in 1..Len(completed) :
          /\ k < cursor => k < cursor + 1
          /\ k < cursor + 1 => k < cursor \/ k = cursor
    BY <1>2
  <2>1. CASE ~ ForCollection(completed[cursor])
    <3>1. members' = members
      BY <2>1 DEF Filter
    <3>2. \A i \in 1..Len(members) :
            \E k \in 1..Len(completed) : /\ k < cursor + 1
                                         /\ ForCollection(completed[k])
                                         /\ completed[k].attestor = members[i]
      BY <1>m, <2>0
    <3>3. \A k \in 1..Len(completed) :
            k < cursor + 1 /\ ForCollection(completed[k]) =>
              \E i \in 1..Len(members) : members[i] = completed[k].attestor
      BY <1>m, <2>0, <2>1
    <3>4. MembersAreSound'
      BY <1>1, <1>3, <1>m, <3>1, <3>2, <3>3 DEF MembersAreSound
    <3> QED
      BY <1>2, <3>1, <3>4
  <2>2. CASE ForCollection(completed[cursor])
    <3> DEFINE c == completed[cursor].attestor
               n == Len(members) + 1
    <3>1. members' = Append(members, c)
      BY <2>2 DEF Filter, Current
    <3>2. /\ members' \in Seq(Attestor) /\ Len(members') = n
          /\ \A i \in 1..Len(members) : members'[i] = members[i]
          /\ members'[n] = c
      BY <1>2, <3>1
    <3>3. /\ \A i \in 1..n : i \in 1..Len(members) \/ i = n
          /\ n \in 1..n /\ 1..Len(members) \subseteq 1..n
      BY <1>2
    <3>4. \A i \in 1..Len(members) : members[i] # c /\ ~ Before(c, members[i])
      <4> TAKE i \in 1..Len(members)
      <4>1. PICK k \in 1..Len(completed) :
              k < cursor /\ completed[k].attestor = members[i]
        BY <1>m
      <4>2. k # cursor /\ k <= cursor
        BY <1>2, <4>1
      <4> QED
        BY <1>2, <4>1, <4>2, ListFacts DEF RInv
    <3> HIDE DEF n, c
    <3>5. \A i \in 1..n :
            \E k \in 1..Len(completed) : /\ k < cursor + 1
                                         /\ ForCollection(completed[k])
                                         /\ completed[k].attestor = members'[i]
      <4>1. cursor < cursor + 1
        BY <1>2
      <4>2. ASSUME NEW i \in 1..Len(members)
            PROVE  \E k \in 1..Len(completed) : /\ k < cursor + 1
                                                /\ ForCollection(completed[k])
                                                /\ completed[k].attestor = members'[i]
        BY <1>m, <2>0, <3>2
      <4> QED
        BY <1>2, <2>2, <3>2, <3>3, <4>1, <4>2 DEF c
    <3>6. \A k \in 1..Len(completed) :
            k < cursor + 1 /\ ForCollection(completed[k]) =>
              \E i \in 1..n : members'[i] = completed[k].attestor
      <4>1. ASSUME NEW k \in 1..Len(completed), k < cursor, ForCollection(completed[k])
            PROVE  \E i \in 1..n : members'[i] = completed[k].attestor
        BY <1>m, <3>2, <3>3, <4>1
      <4> QED
        BY <2>0, <3>2, <3>3, <4>1 DEF c
    <3>7. ASSUME NEW i \in 1..n, NEW j \in 1..n, i < j
          PROVE  members'[i] # members'[j] /\ ~ Before(members'[j], members'[i])
      <4>1. i \in 1..Len(members)
        BY <1>2, <3>7 DEF n
      <4>2. CASE j = n
        BY <3>2, <3>4, <4>1, <4>2
      <4>3. CASE j \in 1..Len(members)
        BY <1>m, <3>2, <3>7, <4>1, <4>3
      <4> QED
        BY <3>3, <4>2, <4>3
    <3>8. MembersAreSound'
      BY <1>1, <1>3, <3>2, <3>5, <3>6, <3>7 DEF MembersAreSound
    <3> QED
      BY <3>2, <3>8
  <2> QED
    BY <2>1, <2>2
<1>5. RTypes'
  BY <1>0, <1>1, <1>2, <1>4 DEF RInv, RTypes
<1>6. Behind'
  BY <1>0, <1>1 DEF RInv, Behind
<1>7. OneCollection'
  BY <1>0, <1>1 DEF RInv, OneCollection
<1>8. ExportsAreSound'
  BY <1>0, <1>1 DEF RInv, ExportsAreSound
<1>9. ExportsAreOrdered'
  BY <1>1 DEF RInv, ExportsAreOrdered
<1>10. ExportsAreCounted'
  <2>1. \A a : Exports(a)' = Exports(a)
    BY <1>1 DEF Exports
  <2>2. \A a : Passed(a)' <=> Passed(a)
    BY <1>0, <1>1 DEF Passed, Exporting
  <2> QED
    BY <1>0, <1>1, <2>1, <2>2 DEF RInv, ExportsAreCounted
<1> QED
  BY <1>1, <1>4, <1>5, <1>6, <1>7, <1>8, <1>9, <1>10 DEF RInv

\* The collection ends the results, or is not there.
LEMMA CollectStep == RInv /\ Collect => RInv'
<1> SUFFICES ASSUME RInv, Collect PROVE RInv'
  OBVIOUS
<1>0. /\ phase = "collect" /\ cursor = Len(completed) + 1
      /\ UNCHANGED <<vars, ro, cursor, item, members>>
  BY DEF Collect
<1>t. /\ cursor' \in Nat \ {0} /\ item' \in 1..(NExported + 1)
      /\ members \in Seq(Attestor)
  BY <1>0 DEF RInv, RTypes
<1>1. CASE phase' = "error" /\ UNCHANGED result
  BY <1>0, <1>1, <1>t, ErrorStep
<1>2. CASE phase' = "nil" /\ result' = Append(result, CollectionResult(members))
  <2> DEFINE r == CollectionResult(members)
  <2>1. /\ Inv' /\ UNCHANGED <<config, main, completed, materials, ro, members>>
        /\ \A a, b : Before(a, b)' <=> Before(a, b)
        /\ \A k, a : At(k, a)' <=> At(k, a)
        /\ \A a : Quota(a)' = Quota(a)
        /\ \A c : ForCollection(c)' <=> ForCollection(c)
    BY <1>0, SameContext
  <2>2. /\ r \in RunResult /\ r.kind = "collection" /\ r.of = members
        /\ r.signed = ~ ro.insecure
    BY <1>t DEF CollectionResult, RunResult
  <2> HIDE DEF r
  <2>3. /\ result' \in Seq(RunResult) /\ Len(result) \in Nat
        /\ Len(result') = Len(result) + 1
        /\ \A i \in 1..Len(result) : result'[i] = result[i]
        /\ result'[Len(result')] = r
        /\ \A a : Exports(a)' = Exports(a)
    <3>1. RTypes
      BY DEF RInv
    <3> QED
      BY <1>2, <2>2, <3>1, AppendResult DEF r
  <2>4. /\ \A i \in 1..Len(result') : i \in 1..Len(result) \/ i = Len(result')
        /\ Len(result') > 0
    BY <2>3
  <2>5. RTypes'
    BY <1>0, <1>2, <1>t, <2>1, <2>3 DEF RInv, RTypes
  <2>6. Behind'
    BY <1>0, <2>1 DEF RInv, Behind
  <2>7. OneCollection'
    <3>1. \A i \in 1..Len(result) : result'[i].kind = "export"
      BY <1>0, <2>3 DEF RInv, OneCollection
    <3> QED
      BY <1>2, <2>1, <2>2, <2>3, <2>4, <3>1 DEF OneCollection
  <2>8. ExportsAreSound'
    <3>1. \A i \in 1..Len(result) :
            /\ result'[i].signed = ~ ro.insecure
            /\ result'[i].kind = "export" =>
                 \E k \in 1..Len(completed) :
                   /\ ~ completed[k].error
                   /\ result'[i].of = <<completed[k].attestor>>
      BY <2>3 DEF RInv, ExportsAreSound
    <3> QED
      BY <1>2, <2>1, <2>2, <2>3, <2>4, <3>1 DEF ExportsAreSound
  <2>9. ExportsAreOrdered'
    <3> SUFFICES ASSUME NEW i \in 1..Len(result'), NEW j \in 1..Len(result'),
                        i < j, result'[j].kind = "export"
                 PROVE  ~ Before(result'[j].of[1], result'[i].of[1])
      BY <2>1 DEF ExportsAreOrdered
    <3>1. j # Len(result') /\ j \in 1..Len(result)
      BY <2>2, <2>3, <2>4
    <3>2. i \in 1..Len(result)
      BY <2>3, <3>1
    <3> QED
      BY <2>3, <3>1, <3>2 DEF RInv, ExportsAreOrdered
  <2>10. ExportsAreCounted'
    <3>1. \A a : Passed(a)' <=> Passed(a)
      BY <1>0, <1>2, <2>1 DEF Passed, Exporting
    <3> QED
      BY <1>0, <1>2, <2>1, <2>3, <3>1 DEF RInv, ExportsAreCounted
  <2>11. MembersAreSound'
    <3>1. Filtering' = Filtering
      BY <1>0, <1>2, <2>1 DEF Filtering
    <3> QED
      BY <1>0, <1>2, <2>1, <3>1 DEF RInv, MembersAreSound
  <2> QED
    BY <2>1, <2>5, <2>6, <2>7, <2>8, <2>9, <2>10, <2>11 DEF RInv
<1> QED
  BY <1>1, <1>2 DEF Collect

-----------------------------------------------------------------------------
(* The invariant                                                           *)

\* run() before it has validated its options.
LEMMA RunInitially == RunInit => RInv
<1> SUFFICES ASSUME RunInit PROVE RInv
  OBVIOUS
<1>1. Inv
  BY InvInitially DEF RunInit
<1>2. RTypes
  BY RunsAssumption, NExportedAssumption DEF RunInit, RTypes
<1>3. Behind
  BY DEF RunInit, Init, Behind
<1> QED
  BY <1>1, <1>2, <1>3, NothingToSay DEF RunInit

\* Every step of run() and of the goroutines it has started keeps it.
LEMMA RunKeeps == RInv /\ [RunNext]_allVars => RInv'
<1> SUFFICES ASSUME RInv, [RunNext]_allVars PROVE RInv'
  OBVIOUS
<1>1. CASE UNCHANGED allVars
  <2>1. /\ UNCHANGED <<vars, ro>>
        /\ UNCHANGED <<phase, cursor, item, members, result>>
    BY <1>1 DEF allVars, runVars
  <2>2. /\ Inv' /\ UNCHANGED <<config, main, completed, materials>>
        /\ \A a, b : Before(a, b)' <=> Before(a, b)
        /\ \A k, a : At(k, a)' <=> At(k, a)
        /\ \A a : Quota(a)' = Quota(a)
        /\ \A c : ForCollection(c)' <=> ForCollection(c)
    BY <2>1, SameContext
  <2>3. /\ \A a : Exports(a)' = Exports(a)
        /\ \A a : Passed(a)' <=> Passed(a)
        /\ Filtering' = Filtering
    BY <2>1, <2>2 DEF Exports, Passed, Exporting, Filtering
  <2>4. RTypes' /\ Behind'
    BY <2>1, <2>2 DEF RInv, RTypes, Behind
  <2>5. OneCollection' /\ ExportsAreSound' /\ ExportsAreOrdered'
    BY <2>1, <2>2 DEF RInv, OneCollection, ExportsAreSound, ExportsAreOrdered
  <2>6. ExportsAreCounted'
    <3>1. \A a : At(cursor, a)' <=> At(cursor, a)
      BY <2>1, <2>2 DEF At
    <3> QED
      BY <2>1, <2>2, <2>3, <3>1 DEF RInv, ExportsAreCounted
  <2>7. MembersAreSound'
    BY <2>1, <2>2, <2>3 DEF RInv, MembersAreSound
  <2> QED
    BY <2>2, <2>4, <2>5, <2>6, <2>7 DEF RInv
<1> QED
  BY <1>1, EarlyStep, CollectErrorStep, ExportItemStep, ExportOneStep,
     CheckErrorsStep, FilterStep, CollectStep DEF RunNext, RunStep

\* The inductive invariant of run(): what the two loops have made is a function
\* of the part of CompletedAttestors() behind them.
THEOREM RunInvariant == RunSpec => []RInv
BY RunInitially, RunKeeps, PTL DEF RunSpec

\* The context keeps its invariant when run() drives it, so what is proved of
\* RunAttestors holds of every run.
THEOREM ContextInRun ==
  RunSpec => [](TypeOK /\ StagesAreOrdered /\ SeesEarlierStages
                  /\ LatestStageWins /\ ReturnAccountsForAll)
<1>1. RInv => TypeOK /\ StagesAreOrdered /\ SeesEarlierStages
                /\ LatestStageWins /\ ReturnAccountsForAll
  BY InvAccounts DEF RInv, Inv
<1> QED
  BY <1>1, RunInvariant, PTL

-----------------------------------------------------------------------------
(* What run() returns                                                      *)

\* The list and Succeeded say the same.
LEMMA SucceededIsAt ==
  ASSUME Inv, NEW a
  PROVE  Succeeded(completed, a) <=> \E k \in 1..Len(completed) : At(k, a)
BY ListFacts DEF Succeeded, Entries, At

\* The only collection there can be is the last result, of the members.
LEMMA CollectionFacts ==
  ASSUME RInv
  PROVE  /\ phase # "nil" => Collections = {}
         /\ \A c \in Collections : c.of = members
         /\ phase = "nil" => Collections # {}
         /\ \A a : a \in ToSet(members) <=> \E i \in 1..Len(members) : members[i] = a
<1>1. /\ result \in Seq(RunResult) /\ DOMAIN result = 1..Len(result)
      /\ Len(result) \in Nat /\ DOMAIN members = 1..Len(members)
  BY DEF RInv, RTypes
<1>2. \A c : c \in Collections <=>
        \E i \in 1..Len(result) : result[i] = c /\ c.kind = "collection"
  BY <1>1 DEF Collections, ToSet
<1>3. phase # "nil" => Collections = {}
  BY <1>2 DEF RInv, OneCollection
<1>4. ASSUME phase = "nil"
      PROVE  Collections # {} /\ \A c \in Collections : c.of = members
  <2>1. /\ Len(result) > 0
        /\ result[Len(result)].kind = "collection"
        /\ result[Len(result)].of = members
        /\ \A i \in 1..Len(result) : i # Len(result) => result[i].kind = "export"
    BY <1>4 DEF RInv, OneCollection
  <2>2. Len(result) \in Nat
    BY <1>1
  <2>3. Len(result) \in 1..Len(result)
    BY <2>1, <2>2
  <2> QED
    BY <1>2, <2>1, <2>3
<1>5. \A a : a \in ToSet(members) <=> \E i \in 1..Len(members) : members[i] = a
  BY <1>1 DEF ToSet
<1> QED
  BY <1>3, <1>4, <1>5

\* A nil return of run() puts every attestor that succeeded in one place: its
\* own envelopes or the collection; and a failed one in none.
THEOREM OnePlaceEach == RunSpec => []ExactlyOnePlace
<1>1. RInv => ExactlyOnePlace
  <2> SUFFICES ASSUME RInv, phase = "nil", NEW a \in Attestor
               PROVE  IF Succeeded(completed, a)
                        THEN /\ Cardinality(Exports(a)) = Quota(a)
                             /\ InCollection(a) <=>
                                  a \notin ro.multiExporters \cup
                                             (ro.exporters \cap ro.exporting)
                        ELSE Exports(a) = {} /\ ~ InCollection(a)
    BY DEF ExactlyOnePlace, Quota
  <2>0. Inv /\ RTypes /\ Len(completed) \in Nat
    BY ListFacts DEF RInv
  <2>1. Passed(a) <=> Succeeded(completed, a)
    <3>1. Exporting = Len(completed) + 1
      BY DEF Exporting
    <3>2. \A k \in 1..Len(completed) : k < Exporting
      BY <2>0, <3>1
    <3> QED
      BY <2>0, <3>2, SucceededIsAt DEF Passed
  <2>2. Cardinality(Exports(a)) = IF Passed(a) THEN Quota(a) ELSE 0
    BY DEF RInv, ExportsAreCounted
  <2>3. InCollection(a) <=> \E i \in 1..Len(members) : members[i] = a
    BY CollectionFacts DEF InCollection
  <2>4. \A k \in 1..Len(completed) : k < Filtering
    <3>1. Filtering = Len(completed) + 1
      BY DEF Filtering
    <3> QED
      BY <2>0, <3>1
  <2>5. InCollection(a) <=> \E k \in 1..Len(completed) :
          ForCollection(completed[k]) /\ completed[k].attestor = a
    BY <2>3, <2>4 DEF RInv, MembersAreSound
  <2>6. InCollection(a) <=>
          /\ Succeeded(completed, a)
          /\ a \notin ro.multiExporters \cup (ro.exporters \cap ro.exporting)
    <3>1. \A k \in 1..Len(completed) :
            ForCollection(completed[k]) /\ completed[k].attestor = a <=>
              /\ At(k, a)
              /\ a \notin ro.multiExporters \cup (ro.exporters \cap ro.exporting)
      BY <2>0, AtFacts DEF ForCollection
    <3> QED
      BY <2>0, <2>5, <3>1, SucceededIsAt
  <2>7. IsFiniteSet(Exports(a))
    BY <2>0, ExportsAreFinite
  <2>8. Cardinality(Exports(a)) = 0 => Exports(a) = {}
    BY <2>7, FS_EmptySet
  <2> QED
    BY <2>1, <2>2, <2>6, <2>8
<1> QED
  BY <1>1, RunInvariant, PTL

\* Whatever run() returns, also next to an error, is signed, speaks for
\* attestors that succeeded and follows the order of completion.
THEOREM ResultsAreSound == RunSpec => []PartialResultsAreSound
<1>1. RInv => PartialResultsAreSound
  <2> SUFFICES ASSUME RInv PROVE PartialResultsAreSound
    OBVIOUS
  <2>0. /\ Inv /\ result \in Seq(RunResult)
        /\ DOMAIN result = 1..Len(result) /\ Len(result) \in Nat
    BY DEF RInv, RTypes
  <2>k. \A i \in 1..Len(result) : result[i].kind \in {"export", "collection"}
    <3>1. \A i \in 1..Len(result) : result[i] \in RunResult
      BY <2>0
    <3> QED
      BY <3>1 DEF RunResult
  <2>1. \A i \in 1..Len(result) : result[i].signed \/ ro.insecure
    BY DEF RInv, ExportsAreSound
  <2>2. ASSUME NEW i \in 1..Len(result), NEW a \in ToSet(result[i].of)
        PROVE  Succeeded(completed, a)
    <3>1. CASE result[i].kind = "export"
      <4>1. PICK k \in 1..Len(completed) :
              ~ completed[k].error /\ result[i].of = <<completed[k].attestor>>
        BY <3>1 DEF RInv, ExportsAreSound
      <4>2. a = completed[k].attestor
        BY <2>2, <4>1 DEF ToSet
      <4> QED
        BY <2>0, <4>1, <4>2, AtFacts, SucceededIsAt
    <3>2. CASE result[i].kind = "collection"
      <4>1. result[i] \in Collections
        BY <2>0, <3>2 DEF Collections, ToSet
      <4>2. a \in ToSet(members)
        BY <2>2, <4>1, CollectionFacts
      <4>3. PICK j \in 1..Len(members) : members[j] = a
        BY <4>2, CollectionFacts
      <4>4. PICK k \in 1..Len(completed) :
              ForCollection(completed[k]) /\ completed[k].attestor = members[j]
        BY DEF RInv, MembersAreSound
      <4>5. At(k, a)
        BY <2>0, <4>3, <4>4, AtFacts DEF ForCollection
      <4> QED
        BY <2>0, <4>5, SucceededIsAt
    <3> QED
      BY <2>k, <3>1, <3>2
  <2>3. phase = "error" => Collections = {}
    BY CollectionFacts
  <2>4. ASSUME NEW i \in 1..Len(result), NEW j \in 1..Len(result), i < j,
               result[j].kind = "export"
        PROVE  /\ result[i].kind = "export"
               /\ ~ Before(result[j].of[1], result[i].of[1])
    <3>0. Len(result) \in Nat
      BY <2>0
    <3>1. i # Len(result)
      BY <2>4, <3>0
    <3> QED
      BY <2>4, <3>1 DEF RInv, OneCollection, ExportsAreOrdered
  <2> QED
    BY <2>0, <2>1, <2>2, <2>3, <2>4 DEF PartialResultsAreSound
<1> QED
  BY <1>1, RunInvariant, PTL

\* Collection.Materials() says of a path what the context said, when one
\* attestor of its run type alone observed it: the collection lists its members
\* in an order in which a later one is of the same or of a later run type.
THEOREM CollectionAgrees == RunSpec => []CollectionAgreesWithContext
<1>1. RInv => CollectionAgreesWithContext
  <2> SUFFICES ASSUME RInv, NEW c \in Collections, NEW p \in Path,
                      materials[p] # None, materials[p] \in ToSet(c.of),
                      \A b \in Of(config.runType[materials[p]]) \ {materials[p]} :
                        p \notin config.materials[b]
               PROVE  CollectionMaterials(c.of, p) = materials[p]
    BY DEF CollectionAgreesWithContext
  <2> DEFINE a == materials[p]
             S == {i \in DOMAIN members : p \in config.materials[members[i]]}
  <2>0. /\ phase = "nil" /\ main = "nil" /\ c.of = members
        /\ p \in config.materials[a]
    BY CollectionFacts DEF RInv, Behind
  <2>t. /\ Inv /\ TypeOK /\ ProgressInv /\ LatestStageWins
        /\ DOMAIN members = 1..Len(members) /\ Len(members) \in Nat
        /\ \A i \in 1..Len(members) : members[i] \in Attestor
    BY DEF RInv, Inv, RTypes
  <2>1. PICK m \in 1..Len(members) : members[m] = a
    BY <2>0, CollectionFacts
  <2>2. ASSUME NEW i \in 1..Len(members)
        PROVE  /\ Succeeded(completed, members[i])
               /\ routine[members[i]] = "done"
               /\ \E x \in 1..Len(order) : order[x] = config.runType[members[i]]
    <3>1. PICK k \in 1..Len(completed) :
            ForCollection(completed[k]) /\ completed[k].attestor = members[i]
      BY DEF RInv, MembersAreSound
    <3>2. At(k, members[i])
      BY <2>t, <3>1, AtFacts DEF ForCollection
    <3>3. Succeeded(completed, members[i])
      BY <2>t, <3>2, SucceededIsAt DEF At
    <3>4. members[i] \in Attestor /\ Recorded(members[i])
      BY <2>t, <3>3, RecordedOutcome
    <3>5. routine[members[i]] \in Past
      BY <2>t, <3>4 DEF ProgressInv, RecordInv
    <3>6. routine[members[i]] = "done"
      BY <2>0, <2>t, <3>4, <3>5 DEF ProgressInv, BusyInv, Past
    <3>7. PICK x \in 1..stage : order[x] = config.runType[members[i]]
      BY <2>t, <3>4, <3>6 DEF ProgressInv, StartedInv
    <3>8. stage \in 0..Len(order) /\ Len(order) \in Nat
      BY <2>t, OrderFacts DEF TypeOK
    <3>9. x \in 1..Len(order)
      BY <3>8
    <3> QED
      BY <3>3, <3>6, <3>7, <3>9
  <2>3. m \in S
    BY <2>0, <2>1, <2>t
  <2>4. ASSUME NEW i \in S
        PROVE  i <= m
    <3> SUFFICES ASSUME m < i PROVE FALSE
      BY <2>t
    <3> DEFINE b == members[i]
    <3>1. i \in 1..Len(members) /\ p \in config.materials[b] /\ b \in Attestor
      BY <2>t
    <3>2. b # a /\ ~ Before(b, a)
      BY <2>1, <3>1 DEF RInv, MembersAreSound
    <3>3. config.runType[b] # config.runType[a]
      BY <3>1, <3>2 DEF Of
    <3>4. ~ Before(a, b)
      BY <2>2, <2>t, <3>1 DEF LatestStageWins
    <3>5. PICK x \in 1..Len(order) : order[x] = config.runType[a]
      BY <2>1, <2>2
    <3>6. PICK y \in 1..Len(order) : order[y] = config.runType[b]
      BY <2>2, <3>1
    <3> HIDE DEF a, b
    <3>7. x # y
      BY <3>3, <3>5, <3>6
    <3>8. DOMAIN order = 1..Len(order) /\ Len(order) \in Nat
      BY <2>t, OrderFacts DEF TypeOK
    <3>9. x < y \/ y < x
      BY <3>7, <3>8
    <3> QED
      BY <3>2, <3>4, <3>5, <3>6, <3>8, <3>9 DEF Before
  <2>5. Max(S) = m
    <3> HIDE DEF S
    <3>1. \A i \in S : m >= i /\ i \in Nat
      <4>1. \A i \in S : i \in 1..Len(members)
        BY <2>t DEF S
      <4> QED
        BY <2>4, <4>1
    <3>2. Max(S) \in S /\ \A i \in S : Max(S) >= i
      BY <2>3, <3>1 DEF Max
    <3>3. /\ m \in Nat /\ Max(S) \in Nat
          /\ m >= Max(S) /\ Max(S) >= m
      BY <2>3, <3>1, <3>2
    <3>4. \A x, y \in Nat : x >= y /\ y >= x => x = y
      OBVIOUS
    <3> QED
      BY <3>3, <3>4
  <2> QED
    BY <2>0, <2>1, <2>3, <2>5 DEF CollectionMaterials
<1> QED
  BY <1>1, RunInvariant, PTL

\* What is recorded in the context stays recorded for as long as run() runs:
\* the loops over CompletedAttestors() read a list that no longer changes.
THEOREM UpdatesAreKeptInRun == RunSpec => NoLostUpdate
<1>1. [RunNext]_allVars => [Next]_vars
  BY DEF RunNext, RunStep, Attesting, Start, Attested, CollectError,
     ExportItem, ExportOne, CheckErrors, Filter, Collect, allVars
<1>2. RInv /\ [RunNext]_allVars =>
        [ /\ Entries(completed) \subseteq Entries(completed')
          /\ \A p \in Path : materials[p] # None =>
               materials'[p] # None /\ ~ Before(materials'[p], materials[p]) ]_vars
  BY <1>1, KeptStep DEF RInv
<1> QED
  BY <1>2, RunInvariant, PTL DEF RunSpec, NoLostUpdate
=============================================================================
