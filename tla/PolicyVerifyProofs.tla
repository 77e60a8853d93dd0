-------------------------- MODULE PolicyVerifyProofs --------------------------
(***************************************************************************)
(* For every policy, every set of steps and every finite set of            *)
(* collections: the search of Policy.Verify stays within the evidence that *)
(* is connected to the subject, finds all of it when there are as many     *)
(* passes as collections, and the verdict of verifyArtifacts does not      *)
(* depend on the order of the steps.                                       *)
(*                                                                         *)
(* The argument for completeness: a pass that finds no new collection      *)
(* leaves the known digests closed; each other pass finds one at least.    *)
(***************************************************************************)
EXTENDS PolicyVerify, FunctionTheorems, FiniteSetTheorems, SequenceTheorems, TLAPS

\* The types of what the properties speak of.
PTypes ==
  /\ case \in Case
  /\ phase \in {"options", "search", "artifacts", "done", "error"}
  /\ depth \in Nat
  /\ todo \subseteq case.steps
  /\ digests \subseteq Digest
  /\ seen \subseteq Coll
  /\ passed \in [Step -> Seq(Coll)]
  /\ searched \in [Step -> Seq(Coll)]

\* The collections that passed, and those that a set of digests leads to.
PassedColls == {c \in Coll : c \in ToSet(passed[case.coll[c].step])}
Connected(D) ==
  {c \in Coll : InPolicy(c) /\ Accepted(c) /\ case.coll[c].subjects \cap D # {}}

\* What passed is of the policy and its back references are known; what was
\* downloaded and is acceptable has passed.
Followed ==
  /\ case.subjects \subseteq digests
  /\ \A s \in Step \ case.steps : passed[s] = <<>>
  /\ \A c \in PassedColls : case.coll[c].backRefs \subseteq digests
  /\ \A c \in seen : Accepted(c) => c \in PassedColls

\* Nothing is left to find.
Stable == Connected(digests) \subseteq PassedColls

\* In pass depth as many collections were found before, and one more in this
\* pass unless the steps it has been through have nothing to add.
Progress ==
  \/ Stable
  \/ Cardinality(PassedColls) >= depth
  \/ /\ Cardinality(PassedColls) >= depth - 1
     /\ \A c \in Connected(digests) : case.coll[c].step \in todo \/ c \in PassedColls

Searching ==
  /\ phase \in {"options", "search"} => Followed
  /\ phase = "search" => depth \in 1..case.searchDepth /\ Progress

\* The collections of step s, as the search left them, verify on their own.
Holds(s) == \E c \in ToSet(searched[s]) : verifyCollectionArtifacts(s, c, searched)

\* Results are only ever emptied, those of a step that does not hold always,
\* and none if all hold.
Comparing ==
  phase \in {"artifacts", "done"} =>
    /\ \A s \in Step : passed[s] \in {searched[s], <<>>}
    /\ \A s \in case.steps \ todo : ~ Holds(s) => passed[s] = <<>>
    /\ ReferenceVerdict => passed = searched
    /\ phase = "done" => /\ todo = {}
                         /\ verdict = \A s \in case.steps : passed[s] # <<>>

PInv == PTypes /\ SearchIsSound /\ Searching /\ SearchIsComplete /\ Comparing

-----------------------------------------------------------------------------
(* Facts about the operators                                               *)

\* SetToSeqs arranges all elements of a finite set.
LEMMA Arrangement ==
  ASSUME NEW S, IsFiniteSet(S), NEW q \in SetToSeqs(S)
  PROVE  q \in Seq(S) /\ ToSet(q) = S
<1> DEFINE D == 1..Cardinality(S)
<1>1. Cardinality(S) \in Nat
  BY FS_CardinalityType
<1>2. q \in [D -> S] /\ \A i, j \in D : i # j => q[i] # q[j]
  BY DEF SetToSeqs
<1>3. IsFiniteSet(D) /\ Cardinality(D) = Cardinality(S)
  BY <1>1, FS_Interval
<1>4. q \in Injection(D, S)
  BY <1>2 DEF Injection, IsInjective
<1>5. q \in Surjection(D, S)
  BY <1>3, <1>4, FS_Injection
<1>6. \A x \in S : \E i \in D : q[i] = x
  BY <1>5 DEF Surjection
<1>7. DOMAIN q = D
  BY <1>2
<1>8. q \in Seq(S)
  BY <1>1, <1>2
<1> QED
  BY <1>2, <1>6, <1>7, <1>8 DEF ToSet

\* The elements of two lists that are put together.
LEMMA ConcatSet ==
  ASSUME NEW X, NEW a \in Seq(X), NEW b \in Seq(X)
  PROVE  a \o b \in Seq(X) /\ ToSet(a \o b) = ToSet(a) \cup ToSet(b)
<1>1. a \o b \in Seq(X) /\ Len(a \o b) = Len(a) + Len(b)
  OBVIOUS
<1>2. /\ DOMAIN (a \o b) = 1..(Len(a) + Len(b))
      /\ DOMAIN a = 1..Len(a) /\ DOMAIN b = 1..Len(b)
      /\ Len(a) \in Nat /\ Len(b) \in Nat
  BY <1>1
<1>3. \A i \in 1..(Len(a) + Len(b)) :
        (a \o b)[i] = IF i <= Len(a) THEN a[i] ELSE b[i - Len(a)]
  OBVIOUS
<1>4. ToSet(a \o b) \subseteq ToSet(a) \cup ToSet(b)
  BY <1>2, <1>3 DEF ToSet
<1>5. ToSet(a) \subseteq ToSet(a \o b)
  BY <1>2, <1>3 DEF ToSet
<1>6. ASSUME NEW j \in 1..Len(b)
      PROVE  b[j] \in ToSet(a \o b)
  <2>1. /\ Len(a) + j \in 1..(Len(a) + Len(b)) /\ ~ (Len(a) + j <= Len(a))
        /\ (Len(a) + j) - Len(a) = j
    BY <1>2
  <2>2. (a \o b)[Len(a) + j] = b[j]
    BY <1>3, <2>1
  <2> QED
    BY <1>2, <2>1, <2>2 DEF ToSet
<1> QED
  BY <1>1, <1>2, <1>4, <1>5, <1>6 DEF ToSet

\* What the assumption on the instances says of one.
LEMMA CaseTypes ==
  ASSUME case \in Case
  PROVE  /\ case.steps \subseteq Step
         /\ case.subjects \subseteq Digest
         /\ case.searchDepth \in Nat
         /\ case.artifactsFrom \in [Step -> SUBSET Step]
         /\ \A c \in Coll : /\ case.coll[c].step \in Step
                            /\ case.coll[c].subjects \subseteq Digest
                            /\ case.coll[c].backRefs \subseteq Digest
<1>1. case \in [steps : SUBSET Step, coll : [Coll -> Evidence],
                  subjects : SUBSET Digest, searchDepth : Nat,
                  expired : BOOLEAN, archivista : BOOLEAN,
                  artifactsFrom : [Step -> SUBSET Step]]
  BY CaseAssumption
<1>2. /\ case.steps \subseteq Step /\ case.subjects \subseteq Digest
      /\ case.searchDepth \in Nat
      /\ case.artifactsFrom \in [Step -> SUBSET Step]
      /\ case.coll \in [Coll -> Evidence]
  BY <1>1
<1>3. ASSUME NEW e \in Evidence
      PROVE  e.step \in Step /\ e.subjects \subseteq Digest /\ e.backRefs \subseteq Digest
  BY DEF Evidence
<1> QED
  BY <1>2, <1>3

\* The policy and the evidence never change, nor what follows from them alone.
LEMMA SameCase ==
  ASSUME case' = case
  PROVE  /\ Reachable' = Reachable
         /\ \A c : /\ Accepted(c)' <=> Accepted(c)
                   /\ InPolicy(c)' <=> InPolicy(c)
         /\ \A D : Connected(D)' = Connected(D)
  BY DEF Reachable, Closed, Accepted, InPolicy, Connected, checkFunctionaries,
         validateAttestations, HasVerifiers

\* Every set of collections is finite.
LEMMA CollsAreFinite ==
  ASSUME NEW S \in SUBSET Coll
  PROVE  IsFiniteSet(S) /\ Cardinality(S) \in Nat
  BY CollIsFinite, FS_Subset, FS_CardinalityType

-----------------------------------------------------------------------------
(* The search is sound                                                     *)

\* The set of the connected digests is closed, and is the least such set.
LEMMA ReachableIsLeast ==
  ASSUME case \in Case
  PROVE  /\ Closed(Reachable)
         /\ \A D \in SUBSET Digest : Closed(D) => Reachable \subseteq D
<1>1. case.subjects \subseteq Reachable
  BY CaseTypes DEF Reachable, Closed
<1>2. ASSUME NEW c \in Coll, InPolicy(c), Accepted(c),
             case.coll[c].subjects \cap Reachable # {}
      PROVE  case.coll[c].backRefs \subseteq Reachable
  <2>1. PICK d : d \in case.coll[c].subjects /\ d \in Reachable
    BY <1>2
  <2>2. ASSUME NEW b \in case.coll[c].backRefs, NEW D \in SUBSET Digest, Closed(D)
        PROVE  b \in D
    <3>1. d \in D
      BY <2>1, <2>2 DEF Reachable
    <3>2. case.coll[c].subjects \cap D # {}
      BY <2>1, <3>1
    <3> QED
      BY <1>2, <2>2, <3>2 DEF Closed
  <2>3. case.coll[c].backRefs \subseteq Digest
    BY CaseTypes
  <2> QED
    BY <2>2, <2>3 DEF Reachable
<1>3. \A D \in SUBSET Digest : Closed(D) => Reachable \subseteq D
  BY DEF Reachable
<1> QED
  BY <1>1, <1>2, <1>3 DEF Closed

\* The collections that a search of step s lets pass.
Taken(s) == {c \in Search(s) : Accepted(c)}

\* What a search of s does to the results and to the known digests.
LEMMA SearchEffect ==
  ASSUME PTypes, NEW s \in Step, SearchStep(s)
  PROVE  /\ s \in case.steps /\ s \in todo /\ case' = case
         /\ Taken(s) \subseteq Coll
         /\ \A c \in Taken(s) : Accepted(c) /\ case.coll[c].step = s
                                /\ case.coll[c].subjects \cap digests # {}
         /\ passed' \in [Step -> Seq(Coll)]
         /\ ToSet(passed'[s]) = ToSet(passed[s]) \cup Taken(s)
         /\ \A t \in Step \ {s} : passed'[t] = passed[t]
         /\ PassedColls' = PassedColls \cup Taken(s)
         /\ digests' = digests \cup UNION {case.coll[c].backRefs : c \in Taken(s)}
         /\ seen' = seen \cup Search(s)
         /\ todo' = todo \ {s}
         /\ phase = "search" /\ phase' = "search" /\ depth' = depth
<1>1. Taken(s) \subseteq Coll /\ s \in case.steps
  BY DEF Taken, Search, SearchStep, PTypes
<1>2. PICK q \in SetToSeqs(Taken(s)) : passed' = [passed EXCEPT ![s] = Merge(@, q)]
  BY DEF SearchStep, Taken
<1>3. q \in Seq(Taken(s)) /\ ToSet(q) = Taken(s)
  BY <1>1, CollsAreFinite, Arrangement
<1>4. q \in Seq(Coll)
  BY <1>1, <1>3
<1>5. passed'[s] = passed[s] \o q /\ \A t \in Step \ {s} : passed'[t] = passed[t]
  BY <1>2 DEF Merge, PTypes
<1>6. passed[s] \in Seq(Coll)
  BY DEF PTypes
<1>7. passed[s] \o q \in Seq(Coll)
      /\ ToSet(passed[s] \o q) = ToSet(passed[s]) \cup Taken(s)
  BY <1>3, <1>4, <1>6, ConcatSet
<1>8. passed' \in [Step -> Seq(Coll)]
  BY <1>2, <1>7 DEF Merge, PTypes
<1>9. case' = case
  BY DEF SearchStep
<1>10. \A c \in Coll : case.coll[c].step \in Step
  BY CaseTypes DEF PTypes
<1>11. \A c \in Taken(s) : Accepted(c) /\ case.coll[c].step = s
                           /\ case.coll[c].subjects \cap digests # {}
  BY DEF Taken, Search
<1>12. PassedColls' = PassedColls \cup Taken(s)
  <2>1. ASSUME NEW c \in Coll
        PROVE  c \in ToSet(passed'[case.coll[c].step])
                 <=> c \in ToSet(passed[case.coll[c].step]) \/ c \in Taken(s)
    <3>1. CASE case.coll[c].step = s
      BY <1>5, <1>7, <3>1
    <3>2. CASE case.coll[c].step # s
      BY <1>5, <1>10, <1>11, <3>2
    <3> QED
      BY <3>1, <3>2
  <2> QED
    BY <1>1, <1>9, <2>1 DEF PassedColls
<1>13. digests' = digests \cup UNION {case.coll[c].backRefs : c \in Taken(s)}
  BY DEF SearchStep, Taken, BackRefs
<1>14. /\ seen' = seen \cup Search(s) /\ todo' = todo \ {s} /\ s \in todo
       /\ phase = "search" /\ phase' = "search" /\ depth' = depth
  BY DEF SearchStep
<1> QED
  BY <1>1, <1>5, <1>7, <1>8, <1>9, <1>11, <1>12, <1>13, <1>14

\* A list without elements is empty, and the other way round.
LEMMA EmptySet ==
  ToSet(<<>>) = {} /\ \A q \in Seq(Coll) : ToSet(q) = {} => q = <<>>
<1>1. ToSet(<<>>) = {}
  BY DEF ToSet
<1>2. ASSUME NEW q \in Seq(Coll), q # <<>>
      PROVE  q[1] \in ToSet(q)
  BY <1>2 DEF ToSet
<1> QED
  BY <1>1, <1>2

LEMMA Initially == Init => PInv
<1> SUFFICES ASSUME Init PROVE PInv
  OBVIOUS
<1>1. case \in Case
  BY DEF Init
<1>2. passed = [s \in Step |-> <<>>] /\ \A s \in Step : ToSet(passed[s]) = {}
  BY EmptySet DEF Init
<1>3. PTypes
  BY <1>1, <1>2, CaseTypes DEF Init, PTypes
<1>4. SearchIsSound
  BY <1>1, <1>2, ReachableIsLeast DEF Init, SearchIsSound, Closed
<1>5. PassedColls = {}
  BY <1>1, <1>2, CaseTypes DEF PassedColls
<1>6. Searching
  BY <1>2, <1>5 DEF Init, Searching, Followed
<1>7. SearchIsComplete /\ Comparing
  BY DEF Init, SearchIsComplete, Comparing
<1> QED
  BY <1>3, <1>4, <1>6, <1>7 DEF PInv

LEMMA TypesStep == PInv /\ [Next]_vars => PTypes'
<1> SUFFICES ASSUME PInv, [Next]_vars PROVE PTypes'
  OBVIOUS
<1> PTypes
  BY DEF PInv
<1> case.steps \subseteq Step
  BY CaseTypes DEF PTypes
<1>1. CASE CheckOptions
  BY <1>1 DEF CheckOptions, PTypes
<1>2. CASE SearchFails
  BY <1>2 DEF SearchFails, PTypes
<1>3. CASE EndPass
  BY <1>3 DEF EndPass, PTypes
<1>4. CASE Conclude
  BY <1>4 DEF Conclude, PTypes
<1>5. ASSUME NEW s \in Step, SearchStep(s) PROVE PTypes'
  <2>1. digests' \subseteq Digest
    BY <1>5, SearchEffect, CaseTypes DEF PTypes
  <2>2. seen' \subseteq Coll
    BY <1>5, SearchEffect DEF PTypes, Search
  <2> QED
    BY <1>5, <2>1, <2>2, SearchEffect DEF PTypes, SearchStep
<1>6. ASSUME NEW s \in Step, ArtifactStep(s) PROVE PTypes'
  BY <1>6 DEF ArtifactStep, PTypes
<1>7. CASE UNCHANGED vars
  BY <1>7 DEF vars, PTypes
<1> QED
  BY <1>1, <1>2, <1>3, <1>4, <1>5, <1>6, <1>7 DEF Next

LEMMA SoundStep == PInv /\ [Next]_vars => SearchIsSound'
<1> SUFFICES ASSUME PInv, [Next]_vars PROVE SearchIsSound'
  OBVIOUS
<1> PTypes /\ SearchIsSound
  BY DEF PInv
<1>1. ASSUME NEW s \in Step, SearchStep(s) PROVE SearchIsSound'
  <2>1. /\ Reachable' = Reachable /\ case' = case
        /\ \A c : Accepted(c)' <=> Accepted(c)
    BY <1>1, SearchEffect, SameCase
  <2>2. Closed(Reachable)
    BY ReachableIsLeast DEF PTypes
  <2>3. \A c \in Taken(s) : /\ Accepted(c) /\ InPolicy(c)
                            /\ case.coll[c].step = s
                            /\ case.coll[c].subjects \cap Reachable # {}
    BY <1>1, SearchEffect DEF SearchIsSound, InPolicy
  <2>4. \A c \in Taken(s) : case.coll[c].backRefs \subseteq Reachable
    BY <1>1, <2>2, <2>3, SearchEffect DEF Closed
  <2>5. digests' \subseteq Reachable
    BY <1>1, <2>4, SearchEffect DEF SearchIsSound
  <2>6. ASSUME NEW t \in Step, NEW c \in ToSet(passed'[t])
        PROVE  /\ Accepted(c) /\ case.coll[c].step = t
               /\ case.coll[c].subjects \cap Reachable # {}
    <3>1. CASE t = s
      BY <1>1, <2>3, <2>6, <3>1, SearchEffect DEF SearchIsSound
    <3>2. CASE t # s
      BY <1>1, <2>6, <3>2, SearchEffect DEF SearchIsSound
    <3> QED
      BY <3>1, <3>2
  <2> QED
    BY <2>1, <2>5, <2>6 DEF SearchIsSound
<1>2. ASSUME case' = case, digests' = digests,
             \A s \in Step : ToSet(passed'[s]) \subseteq ToSet(passed[s])
      PROVE  SearchIsSound'
  BY <1>2, SameCase DEF SearchIsSound
<1>3. ASSUME NEW s \in Step, ArtifactStep(s) PROVE SearchIsSound'
  <2>1. \A t \in Step : passed'[t] = passed[t] \/ passed'[t] = <<>>
    BY <1>3 DEF ArtifactStep, PTypes
  <2> QED
    BY <1>2, <1>3, <2>1, EmptySet DEF ArtifactStep
<1>4. CASE CheckOptions \/ SearchFails \/ EndPass \/ Conclude
  BY <1>2, <1>4 DEF CheckOptions, SearchFails, EndPass, Conclude
<1>5. CASE UNCHANGED vars
  BY <1>2, <1>5 DEF vars
<1> QED
  BY <1>1, <1>3, <1>4, <1>5 DEF Next

-----------------------------------------------------------------------------
(* The search is complete                                                  *)

\* What passes is of the policy.
LEMMA PassedAreInPolicy ==
  ASSUME PTypes, Followed
  PROVE  PassedColls \subseteq {c \in Coll : InPolicy(c)}
<1>1. \A c \in Coll : case.coll[c].step \in Step
  BY CaseTypes DEF PTypes
<1> QED
  BY <1>1, EmptySet DEF PassedColls, Followed, InPolicy

LEMMA FollowedStep ==
  ASSUME PTypes, Followed, NEW s \in Step, SearchStep(s)
  PROVE  Followed'
<1>1. /\ case' = case /\ \A c : Accepted(c)' <=> Accepted(c)
  BY SearchEffect, SameCase
<1>2. case.subjects \subseteq digests'
  BY SearchEffect DEF Followed
<1>3. \A t \in Step \ case.steps : passed'[t] = <<>>
  BY SearchEffect DEF Followed
<1>4. \A c \in PassedColls' : case.coll[c].backRefs \subseteq digests'
  BY SearchEffect DEF Followed
<1>5. \A c \in seen' : Accepted(c) => c \in PassedColls'
  BY SearchEffect DEF Followed, Taken
<1> QED
  BY <1>1, <1>2, <1>3, <1>4, <1>5 DEF Followed

\* A search that finds nothing new changes neither results nor digests; one
\* that does counts.
LEMMA ProgressStep ==
  ASSUME PTypes, Followed, Progress, depth \in Nat \ {0},
         NEW s \in Step, SearchStep(s)
  PROVE  Progress'
<1>1. /\ case' = case /\ depth' = depth
      /\ \A D : Connected(D)' = Connected(D)
  BY SearchEffect, SameCase
<1>2. Taken(s) \subseteq Connected(digests)
  BY SearchEffect DEF Connected, InPolicy
<1>3. CASE Taken(s) \subseteq PassedColls
  <2>1. PassedColls' = PassedColls
    BY <1>3, SearchEffect
  <2>2. digests' = digests
    <3>1. \A c \in Taken(s) : case.coll[c].backRefs \subseteq digests
      BY <1>3 DEF Followed
    <3>2. digests' = digests \cup UNION {case.coll[c].backRefs : c \in Taken(s)}
      BY SearchEffect
    <3> QED
      BY <3>1, <3>2
  <2>3. Connected(digests)' = Connected(digests)
    BY <1>1, <2>2
  <2>4. CASE Stable
    BY <2>1, <2>3, <2>4 DEF Stable, Progress
  <2>5. CASE Cardinality(PassedColls) >= depth
    BY <1>1, <2>1, <2>5 DEF Progress
  <2>6. CASE /\ Cardinality(PassedColls) >= depth - 1
             /\ \A c \in Connected(digests) :
                  case.coll[c].step \in todo \/ c \in PassedColls
    <3>1. ASSUME NEW c \in Connected(digests), c \notin PassedColls
          PROVE  case.coll[c].step \in todo'
      <4>1. case.coll[c].step \in todo
        BY <2>6, <3>1
      <4>2. /\ c \in Coll /\ Accepted(c) /\ case.coll[c].subjects \cap digests # {}
        BY DEF Connected
      <4>3. c \notin seen
        BY <3>1, <4>2 DEF Followed
      <4>4. case.coll[c].step # s
        BY <1>3, <3>1, <4>2, <4>3 DEF Taken, Search, Excluded
      <4> QED
        BY <4>1, <4>4, SearchEffect
    <3> QED
      BY <1>1, <2>1, <2>3, <2>6, <3>1 DEF Progress
  <2> QED
    BY <2>4, <2>5, <2>6 DEF Progress
<1>4. CASE ~ (Taken(s) \subseteq PassedColls)
  <2>1. ~ Stable
    BY <1>2, <1>4 DEF Stable
  <2>2. PICK c \in Taken(s) : c \notin PassedColls
    BY <1>4
  <2>3. /\ IsFiniteSet(PassedColls) /\ Cardinality(PassedColls) \in Nat
        /\ IsFiniteSet(PassedColls') /\ Cardinality(PassedColls') \in Nat
    BY CollsAreFinite, SearchEffect DEF PassedColls
  <2>4. Cardinality(PassedColls \cup {c}) = Cardinality(PassedColls) + 1
    BY <2>2, <2>3, FS_AddElement
  <2>5. PassedColls \cup {c} \subseteq PassedColls'
    BY <2>2, SearchEffect
  <2>6. Cardinality(PassedColls \cup {c}) <= Cardinality(PassedColls')
    BY <2>3, <2>5, FS_Subset
  <2>7. Cardinality(PassedColls) >= depth - 1
    BY <2>1, <2>3 DEF Progress
  <2>8. Cardinality(PassedColls') >= depth
    BY <2>3, <2>4, <2>6, <2>7
  <2> QED
    BY <1>1, <2>8 DEF Progress
<1> QED
  BY <1>3, <1>4

LEMMA SearchingStep == PInv /\ [Next]_vars => Searching'
<1> SUFFICES ASSUME PInv, [Next]_vars PROVE Searching'
  OBVIOUS
<1> PTypes /\ Searching
  BY DEF PInv
<1>1. case.searchDepth \in Nat /\ \A c \in Coll : case.coll[c].step \in Step
  BY CaseTypes DEF PTypes
<1>2. ASSUME case' = case, digests' = digests, passed' = passed, seen' = seen
      PROVE  /\ Followed' <=> Followed
             /\ Stable' <=> Stable
             /\ PassedColls' = PassedColls
             /\ Connected(digests)' = Connected(digests)
  BY <1>2, SameCase DEF Followed, Stable, PassedColls, Connected, Accepted, InPolicy,
     checkFunctionaries, validateAttestations, HasVerifiers
<1>3. CASE CheckOptions
  <2>1. case' = case /\ Followed' /\ PassedColls' = PassedColls
        /\ Connected(digests)' = Connected(digests)
    BY <1>2, <1>3 DEF CheckOptions, Searching
  <2>2. CASE phase' = "error"
    BY <2>2 DEF Searching
  <2>3. CASE phase' = "search"
    <3>1. /\ depth' = 1 /\ todo' = case.steps
          /\ ~ (case.searchDepth < 1)
      BY <1>3, <2>3 DEF CheckOptions
    <3>2. Cardinality(PassedColls) >= 0 /\ Cardinality(PassedColls) \in Nat
      BY CollsAreFinite DEF PassedColls
    <3>3. \A c \in Connected(digests)' : case'.coll[c].step \in todo'
      BY <2>1, <3>1 DEF Connected, InPolicy
    <3>4. Cardinality(PassedColls') >= depth' - 1
      BY <2>1, <3>1, <3>2
    <3>5. Progress'
      BY <3>3, <3>4 DEF Progress
    <3>6. depth' \in 1..case.searchDepth
      BY <1>1, <3>1
    <3> QED
      BY <2>1, <3>5, <3>6 DEF Searching
  <2> QED
    BY <1>3, <2>2, <2>3 DEF CheckOptions
<1>4. CASE EndPass
  <2>1. /\ case' = case /\ Followed' /\ PassedColls' = PassedColls
        /\ Connected(digests)' = Connected(digests) /\ (Stable' <=> Stable)
        /\ Followed /\ Progress /\ depth \in 1..case.searchDepth
    BY <1>2, <1>4 DEF EndPass, Searching
  <2>2. CASE ~ (depth < case.searchDepth)
    BY <1>4, <2>2 DEF EndPass, Searching
  <2>3. CASE depth < case.searchDepth
    <3>1. depth' = depth + 1 /\ todo = {} /\ todo' = case.steps /\ phase' = "search"
      BY <1>4, <2>3 DEF EndPass
    <3>2. depth' \in 1..case.searchDepth
      BY <1>1, <2>1, <2>3, <3>1
    <3>3. CASE Stable
      BY <2>1, <3>2, <3>3 DEF Searching, Progress
    <3>4. CASE Cardinality(PassedColls) >= depth
      <4>1. \A c \in Connected(digests)' : case'.coll[c].step \in todo'
        BY <2>1, <3>1 DEF Connected, InPolicy
      <4>2. depth' - 1 = depth
        BY <2>1, <3>1
      <4>3. Progress'
        BY <2>1, <3>4, <4>1, <4>2 DEF Progress
      <4> QED
        BY <2>1, <3>2, <4>3 DEF Searching
    <3>5. CASE \A c \in Connected(digests) : case.coll[c].step \in todo \/ c \in PassedColls
      <4>1. Stable
        BY <3>1, <3>5 DEF Stable
      <4> QED
        BY <3>3, <4>1
    <3> QED
      BY <2>1, <3>3, <3>4, <3>5 DEF Progress
  <2> QED
    BY <2>2, <2>3
<1>5. ASSUME NEW s \in Step, SearchStep(s) PROVE Searching'
  <2>1. Followed /\ Progress /\ depth \in 1..case.searchDepth
    BY <1>5, SearchEffect DEF Searching
  <2>2. Followed' /\ Progress'
    BY <1>1, <1>5, <2>1, FollowedStep, ProgressStep
  <2> QED
    BY <1>5, <2>1, <2>2, SearchEffect DEF Searching
<1>6. CASE SearchFails \/ Conclude
  BY <1>6 DEF SearchFails, Conclude, Searching
<1>7. ASSUME NEW s \in Step, ArtifactStep(s) PROVE Searching'
  BY <1>7 DEF ArtifactStep, Searching
<1>8. CASE UNCHANGED vars
  BY <1>2, <1>8 DEF vars, Searching, Progress
<1> QED
  BY <1>3, <1>4, <1>5, <1>6, <1>7, <1>8 DEF Next

\* After enough passes nothing is left to find.
LEMMA EnoughPasses ==
  ASSUME PTypes, Followed, Progress, depth = case.searchDepth, todo = {},
         case.searchDepth >= Cardinality({c \in Coll : InPolicy(c)})
  PROVE  Stable
<1> DEFINE All == {c \in Coll : InPolicy(c)}
<1>1. CASE Cardinality(PassedColls) >= depth
  <2>1. PassedColls \subseteq All /\ All \subseteq Coll
    BY PassedAreInPolicy
  <2>2. /\ IsFiniteSet(All) /\ Cardinality(All) \in Nat
        /\ Cardinality(PassedColls) \in Nat
    BY CollsAreFinite, <2>1
  <2>3. /\ Cardinality(PassedColls) <= Cardinality(All)
        /\ (Cardinality(PassedColls) = Cardinality(All) => PassedColls = All)
    BY <2>1, <2>2, FS_Subset
  <2>4. Cardinality(PassedColls) >= Cardinality(All)
    BY <1>1, <2>2 DEF PTypes
  <2>5. PassedColls = All
    BY <2>2, <2>3, <2>4
  <2> QED
    BY <2>5 DEF Stable, Connected
<1>2. CASE \A c \in Connected(digests) : case.coll[c].step \in todo \/ c \in PassedColls
  BY <1>2 DEF Stable
<1> QED
  BY <1>1, <1>2 DEF Progress

\* Then what is known is exactly what is connected.
LEMMA StableIsComplete ==
  ASSUME PTypes, SearchIsSound, Followed, Stable
  PROVE  /\ digests = Reachable
         /\ \A s \in case.steps :
              ToSet(passed[s]) = {c \in Coll : /\ case.coll[c].step = s
                                               /\ Accepted(c)
                                               /\ case.coll[c].subjects \cap Reachable # {}}
<1>1. Closed(digests)
  BY DEF Closed, Stable, Connected, Followed
<1>2. digests = Reachable
  BY <1>1, ReachableIsLeast DEF PTypes, SearchIsSound
<1>3. case.steps \subseteq Step
  BY CaseTypes DEF PTypes
<1>4. ASSUME NEW s \in case.steps, NEW c \in ToSet(passed[s])
      PROVE  c \in Coll
  BY <1>3, <1>4 DEF ToSet, PTypes
<1>5. ASSUME NEW c \in Coll, case.coll[c].step \in case.steps, Accepted(c),
             case.coll[c].subjects \cap Reachable # {}
      PROVE  c \in ToSet(passed[case.coll[c].step])
  <2>1. c \in Connected(digests)
    BY <1>2, <1>5 DEF Connected, InPolicy
  <2> QED
    BY <2>1 DEF Stable, PassedColls
<1> QED
  BY <1>2, <1>3, <1>4, <1>5 DEF SearchIsSound

LEMMA CompleteStep == PInv /\ [Next]_vars => SearchIsComplete'
<1> SUFFICES ASSUME PInv, [Next]_vars, phase' \in {"artifacts", "done"},
                    (case.searchDepth >= Cardinality({c \in Coll : InPolicy(c)}))'
             PROVE  SearchIsComplete'
  BY DEF SearchIsComplete
<1>1. PTypes /\ SearchIsSound /\ Searching /\ SearchIsComplete
  BY DEF PInv
<1>2. case' = case
  BY DEF Next, vars, CheckOptions, SearchFails, EndPass, Conclude, SearchStep,
     ArtifactStep
<1>3. /\ Reachable' = Reachable
      /\ \A c : (Accepted(c)' <=> Accepted(c)) /\ (InPolicy(c)' <=> InPolicy(c))
  BY <1>2, SameCase
<1>4. case.searchDepth >= Cardinality({c \in Coll : InPolicy(c)})
  BY <1>2 DEF InPolicy
<1>5. CASE phase = "search"
  <2>1. EndPass /\ ~ (depth < case.searchDepth)
    BY <1>5 DEF Next, vars, CheckOptions, SearchFails, EndPass, Conclude, SearchStep,
       ArtifactStep
  <2>2. Followed /\ Progress /\ depth \in 1..case.searchDepth
    BY <1>1, <1>5 DEF Searching
  <2>3. depth = case.searchDepth
    BY <1>1, <2>1, <2>2, CaseTypes DEF PTypes
  <2>4. Stable
    BY <1>1, <1>4, <2>1, <2>2, <2>3, EnoughPasses DEF EndPass
  <2>5. searched' = passed /\ digests' = digests
    BY <2>1 DEF EndPass
  <2> QED
    BY <1>1, <1>2, <1>3, <2>2, <2>4, <2>5, StableIsComplete DEF SearchIsComplete
<1>6. CASE phase # "search"
  <2>1. /\ phase \in {"artifacts", "done"}
        /\ searched' = searched /\ digests' = digests
    BY <1>6 DEF Next, vars, CheckOptions, SearchFails, EndPass, Conclude, SearchStep,
       ArtifactStep
  <2> QED
    BY <1>1, <1>2, <1>3, <1>4, <2>1 DEF SearchIsComplete
<1> QED
  BY <1>5, <1>6

-----------------------------------------------------------------------------
(* The verdict does not depend on the order of the steps                   *)

\* A step that verifies against what is left also verifies against what the
\* search found.
LEMMA StillHolds ==
  ASSUME PTypes, NEW s \in Step,
         \A t \in Step : passed[t] \in {searched[t], <<>>},
         NEW c \in ToSet(passed[s]), verifyCollectionArtifacts(s, c, passed)
  PROVE  Holds(s)
<1>1. case.artifactsFrom[s] \subseteq Step
  BY CaseTypes DEF PTypes
<1>2. passed[s] = searched[s]
  BY EmptySet
<1>3. \A a \in case.artifactsFrom[s] : passed[a] # <<>> /\ passed[a] = searched[a]
  BY <1>1 DEF verifyCollectionArtifacts
<1>4. verifyCollectionArtifacts(s, c, searched)
  BY <1>3 DEF verifyCollectionArtifacts
<1> QED
  BY <1>2, <1>4 DEF Holds

\* What a comparison of step s does to the results.
LEMMA ComparingArtifacts ==
  ASSUME PTypes, Comparing, NEW s \in Step, ArtifactStep(s)
  PROVE  Comparing'
<1>1. /\ phase = "artifacts" /\ phase' = "artifacts" /\ s \in todo
      /\ todo' = todo \ {s} /\ case' = case /\ searched' = searched
  BY DEF ArtifactStep
<1>2. /\ \A t \in Step : passed[t] \in {searched[t], <<>>}
      /\ \A t \in case.steps \ todo : ~ Holds(t) => passed[t] = <<>>
      /\ ReferenceVerdict => passed = searched
  BY <1>1 DEF Comparing
<1>3. /\ \A t : Holds(t)' <=> Holds(t)
      /\ ReferenceVerdict' <=> ReferenceVerdict
  BY <1>1 DEF Holds, ReferenceVerdict, verifyCollectionArtifacts, compareArtifacts
<1>4. s \in case.steps /\ case.steps \subseteq Step
  BY <1>1, CaseTypes DEF PTypes
<1>5. CASE \E c \in ToSet(passed[s]) : verifyCollectionArtifacts(s, c, passed)
  <2>1. passed' = passed
    BY <1>5 DEF ArtifactStep
  <2>2. Holds(s)
    BY <1>2, <1>5, StillHolds
  <2>3. \A t \in case.steps \ todo' : ~ Holds(t) => passed'[t] = <<>>
    BY <1>1, <1>2, <2>1, <2>2
  <2> QED
    BY <1>1, <1>2, <1>3, <2>1, <2>3 DEF Comparing
<1>6. CASE ~ \E c \in ToSet(passed[s]) : verifyCollectionArtifacts(s, c, passed)
  <2>1. passed' = [passed EXCEPT ![s] = <<>>]
    BY <1>6 DEF ArtifactStep
  <2>2. \A t \in Step : passed'[t] = IF t = s THEN <<>> ELSE passed[t]
    BY <2>1 DEF PTypes
  <2>3. ~ ReferenceVerdict
    <3>1. ASSUME ReferenceVerdict PROVE FALSE
      BY <1>2, <1>4, <1>6, <3>1 DEF ReferenceVerdict
    <3> QED
      BY <3>1
  <2>4. \A t \in case.steps \ todo' : ~ Holds(t) => passed'[t] = <<>>
    BY <1>1, <1>2, <1>4, <2>2
  <2>5. \A t \in Step : passed'[t] \in {searched[t], <<>>}
    BY <1>2, <2>2
  <2> QED
    BY <1>1, <1>3, <2>3, <2>4, <2>5 DEF Comparing
<1> QED
  BY <1>5, <1>6

LEMMA ComparingStep == PInv /\ [Next]_vars => Comparing'
<1> SUFFICES ASSUME PInv, [Next]_vars PROVE Comparing'
  OBVIOUS
<1>1. PTypes /\ Comparing
  BY DEF PInv
<1>2. CASE CheckOptions \/ SearchFails
  BY <1>2 DEF CheckOptions, SearchFails, Comparing
<1>3. CASE EndPass
  BY <1>3 DEF EndPass, Comparing
<1>4. CASE Conclude
  <2>1. /\ case' = case /\ searched' = searched /\ passed' = passed
        /\ todo' = {} /\ todo = {} /\ phase = "artifacts" /\ phase' = "done"
        /\ verdict' = \A s \in case.steps : passed[s] # <<>>
    BY <1>4 DEF Conclude, Analyze
  <2>2. /\ \A t : Holds(t)' <=> Holds(t)
        /\ ReferenceVerdict' <=> ReferenceVerdict
    BY <2>1 DEF Holds, ReferenceVerdict, verifyCollectionArtifacts, compareArtifacts
  <2> QED
    BY <1>1, <2>1, <2>2 DEF Comparing
<1>5. ASSUME NEW s \in Step, SearchStep(s) PROVE Comparing'
  BY <1>5 DEF SearchStep, Comparing
<1>6. ASSUME NEW s \in Step, ArtifactStep(s) PROVE Comparing'
  BY <1>1, <1>6, ComparingArtifacts
<1>7. CASE UNCHANGED vars
  <2>1. /\ case' = case /\ searched' = searched /\ passed' = passed
        /\ todo' = todo /\ phase' = phase /\ verdict' = verdict
    BY <1>7 DEF vars
  <2>2. /\ \A t : Holds(t)' <=> Holds(t)
        /\ ReferenceVerdict' <=> ReferenceVerdict
    BY <2>1 DEF Holds, ReferenceVerdict, verifyCollectionArtifacts, compareArtifacts
  <2> QED
    BY <1>1, <2>1, <2>2 DEF Comparing
<1> QED
  BY <1>2, <1>3, <1>4, <1>5, <1>6, <1>7 DEF Next

LEMMA VerdictFollows == PTypes /\ Comparing => VerdictIgnoresStepOrder
<1> SUFFICES ASSUME PTypes, Comparing, phase = "done"
             PROVE  verdict = ReferenceVerdict
  BY DEF VerdictIgnoresStepOrder
<1>1. /\ \A s \in case.steps : ~ Holds(s) => passed[s] = <<>>
      /\ ReferenceVerdict => passed = searched
      /\ verdict = \A s \in case.steps : passed[s] # <<>>
  BY DEF Comparing
<1>2. ReferenceVerdict <=> \A s \in case.steps : Holds(s)
  BY DEF ReferenceVerdict, Holds
<1>3. \A s \in case.steps : Holds(s) => searched[s] # <<>>
  BY EmptySet DEF Holds
<1>4. ReferenceVerdict <=> \A s \in case.steps : passed[s] # <<>>
  BY <1>1, <1>2, <1>3
<1>5. ReferenceVerdict \in BOOLEAN
  BY DEF ReferenceVerdict
<1> QED
  BY <1>1, <1>4, <1>5

-----------------------------------------------------------------------------

\* The invariant of Policy.Verify.
THEOREM PolicyInvariant == Spec => []PInv
<1>1. PInv /\ [Next]_vars => PInv'
  BY TypesStep, SoundStep, SearchingStep, CompleteStep, ComparingStep DEF PInv
<1> QED
  BY Initially, <1>1, PTL DEF Spec

\* Whatever the source holds, in whatever order steps and collections come,
\* Verify only follows the back references of accepted collections that are
\* connected to the subject, and only these pass.
THEOREM SearchSound == Spec => []SearchIsSound
<1>1. PInv => SearchIsSound
  BY DEF PInv
<1> QED
  BY <1>1, PolicyInvariant, PTL

\* With as many passes as the policy's steps have collections Verify finds
\* every accepted collection that is connected to the subject.
THEOREM SearchComplete == Spec => []SearchIsComplete
<1>1. PInv => SearchIsComplete
  BY DEF PInv
<1> QED
  BY <1>1, PolicyInvariant, PTL

\* The verdict of verifyArtifacts is the one computed from the results of the
\* search alone, in whatever order it empties the results of the steps.
THEOREM VerdictOrder == Spec => []VerdictIgnoresStepOrder
<1>1. PInv => VerdictIgnoresStepOrder
  BY VerdictFollows DEF PInv
<1> QED
  BY <1>1, PolicyInvariant, PTL
=============================================================================
