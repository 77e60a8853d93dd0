--------------------------- MODULE AttestorsProofs ---------------------------
(***************************************************************************)
(* The attestors of the environment, of manifests, of files and of         *)
(* documents.                                                              *)
(*                                                                         *)
(* However many calls of Capture() overlap on one Capture, whatever is on  *)
(* the lists and whatever the options, a call that returns has hidden the  *)
(* sensitive keys and no others.  The argument: a map that some call may   *)
(* still read holds at least the default keys, unless they are disabled,   *)
(* and at most those and the additional ones.  A call reads it after it    *)
(* has itself added all of these, and no call ever takes one away; so by   *)
(* then it holds exactly the keys the options declare.                     *)
(*                                                                         *)
(* Whatever manifests there are and whichever dry runs succeed, what is    *)
(* recorded of an object is what is left of its own fields, since all that *)
(* a server adds is removed again.                                         *)
(*                                                                         *)
(* Whatever the file system holds, however its links lead and whatever the *)
(* command does to it, the products are the files that changed.  The       *)
(* argument: a walk comes to every file once, nothing else that it records *)
(* has the same path (what is found behind a link has the link's path as a *)
(* prefix, and a directory a separator at its end), and files are judged   *)
(* by the materials that the same argument gives for the first walk.  The  *)
(* path of a product leads to the file it was made from, since names can   *)
(* be followed part by part.  So a document that is read from there, with  *)
(* its digest checked or nothing written since, has the digest that is     *)
(* published with it.                                                      *)
(*                                                                         *)
(* Whatever there is to scan, a finding's path leads to the layer that     *)
(* holds it and nothing within reach is missed: what is passed over as     *)
(* seen before was found for a layer further out.                          *)
(***************************************************************************)
EXTENDS Attestors, SequenceTheorems, WellFoundedInduction, TLAPS

-----------------------------------------------------------------------------
(* Capture                                                                 *)


\* The list with which the options start, and all that it is to hold.
BaseKeys == IF options.disableDefault THEN {} ELSE DefaultKeys
AllKeys == BaseKeys \cup options.add

\* The map of New() is not one that a call reads when the defaults are disabled.
InUse(i) == i \in 1..Len(heap) /\ (options.disableDefault => i # 1)

EnvTypes ==
  /\ heap \in Seq(SUBSET (DefaultKeys \cup options.add))
  /\ current \in 1..Len(heap)
  /\ call \in [Caller -> {"begin", "alias", "add", "apply", "done"}]
  /\ final \in [Caller -> Nat]
  /\ toAdd \in [Caller -> SUBSET options.add]
  /\ DOMAIN captured = Caller

\* The maps in use lie between the two lists.
MapsAreBounded ==
  \A i \in 1..Len(heap) : InUse(i) => BaseKeys \subseteq heap[i] /\ heap[i] \subseteq AllKeys

\* What call c knows of the map it reads.
CallIsSound(c) ==
  /\ call[c] # "begin" => InUse(current)
  /\ call[c] \in {"add", "apply"} => InUse(final[c])
  /\ call[c] = "add" => options.add \ toAdd[c] \subseteq heap[final[c]]
  /\ call[c] = "apply" => options.add \subseteq heap[final[c]]
  /\ call[c] = "done" => captured[c] = Hide(AllKeys)

EnvInv == EnvTypes /\ MapsAreBounded /\ \A c \in Caller : CallIsSound(c)

-----------------------------------------------------------------------------

\* The invariant holds after New().
LEMMA EnvInitially == EnvInit => EnvInv
<1> SUFFICES ASSUME EnvInit PROVE EnvInv
  OBVIOUS
<1>1. heap \in Seq(SUBSET (DefaultKeys \cup options.add)) /\ Len(heap) = 1
  BY DEF EnvInit
<1>2. EnvTypes
  BY <1>1 DEF EnvInit, EnvTypes
<1>3. MapsAreBounded
  BY <1>1 DEF EnvInit, MapsAreBounded, InUse, BaseKeys, AllKeys
<1>4. \A c \in Caller : CallIsSound(c)
  BY DEF EnvInit, CallIsSound
<1> QED
  BY <1>2, <1>3, <1>4 DEF EnvInv

\* Maps only grow, within AllKeys, and none in use is dropped: so what a call
\* knows stays true while it does not move itself.
LEMMA OthersStaySound ==
  ASSUME EnvInv, options' = options, NEW c \in Caller,
         Len(heap') >= Len(heap), Len(heap') \in Nat,
         \A i \in 1..Len(heap) : heap[i] \subseteq heap'[i],
         InUse(current) => InUse(current)',
         call'[c] = call[c], final'[c] = final[c], toAdd'[c] = toAdd[c],
         captured'[c] = captured[c]
  PROVE  CallIsSound(c)'
<1>1. Len(heap) \in Nat
  BY DEF EnvInv, EnvTypes
<1>2. call[c] \in {"add", "apply"} =>
        /\ InUse(final[c])
        /\ final'[c] \in 1..Len(heap')
        /\ (options'.disableDefault => final'[c] # 1)
        /\ heap[final[c]] \subseteq heap'[final[c]]
  BY <1>1 DEF EnvInv, CallIsSound, InUse
<1>3. AllKeys' = AllKeys /\ Hide(AllKeys)' = Hide(AllKeys)
  BY DEF AllKeys, BaseKeys, Hide, ActedOn
<1>4. CallIsSound(c)
  BY DEF EnvInv
<1> QED
  BY <1>2, <1>3, <1>4 DEF CallIsSound, InUse

\* Every step of every call keeps the invariant.
LEMMA EnvStep ==
  ASSUME EnvInv, [EnvNext]_envVars
  PROVE  EnvInv'
<1> USE DEF EnvInv
<1>1. Len(heap) \in Nat /\ \A i \in 1..Len(heap) : heap[i] \subseteq DefaultKeys \cup options.add
  BY DEF EnvTypes
<1>2. ASSUME NEW c \in Caller, ResetList(c) PROVE EnvInv'
  <2>1. /\ call' = [call EXCEPT ![c] = "alias"] /\ call[c] = "begin"
        /\ UNCHANGED <<options, final, toAdd, captured>>
    BY <1>2 DEF ResetList, Calling
  <2>2. CASE options.disableDefault
    <3>1. heap' = Append(heap, {}) /\ current' = Len(heap) + 1
      BY <1>2, <2>2 DEF ResetList
    <3>2. /\ Len(heap') = Len(heap) + 1 /\ heap'[Len(heap) + 1] = {}
          /\ \A i \in 1..Len(heap) : heap'[i] = heap[i]
      BY <3>1 DEF EnvTypes
    <3>3. Len(heap) >= 1
      BY <1>1 DEF EnvTypes
    <3>4. InUse(current)'
      BY <1>1, <3>1, <3>2, <3>3 DEF InUse
    <3>5. EnvTypes'
      BY <2>1, <3>1, <3>2, <1>1 DEF EnvTypes
    <3>6. MapsAreBounded'
      <4> SUFFICES ASSUME NEW i \in 1..Len(heap'), options'.disableDefault => i # 1
                   PROVE  BaseKeys' \subseteq heap'[i] /\ heap'[i] \subseteq AllKeys'
        BY DEF MapsAreBounded, InUse
      <4>1. BaseKeys' = {} /\ AllKeys' = AllKeys
        BY <2>1, <2>2 DEF BaseKeys, AllKeys
      <4>2. CASE i = Len(heap) + 1
        BY <4>1, <4>2, <3>2
      <4>3. CASE i \in 1..Len(heap)
        BY <4>1, <4>3, <3>2, <2>1 DEF MapsAreBounded, InUse
      <4> QED
        BY <4>2, <4>3, <3>2, <1>1
    <3>7. ASSUME NEW d \in Caller PROVE CallIsSound(d)'
      <4>1. CASE d = c
        BY <4>1, <2>1, <3>4 DEF CallIsSound, EnvTypes
      <4>2. CASE d # c
        <5>1. /\ call'[d] = call[d] /\ final'[d] = final[d] /\ toAdd'[d] = toAdd[d]
              /\ captured'[d] = captured[d]
          BY <4>2, <2>1 DEF EnvTypes
        <5> QED
          BY <5>1, <1>1, <2>1, <3>2, <3>4, OthersStaySound
      <4> QED
        BY <4>1, <4>2
    <3> QED
      BY <3>5, <3>6, <3>7
  <2>3. CASE ~ options.disableDefault
    <3>1. UNCHANGED <<heap, current>>
      BY <1>2, <2>3 DEF ResetList
    <3>2. EnvTypes' /\ InUse(current)'
      BY <2>1, <2>3, <3>1 DEF EnvTypes, InUse
    <3>3. MapsAreBounded'
      BY <2>1, <3>1 DEF MapsAreBounded, InUse, BaseKeys, AllKeys
    <3>4. ASSUME NEW d \in Caller PROVE CallIsSound(d)'
      <4>1. CASE d = c
        BY <4>1, <2>1, <3>2 DEF CallIsSound, EnvTypes
      <4>2. CASE d # c
        <5>1. call'[d] = call[d]
          BY <4>2, <2>1 DEF EnvTypes
        <5> QED
          BY <5>1, <1>1, <2>1, <3>1, <3>2, OthersStaySound
      <4> QED
        BY <4>1, <4>2
    <3> QED
      BY <3>2, <3>3, <3>4
  <2> QED
    BY <2>2, <2>3
<1>3. ASSUME NEW c \in Caller, AliasList(c) PROVE EnvInv'
  <2>1. /\ call' = [call EXCEPT ![c] = "add"] /\ call[c] = "alias"
        /\ final' = [final EXCEPT ![c] = current]
        /\ toAdd' = [toAdd EXCEPT ![c] = options.add]
        /\ UNCHANGED <<options, heap, current, captured>>
    BY <1>3 DEF AliasList, Calling, KeysToAdd
  <2>2. EnvTypes'
    BY <2>1 DEF EnvTypes
  <2>3. MapsAreBounded'
    BY <2>1 DEF MapsAreBounded, InUse, BaseKeys, AllKeys
  <2>4. InUse(current) /\ (\A i : InUse(i)' <=> InUse(i))
    BY <2>1 DEF CallIsSound, InUse
  <2>5. ASSUME NEW d \in Caller PROVE CallIsSound(d)'
    <3>1. CASE d = c
      <4>1. call'[c] = "add" /\ final'[c] = current /\ toAdd'[c] = options.add
        BY <2>1 DEF EnvTypes
      <4>2. InUse(current)' /\ InUse(final[c])'
        BY <2>1, <2>4, <4>1 DEF InUse
      <4> QED
        BY <3>1, <2>1, <4>1, <4>2 DEF CallIsSound
    <3>2. CASE d # c
      <4>1. call'[d] = call[d] /\ final'[d] = final[d] /\ toAdd'[d] = toAdd[d]
        BY <3>2, <2>1 DEF EnvTypes
      <4>2. InUse(current)'
        BY <2>1, <2>4 DEF InUse
      <4> QED
        BY <4>1, <4>2, <1>1, <2>1, OthersStaySound
    <3> QED
      BY <3>1, <3>2
  <2> QED
    BY <2>2, <2>3, <2>5
<1>4. ASSUME NEW c \in Caller, AddKey(c) PROVE EnvInv'
  <2>1. PICK k \in toAdd[c] :
          /\ heap' = [heap EXCEPT ![final[c]] = heap[final[c]] \cup {k}]
          /\ toAdd' = [toAdd EXCEPT ![c] = toAdd[c] \ {k}]
    BY <1>4 DEF AddKey
  <2>2. call[c] = "add" /\ UNCHANGED <<options, current, call, final, captured>>
    BY <1>4 DEF AddKey, Calling
  <2>3. InUse(final[c]) /\ final[c] \in 1..Len(heap) /\ k \in options.add
    BY <2>1, <2>2 DEF CallIsSound, InUse, EnvTypes
  <2>4. /\ Len(heap') = Len(heap)
        /\ heap'[final[c]] = heap[final[c]] \cup {k}
        /\ \A i \in 1..Len(heap) : i # final[c] => heap'[i] = heap[i]
        /\ heap' \in Seq(SUBSET (DefaultKeys \cup options.add))
    BY <2>1, <2>3, <1>1 DEF EnvTypes
  <2>5. EnvTypes'
    BY <2>1, <2>2, <2>4 DEF EnvTypes
  <2>6. \A i : InUse(i)' <=> InUse(i)
    BY <2>2, <2>4 DEF InUse
  <2>7. BaseKeys' = BaseKeys /\ AllKeys' = AllKeys /\ options.add \subseteq AllKeys
    BY <2>2 DEF BaseKeys, AllKeys
  <2>8. MapsAreBounded'
    <3> SUFFICES ASSUME NEW i \in 1..Len(heap'), InUse(i)'
                 PROVE  BaseKeys' \subseteq heap'[i] /\ heap'[i] \subseteq AllKeys'
      BY DEF MapsAreBounded
    <3>1. BaseKeys \subseteq heap[i] /\ heap[i] \subseteq AllKeys
      BY <2>4, <2>6 DEF MapsAreBounded
    <3> QED
      BY <3>1, <2>3, <2>4, <2>7
  <2>9. ASSUME NEW d \in Caller PROVE CallIsSound(d)'
    <3>1. CASE d = c
      <4>1. toAdd'[c] = toAdd[c] \ {k}
        BY <2>1 DEF EnvTypes
      <4>2. options.add \ toAdd[c] \subseteq heap[final[c]]
        BY <2>2 DEF CallIsSound
      <4>3. options'.add \ toAdd'[c] \subseteq heap'[final'[c]]
        BY <4>1, <4>2, <2>2, <2>4
      <4>4. InUse(current)' /\ InUse(final[c])'
        BY <2>2, <2>3, <2>4 DEF InUse, CallIsSound
      <4> QED
        BY <3>1, <4>3, <4>4, <2>2 DEF CallIsSound
    <3>2. CASE d # c
      <4>1. toAdd'[d] = toAdd[d]
        BY <3>2, <2>1 DEF EnvTypes
      <4>2. \A i \in 1..Len(heap) : heap[i] \subseteq heap'[i]
        BY <2>4
      <4>3. InUse(current) => InUse(current)'
        BY <2>2, <2>4 DEF InUse
      <4> QED
        BY <4>1, <4>2, <4>3, <1>1, <2>2, <2>4, OthersStaySound
    <3> QED
      BY <3>1, <3>2
  <2> QED
    BY <2>5, <2>8, <2>9
<1>5. ASSUME NEW c \in Caller, AddedKeys(c) PROVE EnvInv'
  <2>1. /\ call' = [call EXCEPT ![c] = "apply"] /\ call[c] = "add" /\ toAdd[c] = {}
        /\ UNCHANGED <<options, heap, current, final, toAdd, captured>>
    BY <1>5 DEF AddedKeys, Calling
  <2>2. EnvTypes' /\ MapsAreBounded'
    BY <2>1 DEF EnvTypes, MapsAreBounded, InUse, BaseKeys, AllKeys
  <2>3. ASSUME NEW d \in Caller PROVE CallIsSound(d)'
    <3>1. CASE d = c
      BY <3>1, <2>1 DEF CallIsSound, InUse, EnvTypes
    <3>2. CASE d # c
      <4>1. call'[d] = call[d] /\ (InUse(current) => InUse(current)')
        BY <3>2, <2>1 DEF EnvTypes, InUse
      <4> QED
        BY <4>1, <1>1, <2>1, OthersStaySound
    <3> QED
      BY <3>1, <3>2
  <2> QED
    BY <2>2, <2>3
<1>6. ASSUME NEW c \in Caller, Apply(c) PROVE EnvInv'
  <2>1. /\ call' = [call EXCEPT ![c] = "done"] /\ call[c] = "apply"
        /\ captured' = [captured EXCEPT ![c] = Hide(heap[final[c]])]
        /\ UNCHANGED <<options, heap, current, final, toAdd>>
    BY <1>6 DEF Apply, Calling
  <2>2. heap[final[c]] = AllKeys
    <3>1. InUse(final[c]) /\ options.add \subseteq heap[final[c]]
      BY <2>1 DEF CallIsSound
    <3>2. BaseKeys \subseteq heap[final[c]] /\ heap[final[c]] \subseteq AllKeys
      BY <3>1 DEF MapsAreBounded, InUse
    <3> QED
      BY <3>1, <3>2 DEF AllKeys
  <2>3. EnvTypes' /\ MapsAreBounded'
    BY <2>1 DEF EnvTypes, MapsAreBounded, InUse, BaseKeys, AllKeys
  <2>4. ASSUME NEW d \in Caller PROVE CallIsSound(d)'
    <3>1. CASE d = c
      <4>1. call'[c] = "done" /\ captured'[c] = Hide(AllKeys)
        BY <2>1, <2>2 DEF EnvTypes
      <4>2. Hide(AllKeys)' = Hide(AllKeys)
        BY <2>1 DEF AllKeys, BaseKeys, Hide, ActedOn
      <4>3. InUse(current)'
        BY <2>1 DEF CallIsSound, InUse
      <4> QED
        BY <3>1, <4>1, <4>2, <4>3 DEF CallIsSound
    <3>2. CASE d # c
      <4>1. /\ call'[d] = call[d] /\ captured'[d] = captured[d]
            /\ (InUse(current) => InUse(current)')
        BY <3>2, <2>1 DEF EnvTypes, InUse
      <4> QED
        BY <4>1, <1>1, <2>1, OthersStaySound
    <3> QED
      BY <3>1, <3>2
  <2> QED
    BY <2>3, <2>4
<1>7. ASSUME UNCHANGED envVars PROVE EnvInv'
  BY <1>7 DEF envVars, EnvTypes, MapsAreBounded, CallIsSound, InUse, BaseKeys, AllKeys,
              Hide, ActedOn
<1> QED
  BY <1>2, <1>3, <1>4, <1>5, <1>6, <1>7 DEF EnvNext

\* The inductive invariant: how far each call is, and what the map it aliased
\* is sure to hold.
THEOREM CaptureInvariant == EnvSpec => []EnvInv
<1>1. EnvInv /\ [EnvNext]_envVars => EnvInv'
  BY EnvStep
<1> QED
  BY EnvInitially, <1>1, PTL DEF EnvSpec

\* Every call of Capture() that returns hides the values of the sensitive keys
\* and shows all others, for any number of overlapping calls, any lists and any
\* options.
THEOREM SensitiveValuesAreHidden == EnvSpec => []CaptureHidesSensitiveValues
<1>1. EnvInv => CaptureHidesSensitiveValues
  <2> SUFFICES ASSUME EnvInv, NEW c \in Caller, call[c] = "done", NEW k \in Variables
               PROVE  (k \in DOMAIN captured[c] /\ captured[c][k] = "plain")
                        <=> k \notin Sensitive
    BY DEF CaptureHidesSensitiveValues
  <2>1. captured[c] = Hide(AllKeys)
    BY DEF EnvInv, CallIsSound
  <2>2. Sensitive = ActedOn(AllKeys)
    BY DEF Sensitive, AllKeys, BaseKeys
  <2>3. CASE options.filter
    <3>1. captured[c] = [x \in Variables \ Sensitive |-> "plain"]
      BY <2>1, <2>2, <2>3 DEF Hide
    <3> QED
      BY <3>1
  <2>4. CASE ~ options.filter
    <3>1. captured[c] = [x \in Variables |-> IF x \in Sensitive THEN "hidden" ELSE "plain"]
      BY <2>1, <2>2, <2>4 DEF Hide
    <3> QED
      BY <3>1
  <2> QED
    BY <2>3, <2>4
<1> QED
  BY <1>1, CaptureInvariant, PTL

-----------------------------------------------------------------------------
(* The manifests                                                           *)

\* The data of each recorded document is a function of the document and of
\* whether its dry run succeeded.
DataOf(r) == FinalFields(r.kind, r.of.fields, r.served)

K8sInv ==
  /\ \E S : recorded \in Seq(S)
  /\ \A i \in DOMAIN recorded : recorded[i].data = DataOf(recorded[i])

LEMMA DocumentStep ==
  ASSUME K8sInv, processDoc
  PROVE  K8sInv'
<1> DEFINE d == Head(queue).doc
<1>1. PICK served \in {FALSE, kopt.dryRun} :
        \/ recorded' = Append(recorded, [file |-> Head(queue).file, kind |-> d.kind,
                                         name |-> d.name,
                                         data |-> FinalFields(d.kind, d.fields, served),
                                         of |-> d, served |-> served])
        \/ recorded' = recorded
  BY DEF processDoc
<1> DEFINE r == [file |-> Head(queue).file, kind |-> d.kind, name |-> d.name,
                 data |-> FinalFields(d.kind, d.fields, served), of |-> d, served |-> served]
<1>2. r.data = DataOf(r)
  <2>1. /\ r.of = d /\ r.kind = d.kind /\ r.served = served
        /\ r.data = FinalFields(d.kind, d.fields, served)
    OBVIOUS
  <2> QED
    BY <2>1 DEF DataOf
<1>3. recorded' = Append(recorded, r) \/ recorded' = recorded
  BY <1>1
<1> HIDE DEF r
<1>4. kopt' = kopt
  BY DEF processDoc
<1>5. PICK S : recorded \in Seq(S)
  BY DEF K8sInv
<1>6. CASE recorded' = Append(recorded, r)
  <2> DEFINE T == S \cup {r}
  <2>1. recorded \in Seq(T) /\ r \in T
    BY <1>5
  <2> HIDE DEF T
  <2>2. Len(recorded) \in Nat /\ DOMAIN recorded = 1 .. Len(recorded)
    BY <2>1
  <2>3. /\ recorded' \in Seq(T) /\ DOMAIN recorded' = 1 .. (Len(recorded) + 1)
        /\ \A i \in 1 .. Len(recorded) : recorded'[i] = recorded[i]
        /\ recorded'[Len(recorded) + 1] = r
    BY <1>6, <2>1, <2>2
  <2>4. \A i \in 1 .. (Len(recorded) + 1) : i \in 1 .. Len(recorded) \/ i = Len(recorded) + 1
    BY <2>2
  <2>5. \A i \in DOMAIN recorded' : recorded'[i].data = DataOf(recorded'[i])
    BY <1>2, <2>2, <2>3, <2>4 DEF K8sInv
  <2>6. \A i \in DOMAIN recorded' : recorded'[i].data = DataOf(recorded[i])'
    BY <1>4, <2>5 DEF DataOf, FinalFields, DryRun, Clean
  <2> QED
    BY <2>3, <2>6 DEF K8sInv
<1>7. CASE recorded' = recorded
  BY <1>4, <1>7 DEF K8sInv, DataOf, FinalFields, DryRun, Clean
<1> QED
  BY <1>3, <1>6, <1>7

\* The invariant of the manifest attestor.
THEOREM ManifestInvariant == K8sSpec => []K8sInv
<1>1. K8sInit => K8sInv
  <2>1. K8sInit => recorded = <<>> /\ recorded \in Seq({}) /\ DOMAIN recorded = {}
    BY DEF K8sInit
  <2> QED
    BY <2>1 DEF K8sInv
<1>2. K8sInv /\ [K8sNext]_k8sVars => K8sInv'
  <2> SUFFICES ASSUME K8sInv, [K8sNext]_k8sVars PROVE K8sInv'
    OBVIOUS
  <2>1. CASE processDoc
    BY <2>1, DocumentStep
  <2>2. CASE UNCHANGED <<recorded, kopt>>
    BY <2>2 DEF K8sInv, DataOf, FinalFields, DryRun, Clean
  <2> QED
    BY <2>1, <2>2 DEF K8sNext, K8sBegin, ReadManifest, K8sEnd, k8sVars
<1> QED
  BY <1>1, <1>2, PTL DEF K8sSpec

\* processDoc records the same data for objects that differ only in what belongs
\* to the server or the options ignore, if the dry run went the same way for both,
\* and data that differ in the server's defaults alone, if it did not.
THEOREM DataIsStable == K8sSpec => []RecordedDataIsStable
<1>1. K8sInv => RecordedDataIsStable
  <2> SUFFICES ASSUME K8sInv, NEW i \in DOMAIN recorded, NEW j \in DOMAIN recorded,
                      recorded[i].kind = recorded[j].kind,
                      Clean(recorded[i].of.fields) = Clean(recorded[j].of.fields)
               PROVE  /\ recorded[i].served = recorded[j].served
                           => recorded[i].data = recorded[j].data
                      /\ recorded[i].data \ ServerDefaults[recorded[i].kind]
                           = recorded[j].data \ ServerDefaults[recorded[i].kind]
    BY DEF RecordedDataIsStable
  <2> DEFINE k == recorded[i].kind
             F(x, b) == FinalFields(k, recorded[x].of.fields, b)
  <2>1. ASSUME NEW b PROVE F(i, b) = F(j, b)
    BY DEF FinalFields, DryRun, Clean
  <2>2. ASSUME NEW x, NEW b PROVE F(x, b) \ ServerDefaults[k] = F(x, FALSE) \ ServerDefaults[k]
    BY DEF FinalFields, DryRun, Clean
  <2>3. recorded[i].data = F(i, recorded[i].served) /\ recorded[j].data = F(j, recorded[j].served)
    BY DEF K8sInv, DataOf
  <2> HIDE DEF F
  <2>4. recorded[i].served = recorded[j].served => recorded[i].data = recorded[j].data
    BY <2>1, <2>3
  <2>5. recorded[i].data \ ServerDefaults[k] = F(i, FALSE) \ ServerDefaults[k]
    BY <2>2, <2>3
  <2>6. recorded[j].data \ ServerDefaults[k] = F(j, FALSE) \ ServerDefaults[k]
    BY <2>2, <2>3
  <2>7. F(i, FALSE) = F(j, FALSE)
    BY <2>1
  <2> QED
    BY <2>4, <2>5, <2>6, <2>7
<1> QED
  BY <1>1, ManifestInvariant, PTL

-----------------------------------------------------------------------------
(* The file recorder                                                       *)

\* A set of positions has a first one.
LEMMA FirstPosition ==
  ASSUME NEW T \in SUBSET Nat, T # {}
  PROVE  Min(T) \in T /\ \A y \in T : Min(T) <= y
<1> DEFINE Less == {ss \in Nat \X Nat : ss[1] < ss[2]}
<1>1. IsWellFoundedOn(Less, Nat)
  BY Zenon, NatLessThanWellFounded DEF OpToRel
<1> HIDE DEF Less
<1>2. PICK x \in T : \A y \in T : ~ (<<y, x>> \in Less)
  BY <1>1, WFMin
<1>3. \A y \in T : ~ (y < x)
  <2> SUFFICES ASSUME NEW y \in T, y < x PROVE FALSE
    OBVIOUS
  <2>1. <<y, x>> \in Less
    BY DEF Less
  <2> QED
    BY <1>2, <2>1
<1>4. \A y \in T : x <= y
  BY <1>3
<1> QED
  BY <1>4 DEF Min

\* Prefixes, element by element.
LEMMA PrefixFacts ==
  ASSUME NEW S, NEW x \in Seq(S), NEW q \in Seq(S)
  PROVE  IsPrefix(x, q) <=> Len(x) <= Len(q) /\ \A i \in 1..Len(x) : x[i] = q[i]
<1>1. Len(x) \in Nat /\ Len(q) \in Nat /\ SubSeq(x, 1, Len(x)) = x
  BY SubSeqFull
<1>2. ASSUME Len(x) <= Len(q)
      PROVE  /\ SubSeq(q, 1, Len(x)) \in Seq(S)
             /\ Len(SubSeq(q, 1, Len(x))) = Len(x)
             /\ \A i \in 1..Len(x) : SubSeq(q, 1, Len(x))[i] = q[i]
  <2>1. \A i \in 1..Len(x) : q[i] \in S
    BY <1>1, <1>2, ElementOfSeq
  <2> QED
    BY <1>1, <2>1, SubSeqProperties
<1> QED
  BY <1>1, <1>2, SeqEqual DEF IsPrefix

LEMMA FrontFacts ==
  ASSUME NEW S, NEW p \in Seq(S), p # <<>>
  PROVE  /\ Front(p) \in Seq(S)
         /\ Len(Front(p)) = Len(p) - 1
         /\ \A i \in 1..(Len(p) - 1) : Front(p)[i] = p[i]
<1>1. Len(p) \in Nat /\ Len(p) # 0 /\ \A i \in 1..(Len(p) - 1) : p[i] \in S
  BY ElementOfSeq, EmptySeq
<1> DEFINE n == Len(p) - 1
<1>2. n \in Nat
  BY <1>1
<1>3. /\ SubSeq(p, 1, n) \in Seq(S)
      /\ Len(SubSeq(p, 1, n)) = n
      /\ \A i \in 1..n : SubSeq(p, 1, n)[i] = p[i]
  <2>1. \A i \in 1..n : p[i] \in S
    BY <1>1
  <2> HIDE DEF n
  <2> QED
    BY <1>2, <2>1, SubSeqProperties
<1> QED
  BY <1>3 DEF Front

\* A path below a base, and what is left of it.
LEMMA RelFacts ==
  ASSUME NEW S, NEW base \in Seq(S), NEW p \in Seq(S), IsPrefix(base, p)
  PROVE  /\ Rel(base, p) \in Seq(S)
         /\ Len(Rel(base, p)) = Len(p) - Len(base)
         /\ \A i \in 1..(Len(p) - Len(base)) : Rel(base, p)[i] = p[Len(base) + i]
         /\ base \o Rel(base, p) = p
<1>1. /\ Len(base) \in Nat /\ Len(p) \in Nat /\ Len(base) <= Len(p)
      /\ \A i \in 1..Len(base) : base[i] = p[i]
  BY PrefixFacts
<1> DEFINE r == Rel(base, p)
<1>2. \A i \in (Len(base) + 1)..Len(p) : p[i] \in S
  BY <1>1, ElementOfSeq
<1>3. /\ r \in Seq(S)
      /\ Len(r) = IF Len(base) + 1 <= Len(p) THEN Len(p) - (Len(base) + 1) + 1 ELSE 0
      /\ \A i \in 1..(Len(p) - (Len(base) + 1) + 1) : r[i] = p[Len(base) + 1 + i - 1]
  <2> HIDE DEF r
  <2>1. r = SubSeq(p, Len(base) + 1, Len(p))
    BY DEF r, Rel
  <2> QED
    BY <1>1, <1>2, <2>1, SubSeqProperties
<1> HIDE DEF r
<1>4. /\ Len(r) = Len(p) - Len(base)
      /\ \A i \in 1..(Len(p) - Len(base)) : r[i] = p[Len(base) + i]
  BY <1>1, <1>3
<1> DEFINE c == base \o r
<1>5. /\ c \in Seq(S)
      /\ Len(c) = Len(base) + Len(r)
      /\ \A i \in 1..(Len(base) + Len(r)) :
           c[i] = IF i <= Len(base) THEN base[i] ELSE r[i - Len(base)]
  BY <1>3, ConcatProperties
<1> HIDE DEF c
<1>6. Len(c) = Len(p)
  BY <1>1, <1>4, <1>5
<1>7. ASSUME NEW i \in 1..Len(p) PROVE c[i] = p[i]
  <2>1. i \in 1..(Len(base) + Len(r))
    BY <1>1, <1>4
  <2>2. CASE i <= Len(base)
    <3>1. i \in 1..Len(base)
      BY <1>1, <2>2
    <3> QED
      BY <1>1, <1>5, <2>1, <2>2, <3>1
  <2>3. CASE ~ (i <= Len(base))
    <3> DEFINE j == i - Len(base)
    <3>1. j \in 1..(Len(p) - Len(base)) /\ Len(base) + j = i
      BY <1>1, <2>3
    <3>2. c[i] = r[j]
      BY <1>5, <2>1, <2>3
    <3> HIDE DEF j
    <3> QED
      BY <1>4, <3>1, <3>2
  <2> QED
    BY <2>2, <2>3
<1>8. c = p
  BY <1>5, <1>6, <1>7, SeqEqual
<1> QED
  BY <1>3, <1>4, <1>8 DEF r, c

\* The paths there may be, and where they are in the order of a walk.
LEMMA PathFacts ==
  /\ Path \subseteq Seq(Element)
  /\ WorkingDir \in Seq(Element)
  /\ DOMAIN WalkOrder \in SUBSET Nat
  /\ \A i \in DOMAIN WalkOrder : WalkOrder[i] \in Path
  /\ \A q \in Path : \E i \in DOMAIN WalkOrder : WalkOrder[i] = q
BY WalkOrderAssumption DEF Path, ToSet

\* Two paths below one base: what is left of them tells them apart, and of a
\* prefix a prefix is left.
LEMMA SameBase ==
  ASSUME NEW S, NEW b \in Seq(S), NEW x \in Seq(S), NEW q \in Seq(S),
         IsPrefix(b, x), IsPrefix(b, q)
  PROVE  /\ Rel(b, x) = Rel(b, q) => x = q
         /\ IsPrefix(x, q) => SubSeq(Rel(b, q), 1, Len(Rel(b, x))) = Rel(b, x)
                             /\ Len(Rel(b, x)) \in 0..Len(Rel(b, q))
<1> DEFINE rx == Rel(b, x)
           rq == Rel(b, q)
<1>1. /\ Len(b) \in Nat /\ Len(x) \in Nat /\ Len(q) \in Nat
      /\ Len(b) <= Len(x) /\ Len(b) <= Len(q)
      /\ \A i \in 1..Len(b) : b[i] = x[i] /\ b[i] = q[i]
  BY PrefixFacts
<1>2. /\ rx \in Seq(S) /\ Len(rx) = Len(x) - Len(b)
      /\ \A i \in 1..(Len(x) - Len(b)) : rx[i] = x[Len(b) + i]
      /\ rq \in Seq(S) /\ Len(rq) = Len(q) - Len(b)
      /\ \A i \in 1..(Len(q) - Len(b)) : rq[i] = q[Len(b) + i]
      /\ b \o rx = x /\ b \o rq = q
  BY RelFacts
<1> HIDE DEF rx, rq
<1>3. rx = rq => x = q
  BY <1>2
<1>4. ASSUME IsPrefix(x, q)
      PROVE  SubSeq(rq, 1, Len(rx)) = rx /\ Len(rx) \in 0..Len(rq)
  <2>1. Len(x) <= Len(q) /\ \A i \in 1..Len(x) : x[i] = q[i]
    BY <1>4, PrefixFacts
  <2>2. Len(rx) <= Len(rq) /\ \A i \in 1..Len(rx) : rx[i] = rq[i]
    BY <1>1, <1>2, <2>1
  <2>3. IsPrefix(rx, rq)
    BY <1>2, <2>2, PrefixFacts
  <2>4. SubSeq(rx, 1, Len(rx)) = rx
    BY <1>2, SubSeqFull
  <2> QED
    BY <1>1, <1>2, <2>2, <2>3, <2>4 DEF IsPrefix
<1> QED
  BY <1>3, <1>4 DEF rx, rq

\* One link replaced, if there is one.
Hop(t, q) ==
  IF LinksOn(t, q) = {} THEN q
  ELSE LET i == Min(LinksOn(t, q))
       IN  At(t, SubSeq(q, 1, i)).target \o SubSeq(q, i + 1, Len(q))

\* h is the names that EvalSymlinks comes to, from p.
Hops(t, p, h) ==
  /\ h = [n \in 0..MaxLinks |-> h[n]]
  /\ h[0] = p
  /\ \A n \in 1..MaxLinks : h[n] = Hop(t, h[n - 1])

\* There is such an h.
LEMMA HopsThere ==
  ASSUME NEW t, NEW p
  PROVE  \E h : Hops(t, p, h) /\ Follow(t, p) = h[MaxLinks]
<1> DEFINE Replace(q) ==
             LET i == Min(LinksOn(t, q))
             IN  At(t, SubSeq(q, 1, i)).target \o SubSeq(q, i + 1, Len(q))
           G(h) == [n \in 0..MaxLinks |->
                      IF n = 0 THEN p
                      ELSE IF LinksOn(t, h[n - 1]) = {} THEN h[n - 1]
                      ELSE Replace(h[n - 1])]
           hop == CHOOSE h : h = G(h)
           UpTo(n, h) == /\ h[0] = p
                         /\ \A k \in 1..n : h[k] = Hop(t, h[k - 1])
           Bad == {n \in 0..MaxLinks : ~ \E h : UpTo(n, h)}
<1>1. Bad = {}
  <2> SUFFICES ASSUME Bad # {} PROVE FALSE
    OBVIOUS
  <2>1. Bad \in SUBSET Nat
    BY BoundsAssumption
  <2>2. PICK n \in Bad : \A m \in Bad : n <= m
    <3> HIDE DEF Bad
    <3> QED
      BY <2>1, FirstPosition
  <2>3. n # 0
    <3> SUFFICES ASSUME n = 0 PROVE FALSE
      OBVIOUS
    <3> DEFINE h == [k \in 0..MaxLinks |-> p]
    <3>1. h[0] = p
      BY BoundsAssumption
    <3> HIDE DEF h
    <3>2. UpTo(0, h)
      BY <3>1
    <3> QED
      BY <2>2, <3>2
  <2>4. n - 1 \in 0..MaxLinks /\ n \in Nat /\ n - 1 \notin Bad
    BY <2>1, <2>2, <2>3, BoundsAssumption
  <2>5. PICK h : UpTo(n - 1, h)
    BY <2>4
  <2> DEFINE g == [k \in 0..n |-> IF k = n THEN Hop(t, h[n - 1]) ELSE h[k]]
  <2>6. UpTo(n, g)
    <3>1. g[0] = p
      BY <2>3, <2>4, <2>5
    <3>2. ASSUME NEW k \in 1..n PROVE g[k] = Hop(t, g[k - 1])
      <4>1. g[k - 1] = h[k - 1]
        BY <2>4
      <4>2. CASE k = n
        BY <2>4, <4>1, <4>2
      <4>3. CASE k # n
        <5>1. k \in 1..(n - 1) /\ g[k] = h[k]
          BY <2>4, <4>3
        <5> QED
          BY <2>5, <4>1, <5>1
      <4> QED
        BY <4>2, <4>3
    <3> HIDE DEF g
    <3> QED
      BY <3>1, <3>2
  <2> QED
    BY <2>2, <2>6
<1>2. PICK h : UpTo(MaxLinks, h)
  BY <1>1, BoundsAssumption
<1> DEFINE e == [n \in 0..MaxLinks |-> h[n]]
<1>3. e = G(e)
  <2>1. ASSUME NEW n \in 0..MaxLinks
        PROVE  h[n] = IF n = 0 THEN p
                      ELSE IF LinksOn(t, e[n - 1]) = {} THEN e[n - 1]
                      ELSE Replace(e[n - 1])
    <3>1. CASE n = 0
      BY <1>2, <3>1
    <3>2. CASE n # 0
      <4>1. n \in 1..MaxLinks /\ n - 1 \in 0..MaxLinks
        BY <3>2, BoundsAssumption
      <4>2. h[n] = Hop(t, h[n - 1]) /\ e[n - 1] = h[n - 1]
        BY <1>2, <4>1
      <4> QED
        BY <3>2, <4>2 DEF Hop
    <3> QED
      BY <3>1, <3>2
  <2> HIDE DEF Replace
  <2> QED
    BY <2>1
<1>4. hop = G(hop)
  <2> HIDE DEF e, G
  <2> QED
    BY <1>3
<1>5. Follow(t, p) = hop[MaxLinks]
  BY DEF Follow
<1> HIDE DEF hop
<1>6. \A n \in 0..MaxLinks :
        hop[n] = IF n = 0 THEN p
                 ELSE IF LinksOn(t, hop[n - 1]) = {} THEN hop[n - 1]
                 ELSE Replace(hop[n - 1])
  <2>1. \A n \in 0..MaxLinks :
          G(hop)[n] = IF n = 0 THEN p
                      ELSE IF LinksOn(t, hop[n - 1]) = {} THEN hop[n - 1]
                      ELSE Replace(hop[n - 1])
    OBVIOUS
  <2> HIDE DEF G, Replace
  <2> QED
    BY <1>4, <2>1
<1>7. hop = [n \in 0..MaxLinks |-> hop[n]]
  <2> HIDE DEF Replace
  <2> QED
    BY <1>4, <1>6
<1>8. hop[0] = p
  BY <1>6, BoundsAssumption
<1>9. ASSUME NEW n \in 1..MaxLinks PROVE hop[n] = Hop(t, hop[n - 1])
  <2>1. n \in 0..MaxLinks /\ n # 0
    BY BoundsAssumption
  <2> QED
    BY <1>6, <2>1 DEF Hop
<1> QED
  BY <1>5, <1>7, <1>8, <1>9 DEF Hops

\* Without a link on the way nothing is replaced any more.
LEMMA HopsEnd ==
  ASSUME NEW t, NEW p, NEW h, Hops(t, p, h), NEW m \in 0..MaxLinks, LinksOn(t, h[m]) = {}
  PROVE  \A n \in m..MaxLinks : h[n] = h[m]
<1> DEFINE Bad == {n \in m..MaxLinks : h[n] # h[m]}
<1> SUFFICES ASSUME Bad # {} PROVE FALSE
  OBVIOUS
<1>1. Bad \in SUBSET Nat /\ m \in Nat
  BY BoundsAssumption
<1>2. PICK n \in Bad : \A k \in Bad : n <= k
  <2> HIDE DEF Bad
  <2> QED
    BY <1>1, FirstPosition
<1>3. n # m
  BY <1>2
<1>4. n - 1 \in m..MaxLinks /\ n \in 1..MaxLinks /\ n - 1 \notin Bad
  BY <1>1, <1>2, <1>3, BoundsAssumption
<1>5. h[n] = Hop(t, h[m])
  BY <1>4 DEF Hops
<1> QED
  BY <1>2, <1>5 DEF Hop
\* Nothing on the way to q is a link: q leads to itself.
LEMMA NoLinksOn ==
  ASSUME NEW t, DOMAIN t = Path, NEW q \in Path,
         \A x \in Path : IsPrefix(x, q) => t[x].kind # "link"
  PROVE  LinksOn(t, q) = {}
<1> SUFFICES ASSUME NEW i \in 1..Len(q), At(t, SubSeq(q, 1, i)).kind = "link"
             PROVE  FALSE
  BY DEF LinksOn
<1>1. SubSeq(q, 1, i) \in Path
  BY DEF At, Absent, Node
<1>2. IsPrefix(SubSeq(q, 1, i), q)
  <2>1. q \in Seq(Element) /\ Len(q) \in Nat /\ i \in Nat /\ i <= Len(q)
    BY PathFacts
  <2>2. \A j \in 1..i : q[j] \in Element
    BY <2>1, ElementOfSeq
  <2>3. /\ SubSeq(q, 1, i) \in Seq(Element) /\ Len(SubSeq(q, 1, i)) = i
        /\ \A j \in 1..i : SubSeq(q, 1, i)[j] = q[j]
    BY <2>1, <2>2, SubSeqProperties
  <2> QED
    BY <2>1, <2>3, PrefixFacts
<1> QED
  BY <1>1, <1>2 DEF At

LEMMA NoLinkToFollow ==
  ASSUME NEW t, DOMAIN t = Path, NEW q \in Path,
         \A x \in Path : IsPrefix(x, q) => t[x].kind # "link"
  PROVE  Follow(t, q) = q /\ CanFollow(t, q) /\ Lookup(t, q) = t[q]
<1>1. LinksOn(t, q) = {}
  BY NoLinksOn
<1>2. PICK h : Hops(t, q, h) /\ Follow(t, q) = h[MaxLinks]
  BY HopsThere
<1>3. 0 \in 0..MaxLinks /\ MaxLinks \in 0..MaxLinks /\ h[0] = q
  BY <1>2, BoundsAssumption DEF Hops
<1>4. h[MaxLinks] = q
  BY <1>1, <1>2, <1>3, HopsEnd
<1> QED
  BY <1>1, <1>2, <1>4 DEF Lookup, At, CanFollow

-----------------------------------------------------------------------------
(* The invariant of the recorder                                           *)

IsFrame(f) ==
  /\ f = [base |-> f.base, link |-> f.link, todo |-> f.todo, artifacts |-> f.artifacts]
  /\ f.base \in Seq(Element)
  /\ f.link \in Seq(Element)
  /\ f.todo \subseteq {i \in DOMAIN WalkOrder : IsPrefix(f.base, WalkOrder[i])}
  /\ DOMAIN f.artifacts \subseteq Seq(Element \cup {"/"})

\* The paths ProductsAreTheChanges is about: below the working directory, not
\* in a hashed directory and not behind a link.
Clear ==
  {q \in Path : /\ IsStrictPrefix(WorkingDir, q)
                /\ ~ InHashedDir(Rel(WorkingDir, q))
                /\ \A x \in Path : IsPrefix(x, q) => tree[x].kind # "link"}

\* Artifacts A have path q of tree t, with its digest, exactly when B holds.
Tells(A, t, q, B) ==
  /\ Rel(WorkingDir, q) \in DOMAIN A <=> B
  /\ Rel(WorkingDir, q) \in DOMAIN A =>
       A[Rel(WorkingDir, q)] = CalculateDigestSet(t[q].content)

\* What shouldRecord says of a file of tree t.
Should(t, q) == shouldRecord(Rel(WorkingDir, q), CalculateDigestSet(t[q].content))

\* Links may be turned but stay links.
TreeInv ==
  /\ IsTree(tree)
  /\ DOMAIN snapshot = {"material", "product"}
  /\ \A s \in {"material", "product"} :
       /\ IsTree(snapshot[s])
       /\ \A p \in Path : snapshot[s][p].kind = "link" <=> tree[p].kind = "link"

\* The outermost call walks the working directory, the next one what a link in
\* there leads to.  Nothing changes meanwhile.
FramesInv ==
  /\ \E S : frames \in Seq(S)
  /\ \A i \in 1..Len(frames) : IsFrame(frames[i])
  /\ frames # <<>> => /\ stage \in {"material", "product"}
                      /\ snapshot[stage] = tree
                      /\ frames[1].base = WorkingDir
  /\ Len(frames) > 1 => \E x \in Path : /\ tree[x].kind = "link"
                                        /\ IsPrefix(WorkingDir, x)
                                        /\ frames[2].link = Rel(WorkingDir, x)

VisitedInv ==
  /\ \A i \in 2..Len(frames) : frames[i].base \in visited
  /\ NoTargetIsWalkedTwice

\* The outermost call has recorded what it has come to.
WalkInv ==
  frames # <<>> =>
    \A i \in DOMAIN WalkOrder :
      WalkOrder[i] \in Clear =>
        Tells(frames[1].artifacts, tree, WalkOrder[i],
              /\ tree[WalkOrder[i]].kind = "file"
              /\ i \notin frames[1].todo
              /\ Should(tree, WalkOrder[i]))

MaterialsInv ==
  stage \in {"command", "product", "post"} =>
    \A q \in Clear : Tells(materials, snapshot["material"], q,
                           snapshot["material"][q].kind = "file")

\* shouldRecord(), as it was when the products were recorded.
NewOrChanged(q) ==
  LET p == Rel(WorkingDir, q)
  IN  /\ tracing => p \in opened
      /\ ~ (/\ p \in DOMAIN materials
            /\ Equal(CalculateDigestSet(snapshot["product"][q].content), materials[p]))

ProductsInv ==
  stage = "post" =>
    \A q \in Clear : Tells(products, snapshot["product"], q,
                           snapshot["product"][q].kind = "file" /\ NewOrChanged(q))

RecInv ==
  TreeInv /\ FramesInv /\ VisitedInv /\ WalkInv /\ MaterialsInv /\ ProductsInv

\* The kinds of nodes.
LEMMA NodeFacts ==
  /\ Dir.kind = "dir" /\ Special.kind = "special" /\ Absent.kind = "absent"
  /\ \A c : File(c).kind = "file" /\ File(c).content = c
  /\ \A u : Link(u).kind = "link" /\ Link(u).target = u
  /\ Absent.target = <<>> /\ \A c : File(c).target = <<>>
<1>1. /\ Dir.kind = "dir" /\ Special.kind = "special" /\ Absent.kind = "absent"
      /\ \A c : File(c).kind = "file" /\ File(c).content = c
      /\ \A u : Link(u).kind = "link" /\ Link(u).target = u
  BY DEF Dir, Special, Absent, File, Link, Node
<1>2. \A k, c, t : Node(k, c, t).target = t
  BY DEF Node
<1>3. Absent.target = <<>> /\ \A c : File(c).target = <<>>
  BY <1>2 DEF Absent, File
<1> QED
  BY <1>1, <1>3

LEMMA KindFacts ==
  ASSUME NEW t, IsTree(t), NEW p \in Path
  PROVE  /\ t[p].kind = "absent" <=> t[p] = Absent
         /\ t[p].kind = "dir" <=> t[p] = Dir
         /\ t[p].kind = "file" <=> t[p] = File(t[p].content)
         /\ t[p].kind = "link" <=> t[p] = Link(t[p].target)
         /\ t[p].kind \in {"absent", "dir", "file", "link", "special"}
<1>1. t[p] \in {Dir, Special, Absent, File(t[p].content), Link(t[p].target)}
  BY DEF IsTree
<1> QED
  BY <1>1, NodeFacts

\* There is no link on the way to a file that is itself in the tree.
LEMMA NoLinkToFile ==
  ASSUME NEW t, IsTree(t), NEW q \in Path, t[q].kind = "file"
  PROVE  \A x \in Path : IsPrefix(x, q) => t[x].kind # "link"
<1> TAKE x \in Path
<1>1. CASE x = q
  BY <1>1
<1>2. ASSUME x # q, IsPrefix(x, q) PROVE t[x].kind # "link"
  <2>1. t[q] # Absent
    BY NodeFacts
  <2>2. t[x] = Dir
    BY <1>2, <2>1 DEF IsTree, IsStrictPrefix
  <2> QED
    BY <2>2, NodeFacts
<1> QED
  BY <1>1, <1>2

\* A file that is written or removed leaves a tree.
LEMMA ChangeTree ==
  ASSUME TreeInv, NEW name, NEW node, Change(name, node),
         node = Absent \/ \E c : node = File(c)
  PROVE  /\ IsTree(tree') /\ DOMAIN tree' = Path
         /\ \A p \in Path : tree'[p].kind = "link" <=> tree[p].kind = "link"
<1> DEFINE p == Follow(tree, name)
<1>1. /\ p \in Path /\ tree[p].kind \in {"file", "absent"}
      /\ At(tree, Front(p)).kind = "dir"
      /\ tree' = [tree EXCEPT ![p] = node]
  BY DEF Change
<1> HIDE DEF p
<1>2. IsTree(tree) /\ DOMAIN tree = Path
  BY DEF TreeInv, IsTree
<1>3. /\ DOMAIN tree' = Path
      /\ tree'[p] = node
      /\ \A x \in Path : x # p => tree'[x] = tree[x]
  BY <1>1, <1>2
<1>4. node.kind \in {"file", "absent"}
  BY NodeFacts
<1>5. tree[p] # Dir /\ tree[p].kind # "link"
  BY <1>1, NodeFacts
<1>6. \A x \in Path :
        tree'[x] \in {Dir, Special, Absent, File(tree'[x].content), Link(tree'[x].target)}
  <2> TAKE x \in Path
  <2>1. CASE x = p
    BY <1>3, <2>1, NodeFacts
  <2>2. CASE x # p
    BY <1>2, <1>3, <2>2 DEF IsTree
  <2> QED
    BY <2>1, <2>2
<1>7. ASSUME NEW x \in Path, NEW q \in Path, IsStrictPrefix(x, q), tree'[q] # Absent
      PROVE  tree'[x] = Dir
  <2>1. CASE q # p
    <3>1. tree[x] = Dir
      BY <1>2, <1>3, <1>7, <2>1 DEF IsTree
    <3> QED
      BY <1>3, <1>5, <3>1
  <2>2. CASE q = p
    <3>1. Front(p) \in Path /\ tree[Front(p)] = Dir
      <4>1. Front(p) \in DOMAIN tree
        BY <1>1, NodeFacts DEF At
      <4> QED
        BY <1>1, <1>2, <4>1, KindFacts DEF At
    <3>2. x = Front(p) \/ IsStrictPrefix(x, Front(p))
      <4>1. /\ x \in Seq(Element) /\ p \in Seq(Element) /\ Front(p) \in Seq(Element)
            /\ Len(x) \in Nat /\ Len(p) \in Nat
        BY <1>1, <3>1, PathFacts
      <4>2. Len(x) <= Len(p) /\ \A i \in 1..Len(x) : x[i] = p[i]
        BY <1>7, <2>2, <4>1, PrefixFacts DEF IsStrictPrefix
      <4>3. Len(x) # Len(p)
        BY <1>7, <2>2, <4>1, <4>2, SeqEqual DEF IsStrictPrefix
      <4>4. p # <<>>
        BY <4>1, <4>2, <4>3
      <4> DEFINE f == Front(p)
      <4>6. Len(f) = Len(p) - 1 /\ \A i \in 1..(Len(p) - 1) : f[i] = p[i]
        BY <4>1, <4>4, FrontFacts
      <4> HIDE DEF f
      <4>7. Len(x) <= Len(f) /\ \A i \in 1..Len(x) : x[i] = f[i]
        BY <4>1, <4>2, <4>3, <4>6
      <4> QED
        BY <4>1, <4>7, PrefixFacts DEF IsStrictPrefix, f
    <3>3. tree[x] = Dir
      <4>1. Dir # Absent
        BY NodeFacts
      <4> QED
        BY <1>2, <3>1, <3>2, <4>1 DEF IsTree
    <3> QED
      BY <1>3, <1>5, <3>3
  <2> QED
    BY <2>1, <2>2
<1>8. \A x \in Path : tree'[x].kind = "link" <=> tree[x].kind = "link"
  BY <1>3, <1>4, <1>5
<1>9. \A x \in Path : tree'[x].target \in Seq(Element)
  <2>1. node.target \in Seq(Element)
    <3>1. node.target = <<>>
      BY NodeFacts
    <3> QED
      BY <3>1, EmptySeq
  <2> QED
    BY <1>2, <1>3, <2>1 DEF IsTree
<1> QED
  BY <1>3, <1>6, <1>7, <1>8, <1>9 DEF IsTree

LEMMA RelinkTree ==
  ASSUME TreeInv, Relink
  PROVE  /\ IsTree(tree') /\ DOMAIN tree' = Path
         /\ \A p \in Path : tree'[p].kind = "link" <=> tree[p].kind = "link"
<1>1. PICK p \in Path, u \in Targets :
        tree[p].kind = "link" /\ tree' = [tree EXCEPT ![p] = Link(u)]
  BY DEF Relink
<1>2. IsTree(tree) /\ DOMAIN tree = Path
  BY DEF TreeInv, IsTree
<1>3. /\ DOMAIN tree' = Path
      /\ tree'[p] = Link(u)
      /\ \A x \in Path : x # p => tree'[x] = tree[x]
  BY <1>1, <1>2
<1>4. tree[p] # Dir /\ tree[p] # Absent
  BY <1>1, NodeFacts
<1>5. \A x \in Path :
        tree'[x] \in {Dir, Special, Absent, File(tree'[x].content), Link(tree'[x].target)}
  <2> TAKE x \in Path
  <2>1. CASE x = p
    BY <1>3, <2>1, NodeFacts
  <2>2. CASE x # p
    BY <1>2, <1>3, <2>2 DEF IsTree
  <2> QED
    BY <2>1, <2>2
<1>6. ASSUME NEW x \in Path, NEW q \in Path, IsStrictPrefix(x, q), tree'[q] # Absent
      PROVE  tree'[x] = Dir
  <2>1. tree[q] # Absent
    BY <1>3, <1>4, <1>6
  <2>2. tree[x] = Dir
    BY <1>2, <1>6, <2>1 DEF IsTree
  <2> QED
    BY <1>3, <1>4, <2>2
<1>7. \A x \in Path : tree'[x].kind = "link" <=> tree[x].kind = "link"
  BY <1>1, <1>3, NodeFacts
<1>8. \A x \in Path : tree'[x].target \in Seq(Element)
  BY <1>2, <1>3, NodeFacts, TargetsAssumption DEF IsTree
<1> QED
  BY <1>3, <1>5, <1>6, <1>7, <1>8 DEF IsTree

LEMMA TreeStep == TreeInv /\ (RecorderNext \/ UNCHANGED recVars) => TreeInv'
<1> SUFFICES ASSUME TreeInv, RecorderNext \/ UNCHANGED recVars PROVE TreeInv'
  OBVIOUS
<1>1. ASSUME UNCHANGED <<tree, snapshot>> PROVE TreeInv'
  BY <1>1 DEF TreeInv, IsTree
<1>2. ASSUME UNCHANGED snapshot, IsTree(tree'),
             \A p \in Path : tree'[p].kind = "link" <=> tree[p].kind = "link"
      PROVE  TreeInv'
  BY <1>2 DEF TreeInv, IsTree
<1>3. CASE StartRecording
  <2>1. /\ tree' = tree /\ snapshot' = [snapshot EXCEPT ![stage] = tree]
        /\ stage \in {"material", "product"}
    BY <1>3 DEF StartRecording
  <2> QED
    BY <2>1 DEF TreeInv, IsTree
<1>4. CASE WriteFile \/ RemoveFile
  <2>1. PICK name, node : Change(name, node) /\ (node = Absent \/ \E c : node = File(c))
    BY <1>4 DEF WriteFile, RemoveFile
  <2> QED
    BY <1>2, <2>1, ChangeTree DEF Change
<1>5. CASE Relink
  BY <1>2, <1>5, RelinkTree DEF Relink
<1>6. CASE BadGlob \/ RecordArtifacts
  BY <1>1, <1>6 DEF BadGlob, RecordArtifacts, VisitDir, VisitLink, VisitFile, LeaveLink,
                    Recorded, RecordUnchanged
<1>7. CASE CommandEnds \/ UNCHANGED recVars
  BY <1>1, <1>7 DEF CommandEnds, recVars
<1> QED
  BY <1>3, <1>4, <1>5, <1>6, <1>7 DEF RecorderNext, RecorderStep

\* The fields of a frame that is changed.
LEMMA FrameExcept ==
  ASSUME NEW f, IsFrame(f), NEW d, NEW a
  PROVE  /\ [f EXCEPT !.todo = d] =
              [base |-> f.base, link |-> f.link, todo |-> d, artifacts |-> f.artifacts]
         /\ [f EXCEPT !.artifacts = a] =
              [base |-> f.base, link |-> f.link, todo |-> f.todo, artifacts |-> a]
<1>1. PICK b, l, t, g : f = [base |-> b, link |-> l, todo |-> t, artifacts |-> g]
  BY DEF IsFrame
<1>2. [f EXCEPT !.todo = d] = [base |-> b, link |-> l, todo |-> d, artifacts |-> g]
  BY <1>1
<1>3. [f EXCEPT !.artifacts = a] = [base |-> b, link |-> l, todo |-> t, artifacts |-> a]
  BY <1>1
<1> QED
  BY <1>1, <1>2, <1>3

\* The path the innermost call has come to.
LEMMA TopFacts ==
  ASSUME FramesInv, NEW kinds, Walking(kinds)
  PROVE  /\ frames # <<>> /\ Len(frames) \in Nat \ {0}
         /\ IsFrame(Top)
         /\ Min(Top.todo) \in Top.todo /\ Top.todo \in SUBSET (DOMAIN WalkOrder)
         /\ Current \in Path /\ Current \in Seq(Element)
         /\ IsPrefix(Top.base, Current)
         /\ RelPath \in Seq(Element)
<1>1. frames # <<>> /\ Top.todo # {}
  BY DEF Walking
<1>2. Len(frames) \in Nat \ {0}
  BY <1>1 DEF FramesInv
<1>3. IsFrame(Top)
  BY <1>2 DEF FramesInv, Top
<1>4. Top.todo \in SUBSET (DOMAIN WalkOrder) /\ Top.todo \in SUBSET Nat
  BY <1>3, PathFacts DEF IsFrame
<1>5. Min(Top.todo) \in Top.todo
  BY <1>1, <1>4, FirstPosition
<1>6. Current \in Path /\ Current \in Seq(Element) /\ IsPrefix(Top.base, Current)
  BY <1>3, <1>4, <1>5, PathFacts DEF IsFrame, Current
<1>7. RelPath \in Seq(Element)
  <2>1. Top.base \in Seq(Element)
    BY <1>3 DEF IsFrame
  <2> QED
    BY <1>6, <2>1, RelFacts DEF RelPath
<1> QED
  BY <1>1, <1>2, <1>3, <1>4, <1>5, <1>6, <1>7

\* The calls after a step of the innermost one.
LEMMA SetTopFrames ==
  ASSUME FramesInv, frames # <<>>, NEW f, SetTop(f)
  PROVE  /\ Len(frames) \in Nat \ {0}
         /\ \E S : frames' \in Seq(S)
         /\ Len(frames') = Len(frames)
         /\ \A i \in 1..Len(frames) : frames'[i] = IF i = Len(frames) THEN f ELSE frames[i]
<1> DEFINE n == Len(frames)
<1>1. PICK S : frames \in Seq(S)
  BY DEF FramesInv
<1>2. n \in Nat \ {0} /\ frames \in Seq(S \cup {f})
  <2>1. frames \in Seq(S \cup {f})
    BY <1>1, SeqMonotonic
  <2> QED
    BY <1>1, <2>1
<1>3. /\ frames' \in Seq(S \cup {f})
      /\ Len(frames') = n
      /\ \A i \in 1..n : frames'[i] = IF i = n THEN f ELSE frames[i]
  <2>1. frames' = [frames EXCEPT ![n] = f]
    BY DEF SetTop
  <2>2. n \in 1..n /\ f \in S \cup {f}
    BY <1>2
  <2> QED
    BY <1>2, <2>1, <2>2, ExceptSeq
<1> QED
  BY <1>2, <1>3

\* The innermost call goes on.
LEMMA SetTopStep ==
  ASSUME FramesInv, VisitedInv, frames # <<>>, NEW f, SetTop(f),
         UNCHANGED <<tree, snapshot, stage, visited>>,
         IsFrame(f), f.base = Top.base, f.link = Top.link
  PROVE  /\ FramesInv' /\ VisitedInv' /\ frames' # <<>>
         /\ frames'[1] = IF Len(frames) = 1 THEN f ELSE frames[1]
<1> DEFINE n == Len(frames)
<1>2. n \in Nat \ {0}
  BY SetTopFrames
<1>3. /\ \E S : frames' \in Seq(S)
      /\ Len(frames') = n
      /\ \A i \in 1..n : frames'[i] = IF i = n THEN f ELSE frames[i]
  BY SetTopFrames
<1> HIDE DEF n
<1>4. \A i \in 1..n : frames'[i].base = frames[i].base /\ frames'[i].link = frames[i].link
  BY <1>3 DEF Top, n
<1>5. \A i \in 1..n : IsFrame(frames'[i])
  <2>1. \A i \in 1..n : IsFrame(frames[i])
    BY DEF FramesInv, n
  <2> QED
    BY <1>3, <2>1
<1>6. frames' # <<>>
  BY <1>2, <1>3
<1>7. FramesInv'
  <2>1. /\ stage \in {"material", "product"} /\ snapshot[stage] = tree
        /\ frames[1].base = WorkingDir
    BY DEF FramesInv
  <2>2. n > 1 => \E x \in Path : /\ tree[x].kind = "link"
                                 /\ IsPrefix(WorkingDir, x)
                                 /\ frames[2].link = Rel(WorkingDir, x)
    BY DEF FramesInv, n
  <2>3. 1 \in 1..n /\ (n > 1 => 2 \in 1..n)
    BY <1>2
  <2>4. frames'[1].base = WorkingDir
    BY <1>4, <2>1, <2>3
  <2>5. Len(frames') > 1 => \E x \in Path : /\ tree'[x].kind = "link"
                                            /\ IsPrefix(WorkingDir, x)
                                            /\ frames'[2].link = Rel(WorkingDir, x)
    BY <1>3, <1>4, <2>2, <2>3
  <2> QED
    BY <1>3, <1>5, <2>1, <2>4, <2>5 DEF FramesInv
<1>8. VisitedInv'
  <2>1. \A i \in 2..n : i \in 1..n
    BY <1>2
  <2>2. /\ \A i \in 2..n : frames[i].base \in visited
        /\ \A i, j \in 2..n : i # j => frames[i].base # frames[j].base
    BY DEF VisitedInv, NoTargetIsWalkedTwice, n
  <2> QED
    BY <1>3, <1>4, <2>1, <2>2 DEF VisitedInv, NoTargetIsWalkedTwice
<1> QED
  BY <1>2, <1>3, <1>6, <1>7, <1>8 DEF n

\* What is clear of links and hashed directories stays so during a walk.
LEMMA SameWalk ==
  ASSUME UNCHANGED <<tree, dirHashGlob, tracing, opened, stage, materials>>
  PROVE  /\ Clear' = Clear
         /\ \A q \in Path : Should(tree, q)' = Should(tree, q)
<1>1. Clear' = Clear
  BY DEF Clear, InHashedDir
<1>2. \A q \in Path : Should(tree, q)' = Should(tree, q)
  BY DEF Should, shouldRecord, ProcessWasTraced, BaseArtifacts
<1> QED
  BY <1>1, <1>2

LEMMA WalkGoesOn ==
  ASSUME UNCHANGED <<tree, dirHashGlob, tracing, opened, stage, materials>>,
         \A i \in DOMAIN WalkOrder :
           WalkOrder[i] \in Clear =>
             Tells(frames'[1].artifacts, tree, WalkOrder[i],
                   /\ tree[WalkOrder[i]].kind = "file"
                   /\ i \notin frames'[1].todo
                   /\ Should(tree, WalkOrder[i]))
  PROVE  WalkInv'
<1>1. Clear' = Clear /\ \A q \in Path : Should(tree, q)' = Should(tree, q)
  BY SameWalk
<1> QED
  BY <1>1, PathFacts DEF WalkInv, Tells

\* The walk passes over what is no file.
LEMMA PassOver ==
  ASSUME FramesInv, VisitedInv, WalkInv, NEW kinds, "file" \notin kinds, Walking(kinds),
         frames' # <<>>, frames'[1] = IF Len(frames) = 1 THEN Done(Top) ELSE frames[1],
         UNCHANGED <<tree, dirHashGlob, tracing, opened, stage, materials>>
  PROVE  WalkInv'
<1>1. tree[Current].kind # "file" /\ frames # <<>>
  BY DEF Walking
<1>2. /\ frames'[1].artifacts = frames[1].artifacts
      /\ \A i \in DOMAIN WalkOrder :
           tree[WalkOrder[i]].kind = "file" =>
             (i \in frames'[1].todo <=> i \in frames[1].todo)
  <2>1. CASE Len(frames) = 1
    <3>1. IsFrame(Top) /\ Top = frames[1]
      BY <2>1, TopFacts DEF Top
    <3>2. Done(Top).artifacts = Top.artifacts /\ Done(Top).todo = Top.todo \ {Min(Top.todo)}
      BY <3>1 DEF Done, IsFrame
    <3> QED
      BY <1>1, <2>1, <3>1, <3>2 DEF Current
  <2>2. CASE Len(frames) # 1
    BY <2>2
  <2> QED
    BY <2>1, <2>2
<1> QED
  BY <1>1, <1>2, WalkGoesOn DEF WalkInv, Tells

LEMMA DoneFacts ==
  ASSUME FramesInv, NEW kinds, Walking(kinds)
  PROVE  /\ IsFrame(Done(Top)) /\ Done(Top).base = Top.base /\ Done(Top).link = Top.link
         /\ Done(Top).artifacts = Top.artifacts
         /\ Done(Top).todo = Top.todo \ {Min(Top.todo)}
<1>1. IsFrame(Top)
  BY TopFacts
<1>2. Done(Top) = [base |-> Top.base, link |-> Top.link,
                   todo |-> Top.todo \ {Min(Top.todo)}, artifacts |-> Top.artifacts]
  BY <1>1, FrameExcept DEF Done
<1> QED
  BY <1>1, <1>2 DEF IsFrame

\* No call is in progress.
LEMMA NoFrames ==
  ASSUME frames' = <<>>
  PROVE  FramesInv' /\ VisitedInv' /\ WalkInv'
<1>1. Len(frames') = 0 /\ frames' \in Seq({})
  BY EmptySeq
<1>2. FramesInv'
  BY <1>1 DEF FramesInv
<1>3. VisitedInv'
  BY <1>1 DEF VisitedInv, NoTargetIsWalkedTwice
<1>4. WalkInv'
  BY DEF WalkInv
<1> QED
  BY <1>2, <1>3, <1>4

\* Paths stay clear, as links stay links.
LEMMA ClearStays ==
  ASSUME TreeInv, RecorderNext \/ UNCHANGED recVars
  PROVE  Clear' = Clear
<1>1. dirHashGlob' = dirHashGlob
  BY DEF RecorderNext, RecorderStep, RecordArtifacts, recVars, StartRecording, BadGlob,
         CommandEnds, VisitDir, VisitLink, VisitFile, LeaveLink, Recorded, RecordUnchanged,
         WriteFile, RemoveFile, Change, Relink
<1>2. \A x \in Path : tree'[x].kind = "link" <=> tree[x].kind = "link"
  <2>1. CASE WriteFile \/ RemoveFile
    <3>1. PICK name, node : Change(name, node) /\ (node = Absent \/ \E c : node = File(c))
      BY <2>1 DEF WriteFile, RemoveFile
    <3> QED
      BY <3>1, ChangeTree
  <2>2. CASE Relink
    BY <2>2, RelinkTree
  <2>3. CASE RecorderStep \/ UNCHANGED recVars
    BY <2>3 DEF RecorderStep, RecordArtifacts, recVars, StartRecording, BadGlob,
         CommandEnds, VisitDir, VisitLink, VisitFile, LeaveLink, Recorded, RecordUnchanged
  <2> QED
    BY <2>1, <2>2, <2>3 DEF RecorderNext
<1> QED
  BY <1>1, <1>2 DEF Clear, InHashedDir

LEMMA MaterialsStay ==
  ASSUME MaterialsInv, Clear' = Clear, materials' = materials,
         snapshot'["material"] = snapshot["material"],
         stage' \in {"command", "product", "post"} => stage \in {"command", "product", "post"}
  PROVE  MaterialsInv'
BY DEF MaterialsInv, Tells

LEMMA ProductsStay ==
  ASSUME ProductsInv, Clear' = Clear, UNCHANGED <<snapshot, materials, products, tracing>>,
         stage' = "post" => stage = "post" /\ opened' = opened
  PROVE  ProductsInv'
BY DEF ProductsInv, Tells, NewOrChanged

\* What the steps of a walk leave to show.
LEMMA WalkStep ==
  ASSUME RecInv, RecordArtifacts, RecordUnchanged, UNCHANGED <<materials, products>>,
         stage' = stage \/ stage' = "error",
         FramesInv' /\ VisitedInv' /\ WalkInv'
  PROVE  RecInv'
<1>1. RecorderNext
  BY DEF RecorderNext, RecorderStep
<1>2. TreeInv' /\ Clear' = Clear
  BY <1>1, TreeStep, ClearStays DEF RecInv
<1>3. MaterialsInv'
  BY <1>2, MaterialsStay DEF RecInv, RecordUnchanged
<1>4. ProductsInv'
  BY <1>2, ProductsStay DEF RecInv, RecordUnchanged
<1> QED
  BY <1>2, <1>3, <1>4 DEF RecInv

LEMMA VisitDirStep == RecInv /\ VisitDir => RecInv'
<1> SUFFICES ASSUME RecInv, VisitDir PROVE RecInv'
  OBVIOUS
<1>1. /\ Walking({"dir"}) /\ RecordUnchanged /\ UNCHANGED <<visited, materials, products>>
      /\ RecordArtifacts
  BY DEF VisitDir, RecordArtifacts
<1>2. UNCHANGED <<tree, snapshot, dirHashGlob, tracing, opened>>
  BY <1>1 DEF RecordUnchanged
<1>3. FramesInv /\ VisitedInv /\ WalkInv
  BY DEF RecInv
<1>4. /\ frames # <<>> /\ Len(frames) \in Nat \ {0} /\ IsFrame(Top)
      /\ Min(Top.todo) \in Top.todo /\ Top.todo \in SUBSET (DOMAIN WalkOrder)
      /\ Current \in Path /\ Current \in Seq(Element) /\ IsPrefix(Top.base, Current)
      /\ RelPath \in Seq(Element)
  BY <1>1, <1>3, TopFacts
<1>5. CASE Fails
  <2>1. stage' = "error" /\ frames' = <<>>
    BY <1>5 DEF Fails
  <2> QED
    BY <1>1, <2>1, NoFrames, WalkStep
<1>6. CASE SetTop(Done(Top)) /\ UNCHANGED stage
  <2>1. /\ FramesInv' /\ VisitedInv' /\ frames' # <<>>
        /\ frames'[1] = IF Len(frames) = 1 THEN Done(Top) ELSE frames[1]
    BY <1>1, <1>2, <1>3, <1>4, <1>6, DoneFacts, SetTopStep
  <2>2. WalkInv'
    <3>1. "file" \notin {"dir"}
      OBVIOUS
    <3> QED
      BY <1>1, <1>2, <1>3, <1>6, <2>1, <3>1, PassOver
  <2> QED
    BY <1>1, <1>6, <2>1, <2>2, WalkStep
<1>7. ASSUME RelPath \in dirHashGlob, UNCHANGED stage,
             SetTop([Top EXCEPT
                 !.todo = {i \in Top.todo : ~ IsPrefix(Current, WalkOrder[i])},
                 !.artifacts = Put(Top.artifacts, Append(RelPath, "/"),
                                   CalculateDigestSetFromDir(Current))])
      PROVE  RecInv'
  <2> DEFINE key == Append(RelPath, "/")
             dig == CalculateDigestSetFromDir(Current)
             f == [base |-> Top.base, link |-> Top.link,
                   todo |-> {i \in Top.todo : ~ IsPrefix(Current, WalkOrder[i])},
                   artifacts |-> Put(Top.artifacts, key, dig)]
  <2>1. SetTop(f)
    <3> DEFINE d == {i \in Top.todo : ~ IsPrefix(Current, WalkOrder[i])}
               a == Put(Top.artifacts, key, dig)
    <3> HIDE DEF d, a
    <3>1. [Top EXCEPT !.todo = d, !.artifacts = a] =
            [base |-> Top.base, link |-> Top.link, todo |-> d, artifacts |-> a]
      <4> DEFINE h == [base |-> Top.base, link |-> Top.link, todo |-> d,
                       artifacts |-> Top.artifacts]
      <4>1. [Top EXCEPT !.todo = d] = h
        BY <1>4, FrameExcept
      <4>2. [Top EXCEPT !.todo = d, !.artifacts = a] = [h EXCEPT !.artifacts = a]
        BY <4>1
      <4> QED
        BY <4>2
    <3> QED
      BY <1>7, <3>1 DEF d, a
  <2> HIDE DEF dig
  <2>2. DOMAIN f.artifacts = DOMAIN Top.artifacts \cup {key}
    BY DEF Put
  <2>3. /\ key \in Seq(Element \cup {"/"}) /\ Len(key) \in Nat \ {0} /\ key[Len(key)] = "/"
    <3>1. RelPath \in Seq(Element \cup {"/"})
      BY <1>4, SeqMonotonic
    <3> QED
      BY <3>1
  <2>4. IsFrame(f) /\ f.base = Top.base /\ f.link = Top.link
    BY <1>4, <2>2, <2>3 DEF IsFrame
  <2>5. /\ FramesInv' /\ VisitedInv' /\ frames' # <<>>
        /\ frames'[1] = IF Len(frames) = 1 THEN f ELSE frames[1]
    <3> HIDE DEF f
    <3> QED
      BY <1>1, <1>2, <1>3, <1>4, <1>7, <2>1, <2>4, SetTopStep
  <2>6. WalkInv'
    <3>1. CASE Len(frames) # 1
      <4>1. frames'[1] = frames[1]
        BY <2>5, <3>1
      <4> QED
        BY <1>1, <1>2, <1>3, <1>4, <1>7, <4>1, WalkGoesOn DEF WalkInv
    <3>2. CASE Len(frames) = 1
      <4>1. Top = frames[1] /\ frames'[1] = f /\ Top.base = WorkingDir
        BY <1>3, <1>4, <2>5, <3>2 DEF Top, FramesInv
      <4>2. ASSUME NEW i \in DOMAIN WalkOrder, WalkOrder[i] \in Clear
            PROVE  /\ i \in f.todo <=> i \in Top.todo
                   /\ Rel(WorkingDir, WalkOrder[i]) # key
                   /\ Rel(WorkingDir, WalkOrder[i]) \in DOMAIN f.artifacts <=>
                        Rel(WorkingDir, WalkOrder[i]) \in DOMAIN Top.artifacts
                   /\ Rel(WorkingDir, WalkOrder[i]) \in DOMAIN Top.artifacts =>
                        f.artifacts[Rel(WorkingDir, WalkOrder[i])] =
                          Top.artifacts[Rel(WorkingDir, WalkOrder[i])]
        <5> DEFINE q == WalkOrder[i]
                   p == Rel(WorkingDir, q)
        <5>1. /\ q \in Path /\ q \in Seq(Element) /\ IsPrefix(WorkingDir, q)
              /\ ~ InHashedDir(p) /\ WorkingDir \in Seq(Element)
          BY <4>2, PathFacts DEF Clear, IsStrictPrefix
        <5>2. p \in Seq(Element) /\ Len(p) \in Nat
          BY <5>1, RelFacts
        <5>3. ~ IsPrefix(Current, q)
          <6> SUFFICES ASSUME IsPrefix(Current, q) PROVE FALSE
            OBVIOUS
          <6>1. SubSeq(p, 1, Len(RelPath)) = RelPath /\ Len(RelPath) \in 0..Len(p)
            BY <1>4, <4>1, <5>1, SameBase DEF RelPath
          <6> QED
            BY <1>7, <5>1, <6>1 DEF InHashedDir
        <5>4. p # key
          <6> SUFFICES ASSUME p = key PROVE FALSE
            OBVIOUS
          <6>1. p[Len(p)] \in Element
            BY <2>3, <5>2, ElementOfSeq
          <6> QED
            BY <2>3, <6>1 DEF Element
        <5> QED
          BY <2>2, <5>3, <5>4 DEF Put
      <4> HIDE DEF f, key
      <4> QED
        BY <1>1, <1>2, <1>3, <1>4, <1>7, <4>1, <4>2, WalkGoesOn DEF WalkInv, Tells
    <3> QED
      BY <3>1, <3>2
  <2> QED
    BY <1>1, <1>7, <2>5, <2>6, WalkStep
<1> QED
  BY <1>5, <1>6, <1>7 DEF VisitDir

\* The calls after one for the target of a link.
LEMMA EnterFrames ==
  ASSUME FramesInv, Walking({"link"}), NEW linkedPath \in Path, Enter(linkedPath)
  PROVE  /\ \E S : frames' \in Seq(S)
         /\ Len(frames') = Len(frames) + 1
         /\ \A i \in 1..(Len(frames) + 1) :
              frames'[i] = IF i = Len(frames) + 1 THEN Frame(linkedPath, RelPath)
                           ELSE IF i = Len(frames) THEN Done(Top) ELSE frames[i]
<1> DEFINE n == Len(frames)
           d == Done(Top)
           f == Frame(linkedPath, RelPath)
<1>1. n \in Nat \ {0}
  BY TopFacts
<1>4. PICK S : frames \in Seq(S)
  BY DEF FramesInv
<1> DEFINE T == S \cup {d, f}
<1>5. frames \in Seq(T)
  BY <1>4, SeqMonotonic
<1> HIDE DEF d, f
<1>6. /\ frames' \in Seq(T) /\ Len(frames') = n + 1
      /\ \A i \in 1..(n + 1) :
           frames'[i] = IF i = n + 1 THEN f ELSE IF i = n THEN d ELSE frames[i]
  <2> DEFINE g == [frames EXCEPT ![n] = d]
  <2>1. /\ g \in Seq(T) /\ Len(g) = n
        /\ \A i \in 1..n : g[i] = IF i = n THEN d ELSE frames[i]
    <3>1. n \in 1..Len(frames) /\ d \in T
      BY <1>1
    <3> HIDE DEF T, n
    <3> QED
      BY <1>5, <3>1, ExceptSeq DEF n
  <2>2. frames' = Append(g, f)
    BY DEF Enter, d, f
  <2> HIDE DEF g
  <2>3. f \in T
    OBVIOUS
  <2>4. /\ Append(g, f) \in Seq(T) /\ Len(Append(g, f)) = n + 1
        /\ \A i \in 1..n : Append(g, f)[i] = g[i]
        /\ Append(g, f)[n + 1] = f
    <3> HIDE DEF T, n
    <3> QED
      BY <2>1, <2>3, AppendProperties
  <2> QED
    BY <1>1, <2>1, <2>2, <2>4
<1> QED
  BY <1>6 DEF d, f

\* A call for the target of a link.
LEMMA EnterStep ==
  ASSUME FramesInv, VisitedInv, WalkInv, Walking({"link"}), NEW linkedPath \in Path,
         linkedPath \notin visited, Enter(linkedPath),
         UNCHANGED <<tree, snapshot, dirHashGlob, tracing, opened, stage, materials>>
  PROVE  FramesInv' /\ VisitedInv' /\ WalkInv'
<1> DEFINE n == Len(frames)
           d == Done(Top)
           f == Frame(linkedPath, RelPath)
<1>1. /\ frames # <<>> /\ n \in Nat \ {0} /\ IsFrame(Top)
      /\ Current \in Path /\ IsPrefix(Top.base, Current) /\ RelPath \in Seq(Element)
  BY TopFacts
<1>2. /\ IsFrame(d) /\ d.base = Top.base /\ d.link = Top.link
      /\ d.artifacts = Top.artifacts
  BY DoneFacts
<1>3. IsFrame(f) /\ f.base = linkedPath /\ f.link = RelPath
  <2>1. linkedPath \in Seq(Element)
    BY PathFacts
  <2>2. DOMAIN Nothing \subseteq Seq(Element \cup {"/"})
    BY DEF Nothing
  <2>3. f = [base |-> linkedPath, link |-> RelPath, todo |-> Walk(linkedPath),
             artifacts |-> Nothing]
    BY DEF Frame
  <2>4. Walk(linkedPath) \subseteq {i \in DOMAIN WalkOrder : IsPrefix(linkedPath, WalkOrder[i])}
    BY DEF Walk
  <2> HIDE DEF f
  <2> QED
    BY <1>1, <2>1, <2>2, <2>3, <2>4 DEF IsFrame
<1> HIDE DEF d, f
<1>6. /\ \E S : frames' \in Seq(S)
      /\ Len(frames') = n + 1
      /\ \A i \in 1..(n + 1) :
           frames'[i] = IF i = n + 1 THEN f ELSE IF i = n THEN d ELSE frames[i]
  BY EnterFrames DEF d, f
<1> HIDE DEF n
<1>7. \A i \in 1..n : frames'[i].base = frames[i].base /\ frames'[i].link = frames[i].link
  BY <1>1, <1>2, <1>6 DEF Top, n
<1>8. frames' # <<>> /\ frames'[1] = IF n = 1 THEN d ELSE frames[1]
  BY <1>1, <1>6
<1>9. FramesInv'
  <2>1. /\ stage \in {"material", "product"} /\ snapshot[stage] = tree
        /\ frames[1].base = WorkingDir
        /\ \A i \in 1..n : IsFrame(frames[i])
    BY <1>1 DEF FramesInv, n
  <2>2. n > 1 => \E x \in Path : /\ tree[x].kind = "link"
                                 /\ IsPrefix(WorkingDir, x)
                                 /\ frames[2].link = Rel(WorkingDir, x)
    BY DEF FramesInv, n
  <2>3. \A i \in 1..Len(frames') : IsFrame(frames'[i])
    BY <1>1, <1>2, <1>3, <1>6, <2>1
  <2>4. frames'[1].base = WorkingDir
    BY <1>1, <1>7, <2>1
  <2>5. \E x \in Path : /\ tree'[x].kind = "link"
                        /\ IsPrefix(WorkingDir, x)
                        /\ frames'[2].link = Rel(WorkingDir, x)
    <3>1. CASE n = 1
      <4>1. frames'[2] = f /\ Top.base = WorkingDir
        BY <1>6, <2>1, <3>1 DEF Top, n
      <4>2. tree[Current].kind = "link"
        BY DEF Walking
      <4> QED
        BY <1>1, <1>3, <4>1, <4>2 DEF RelPath
    <3>2. CASE n # 1
      <4>1. 2 \in 1..n /\ n > 1
        BY <1>1, <3>2
      <4> QED
        BY <1>7, <2>2, <4>1
    <3> QED
      BY <3>1, <3>2
  <2> QED
    BY <1>6, <2>1, <2>3, <2>4, <2>5 DEF FramesInv
<1>10. VisitedInv'
  <2>1. visited' = visited \cup {linkedPath}
    BY DEF Enter
  <2>2. /\ \A i \in 2..n : frames[i].base \in visited
        /\ \A i, j \in 2..n : i # j => frames[i].base # frames[j].base
    BY DEF VisitedInv, NoTargetIsWalkedTwice, n
  <2>3. \A i \in 2..(n + 1) : i = n + 1 \/ (i \in 2..n /\ i \in 1..n)
    BY <1>1
  <2>4. \A i \in 2..(n + 1) :
          frames'[i].base = IF i = n + 1 THEN linkedPath ELSE frames[i].base
    BY <1>1, <1>3, <1>6, <1>7, <2>3
  <2> QED
    BY <1>6, <2>1, <2>2, <2>3, <2>4 DEF VisitedInv, NoTargetIsWalkedTwice
<1>11. WalkInv'
  <2>1. "file" \notin {"link"}
    OBVIOUS
  <2> QED
    BY <1>8, <2>1, PassOver DEF n, d
<1> QED
  BY <1>9, <1>10, <1>11

LEMMA VisitLinkStep == RecInv /\ VisitLink => RecInv'
<1> SUFFICES ASSUME RecInv, VisitLink PROVE RecInv'
  OBVIOUS
<1> DEFINE linkedPath == Follow(tree, Current)
<1>1. /\ Walking({"link"}) /\ RecordUnchanged /\ UNCHANGED <<materials, products>>
      /\ RecordArtifacts
  BY DEF VisitLink, RecordArtifacts
<1>2. UNCHANGED <<tree, snapshot, dirHashGlob, tracing, opened>>
  BY <1>1 DEF RecordUnchanged
<1>3. FramesInv /\ VisitedInv /\ WalkInv
  BY DEF RecInv
<1>4. CASE Fails
  <2>1. stage' = "error" /\ frames' = <<>>
    BY <1>4 DEF Fails
  <2> QED
    BY <1>1, <2>1, NoFrames, WalkStep
<1>5. CASE SetTop(Done(Top)) /\ UNCHANGED <<stage, visited>>
  <2>1. frames # <<>>
    BY <1>1 DEF Walking
  <2>2. /\ FramesInv' /\ VisitedInv' /\ frames' # <<>>
        /\ frames'[1] = IF Len(frames) = 1 THEN Done(Top) ELSE frames[1]
    BY <1>1, <1>2, <1>3, <1>5, <2>1, DoneFacts, SetTopStep
  <2>3. "file" \notin {"link"}
    OBVIOUS
  <2>4. WalkInv'
    BY <1>1, <1>2, <1>3, <1>5, <2>2, <2>3, PassOver
  <2> QED
    BY <1>1, <1>5, <2>2, <2>4, WalkStep
<1>6. ASSUME At(tree, linkedPath) # Absent, linkedPath \notin visited, Enter(linkedPath),
             UNCHANGED stage
      PROVE  RecInv'
  <2>1. linkedPath \in Path
    BY <1>6 DEF At, RecInv, TreeInv, IsTree
  <2> HIDE DEF linkedPath
  <2>2. FramesInv' /\ VisitedInv' /\ WalkInv'
    BY <1>1, <1>2, <1>3, <1>6, <2>1, EnterStep
  <2> QED
    BY <1>1, <1>6, <2>2, WalkStep
<1> QED
  BY <1>4, <1>5, <1>6 DEF VisitLink

LEMMA VisitFileStep == RecInv /\ VisitFile => RecInv'
<1> SUFFICES ASSUME RecInv, VisitFile PROVE RecInv'
  OBVIOUS
<1>1. /\ Walking({"file", "special"}) /\ RecordUnchanged
      /\ UNCHANGED <<visited, materials, products>> /\ RecordArtifacts
  BY DEF VisitFile, RecordArtifacts
<1>2. UNCHANGED <<tree, snapshot, dirHashGlob, tracing, opened>>
  BY <1>1 DEF RecordUnchanged
<1>3. FramesInv /\ VisitedInv /\ WalkInv
  BY DEF RecInv
<1>4. /\ frames # <<>> /\ Len(frames) \in Nat \ {0} /\ IsFrame(Top)
      /\ Min(Top.todo) \in Top.todo /\ Top.todo \in SUBSET (DOMAIN WalkOrder)
      /\ Current \in Path /\ Current \in Seq(Element) /\ IsPrefix(Top.base, Current)
      /\ RelPath \in Seq(Element)
  BY <1>1, <1>3, TopFacts
<1>5. CASE Fails
  <2>1. stage' = "error" /\ frames' = <<>>
    BY <1>5 DEF Fails
  <2> QED
    BY <1>1, <2>1, NoFrames, WalkStep
<1> DEFINE artifact == CalculateDigestSet(tree[Current].content)
           a == IF shouldRecord(RelPath, artifact) THEN Put(Top.artifacts, RelPath, artifact)
                                                   ELSE Top.artifacts
           f == [base |-> Top.base, link |-> Top.link,
                 todo |-> Top.todo \ {Min(Top.todo)}, artifacts |-> a]
<1>6. ASSUME isHashableFile(tree[Current]), SetTop(f), UNCHANGED stage
      PROVE  RecInv'
  <2>1. tree[Current].kind = "file"
    BY <1>1, <1>6 DEF Walking, isHashableFile
  <2> HIDE DEF artifact
  <2>2. /\ DOMAIN a \subseteq DOMAIN Top.artifacts \cup {RelPath}
        /\ \A p : p # RelPath => /\ p \in DOMAIN a <=> p \in DOMAIN Top.artifacts
                                 /\ p \in DOMAIN Top.artifacts => a[p] = Top.artifacts[p]
        /\ shouldRecord(RelPath, artifact) => RelPath \in DOMAIN a /\ a[RelPath] = artifact
        /\ ~ shouldRecord(RelPath, artifact) => a = Top.artifacts
    BY DEF Put
  <2> HIDE DEF a
  <2>3. IsFrame(f) /\ f.base = Top.base /\ f.link = Top.link /\ f.artifacts = a
        /\ f.todo = Top.todo \ {Min(Top.todo)}
    <3>1. RelPath \in Seq(Element \cup {"/"})
      BY <1>4, SeqMonotonic
    <3> QED
      BY <1>4, <2>2, <3>1 DEF IsFrame
  <2> HIDE DEF f
  <2>4. /\ FramesInv' /\ VisitedInv' /\ frames' # <<>>
        /\ frames'[1] = IF Len(frames) = 1 THEN f ELSE frames[1]
    BY <1>1, <1>2, <1>3, <1>4, <1>6, <2>3, SetTopStep
  <2>5. WalkInv'
    <3>1. CASE Len(frames) # 1
      <4>1. frames'[1] = frames[1]
        BY <2>4, <3>1
      <4> QED
        BY <1>1, <1>2, <1>3, <1>4, <1>6, <4>1, WalkGoesOn DEF WalkInv
    <3>2. CASE Len(frames) = 1
      <4>1. Top = frames[1] /\ frames'[1] = f /\ Top.base = WorkingDir
        BY <1>3, <1>4, <2>4, <3>2 DEF Top, FramesInv
      <4>2. ASSUME NEW i \in DOMAIN WalkOrder, WalkOrder[i] \in Clear
            PROVE  Tells(f.artifacts, tree, WalkOrder[i],
                         /\ tree[WalkOrder[i]].kind = "file"
                         /\ i \notin f.todo
                         /\ Should(tree, WalkOrder[i]))
        <5>1. /\ WalkOrder[i] \in Seq(Element) /\ IsPrefix(WorkingDir, WalkOrder[i])
              /\ WorkingDir \in Seq(Element)
          BY <4>2, PathFacts DEF Clear, IsStrictPrefix
        <5>2. Tells(Top.artifacts, tree, WalkOrder[i],
                    /\ tree[WalkOrder[i]].kind = "file"
                    /\ i \notin Top.todo
                    /\ Should(tree, WalkOrder[i]))
          BY <1>3, <1>4, <4>1, <4>2 DEF WalkInv
        <5>3. CASE i = Min(Top.todo)
          <6>1. /\ WalkOrder[i] = Current /\ Rel(WorkingDir, WalkOrder[i]) = RelPath
                /\ i \in Top.todo /\ i \notin f.todo
            BY <1>4, <2>3, <4>1, <5>3 DEF Current, RelPath
          <6>2. Should(tree, WalkOrder[i]) <=> shouldRecord(RelPath, artifact)
            BY <6>1 DEF Should, artifact
          <6>3. RelPath \notin DOMAIN Top.artifacts
            BY <5>2, <6>1 DEF Tells
          <6> QED
            BY <2>1, <2>2, <2>3, <6>1, <6>2, <6>3 DEF Tells, artifact
        <5>4. CASE i # Min(Top.todo)
          <6>1. WalkOrder[i] # Current
            BY <1>4, <5>4, WalkOrderAssumption DEF Current
          <6>2. Rel(WorkingDir, WalkOrder[i]) # RelPath
            BY <1>4, <4>1, <5>1, <6>1, SameBase DEF RelPath
          <6>3. i \in f.todo <=> i \in Top.todo
            BY <2>3, <5>4
          <6> QED
            BY <2>2, <2>3, <5>2, <6>2, <6>3 DEF Tells
        <5> QED
          BY <5>3, <5>4
      <4> QED
        BY <1>1, <1>2, <1>6, <4>1, <4>2, WalkGoesOn
    <3> QED
      BY <3>1, <3>2
  <2> QED
    BY <1>1, <1>6, <2>4, <2>5, WalkStep
<1>7. [Done(Top) EXCEPT !.artifacts = a] = f
  <2>1. /\ IsFrame(Done(Top)) /\ Done(Top).base = Top.base /\ Done(Top).link = Top.link
        /\ Done(Top).todo = Top.todo \ {Min(Top.todo)}
    BY <1>1, <1>3, DoneFacts
  <2> HIDE DEF a
  <2> QED
    BY <2>1, FrameExcept
<1>8. Done(Top).artifacts = Top.artifacts
  BY <1>1, <1>3, DoneFacts
<1>9. ASSUME isHashableFile(tree[Current]) PROVE SetTop(f) /\ UNCHANGED stage
  <2>1. /\ UNCHANGED stage
        /\ SetTop([Done(Top) EXCEPT !.artifacts =
             IF shouldRecord(RelPath, artifact)
               THEN Put(Done(Top).artifacts, RelPath, artifact) ELSE Done(Top).artifacts])
    BY <1>9 DEF VisitFile
  <2> QED
    BY <1>7, <1>8, <2>1
<1> QED
  BY <1>5, <1>6, <1>9 DEF VisitFile

\* A path that goes on from another, as seen from their base, is below it.
LEMMA LongerPath ==
  ASSUME NEW b \in Seq(Element), NEW x \in Seq(Element), NEW q \in Seq(Element),
         IsPrefix(b, x), IsPrefix(b, q),
         NEW k \in Seq(Element \cup {"/"}), Rel(b, q) = Rel(b, x) \o k
  PROVE  IsPrefix(x, q)
<1> DEFINE T == Element \cup {"/"}
           rx == Rel(b, x)
           rq == Rel(b, q)
<1>1. /\ Len(b) \in Nat /\ Len(x) \in Nat /\ Len(q) \in Nat
      /\ Len(b) <= Len(x) /\ Len(b) <= Len(q)
      /\ \A i \in 1..Len(b) : b[i] = x[i] /\ b[i] = q[i]
  BY PrefixFacts
<1>2. /\ rx \in Seq(Element) /\ Len(rx) = Len(x) - Len(b)
      /\ \A i \in 1..(Len(x) - Len(b)) : rx[i] = x[Len(b) + i]
      /\ rq \in Seq(Element) /\ Len(rq) = Len(q) - Len(b)
      /\ \A i \in 1..(Len(q) - Len(b)) : rq[i] = q[Len(b) + i]
  BY RelFacts
<1>3. rq = rx \o k /\ k \in Seq(T) /\ rx \in Seq(T)
  BY <1>2, SeqMonotonic
<1> HIDE DEF rx, rq, T
<1>4. /\ Len(k) \in Nat /\ Len(rq) = Len(rx) + Len(k)
      /\ \A i \in 1..Len(rx) : rq[i] = rx[i]
  BY <1>3, ConcatProperties
<1>5. Len(x) <= Len(q)
  BY <1>1, <1>2, <1>4
<1>6. ASSUME NEW i \in 1..Len(x) PROVE x[i] = q[i]
  <2>1. CASE i <= Len(b)
    <3>1. i \in 1..Len(b)
      BY <1>1, <2>1
    <3> QED
      BY <1>1, <3>1
  <2>2. CASE ~ (i <= Len(b))
    <3>1. i - Len(b) \in 1..Len(rx) /\ i - Len(b) \in 1..Len(rq)
      BY <1>1, <1>2, <1>4, <2>2
    <3>2. /\ rx[i - Len(b)] = x[Len(b) + (i - Len(b))]
          /\ rq[i - Len(b)] = q[Len(b) + (i - Len(b))]
      BY <1>2, <3>1
    <3>3. Len(b) + (i - Len(b)) = i
      BY <1>1
    <3> QED
      BY <1>4, <3>1, <3>2, <3>3
  <2> QED
    BY <2>1, <2>2
<1> QED
  BY <1>5, <1>6, PrefixFacts

\* What Join returns begins with the path of the link.
LEMMA JoinFacts ==
  ASSUME NEW link \in Seq(Element), NEW k \in Seq(Element \cup {"/"})
  PROVE  /\ Join(link, k) \in Seq(Element \cup {"/"})
         /\ \E s \in Seq(Element \cup {"/"}) : Join(link, k) = link \o s
<1> DEFINE s == IF k # <<>> /\ Last(k) = "/" THEN Front(k) ELSE k
<1>1. s \in Seq(Element \cup {"/"})
  BY FrontFacts
<1>2. Join(link, k) = link \o s
  BY DEF Join
<1>3. link \in Seq(Element \cup {"/"})
  BY SeqMonotonic
<1> HIDE DEF s
<1>4. link \o s \in Seq(Element \cup {"/"})
  BY <1>1, <1>3, ConcatProperties
<1> QED
  BY <1>1, <1>2, <1>4

\* What a call for a link gives to the one it returns to.
Kept(f) == {k \in DOMAIN f.artifacts : shouldRecord(Join(f.link, k), f.artifacts[k])}
Joined(f) == [p \in {Join(f.link, k) : k \in Kept(f)} |->
                f.artifacts[CHOOSE k \in Kept(f) : Join(f.link, k) = p]]
Merged(A, B) == [p \in DOMAIN A \cup DOMAIN B |-> IF p \in DOMAIN B THEN B[p] ELSE A[p]]

LEMMA JoinedFacts ==
  ASSUME NEW f, IsFrame(f)
  PROVE  \A p \in DOMAIN Joined(f) :
           /\ p \in Seq(Element \cup {"/"})
           /\ \E s \in Seq(Element \cup {"/"}) : p = f.link \o s
           /\ \E k \in DOMAIN f.artifacts : p = Join(f.link, k) /\ Joined(f)[p] = f.artifacts[k]
<1> TAKE p \in DOMAIN Joined(f)
<1>1. /\ p \in {Join(f.link, k) : k \in Kept(f)}
      /\ Joined(f)[p] = f.artifacts[CHOOSE k \in Kept(f) : Join(f.link, k) = p]
  BY DEF Joined
<1>2. PICK k \in Kept(f) : p = Join(f.link, k) /\ Joined(f)[p] = f.artifacts[k]
  BY <1>1
<1>3. k \in DOMAIN f.artifacts
  BY DEF Kept
<1>4. f.link \in Seq(Element) /\ k \in Seq(Element \cup {"/"})
  BY <1>3 DEF IsFrame
<1> QED
  BY <1>2, <1>3, <1>4, JoinFacts

LEMMA LeaveFrames ==
  ASSUME FramesInv, LeaveLink
  PROVE  /\ Len(frames) \in Nat /\ Len(frames) > 1
         /\ IsFrame(Top) /\ IsFrame(frames[Len(frames) - 1])
         /\ \E S : frames' \in Seq(S)
         /\ Len(frames') = Len(frames) - 1
         /\ \A i \in 1..(Len(frames) - 1) :
              frames'[i] =
                IF i = Len(frames) - 1
                  THEN [base |-> frames[i].base, link |-> frames[i].link,
                        todo |-> frames[i].todo,
                        artifacts |-> Merged(frames[i].artifacts, Joined(Top))]
                  ELSE frames[i]
<1> DEFINE n == Len(frames)
           parent == frames[n - 1]
           merged == Merged(parent.artifacts, Joined(Top))
           g == [parent EXCEPT !.artifacts = merged]
<1>1. n > 1 /\ frames' = Append(SubSeq(frames, 1, n - 2), g)
  BY DEF LeaveLink, Merged, Joined, Kept
<1>2. PICK S : frames \in Seq(S)
  BY DEF FramesInv
<1>3. /\ n \in Nat /\ n - 1 \in 1..n /\ n \in 1..n /\ n - 2 \in Nat
      /\ \A i \in 1..n : IsFrame(frames[i])
  BY <1>1, <1>2 DEF FramesInv
<1>4. IsFrame(parent) /\ IsFrame(Top)
  BY <1>3 DEF Top
<1> HIDE DEF merged
<1>5. g = [base |-> parent.base, link |-> parent.link, todo |-> parent.todo,
           artifacts |-> merged]
  BY <1>4, FrameExcept
<1> HIDE DEF g
<1>6. /\ frames' \in Seq(S \cup {g}) /\ Len(frames') = n - 1
      /\ \A i \in 1..(n - 1) : frames'[i] = IF i = n - 1 THEN g ELSE frames[i]
  <2> DEFINE m == n - 2
             h == SubSeq(frames, 1, m)
  <2>1. m \in Nat /\ \A i \in 1..m : frames[i] \in S \cup {g}
    BY <1>2, <1>3, ElementOfSeq
  <2>2. /\ h \in Seq(S \cup {g}) /\ Len(h) = m
        /\ \A i \in 1..m : h[i] = frames[i]
    <3> HIDE DEF m
    <3> QED
      BY <2>1, SubSeqProperties
  <2>3. frames' = Append(h, g)
    BY <1>1
  <2> HIDE DEF h
  <2>4. /\ Append(h, g) \in Seq(S \cup {g}) /\ Len(Append(h, g)) = m + 1
        /\ \A i \in 1..m : Append(h, g)[i] = h[i]
        /\ Append(h, g)[m + 1] = g
    <3> HIDE DEF m
    <3> QED
      BY <2>2, AppendProperties
  <2>5. m + 1 = n - 1 /\ \A i \in 1..(n - 1) : i = n - 1 \/ i \in 1..m
    BY <1>3
  <2>6. \A i \in 1..m : i # n - 1
    BY <1>3
  <2> HIDE DEF m, n
  <2> QED
    BY <2>2, <2>3, <2>4, <2>5, <2>6
<1>7. /\ IsFrame(Top) /\ IsFrame(frames[n - 1]) /\ \E U : frames' \in Seq(U)
      /\ \A i \in 1..(n - 1) :
           frames'[i] =
             IF i = n - 1
               THEN [base |-> frames[i].base, link |-> frames[i].link,
                     todo |-> frames[i].todo,
                     artifacts |-> Merged(frames[i].artifacts, Joined(Top))]
               ELSE frames[i]
  <2> HIDE DEF n
  <2> QED
    BY <1>4, <1>5, <1>6 DEF merged
<1> QED
  BY <1>1, <1>3, <1>6, <1>7

LEMMA LeaveLinkStep == RecInv /\ LeaveLink => RecInv'
<1> SUFFICES ASSUME RecInv, LeaveLink PROVE RecInv'
  OBVIOUS
<1> DEFINE n == Len(frames)
           parent == frames[n - 1]
           joined == Joined(Top)
           merged == Merged(parent.artifacts, joined)
           g == [base |-> parent.base, link |-> parent.link, todo |-> parent.todo,
                 artifacts |-> merged]
<1>1. /\ n > 1 /\ UNCHANGED <<stage, visited, materials, products>> /\ RecordUnchanged
      /\ RecordArtifacts
  BY DEF LeaveLink, RecordArtifacts
<1>2. UNCHANGED <<tree, snapshot, dirHashGlob, tracing, opened>>
  BY <1>1 DEF RecordUnchanged
<1>3. FramesInv /\ VisitedInv /\ WalkInv
  BY DEF RecInv
<1>4. PICK S : frames \in Seq(S)
  BY <1>3 DEF FramesInv
<1>5. /\ n \in Nat /\ n - 1 \in 1..n /\ n - 2 \in Nat
      /\ \A i \in 1..n : IsFrame(frames[i])
  BY <1>1, <1>3, <1>4 DEF FramesInv
<1>6. IsFrame(parent) /\ IsFrame(Top)
  BY <1>1, <1>5 DEF Top
<1>7. /\ DOMAIN merged = DOMAIN parent.artifacts \cup DOMAIN joined
      /\ \A p \in DOMAIN parent.artifacts : p \notin DOMAIN joined =>
           merged[p] = parent.artifacts[p]
  BY DEF Merged
<1>8. /\ \E U : frames' \in Seq(U)
       /\ Len(frames') = n - 1
       /\ \A i \in 1..(n - 1) : frames'[i] = IF i = n - 1 THEN g ELSE frames[i]
  BY <1>3, LeaveFrames
<1>9. \A p \in DOMAIN joined :
        /\ p \in Seq(Element \cup {"/"})
        /\ \E s \in Seq(Element \cup {"/"}) : p = Top.link \o s
  BY <1>6, JoinedFacts
<1> HIDE DEF joined, merged
<1>10. IsFrame(g)
  <2> HIDE DEF parent
  <2> QED
    BY <1>6, <1>7, <1>9 DEF IsFrame
<1>11. /\ g.base = parent.base /\ g.link = parent.link /\ g.todo = parent.todo
       /\ g.artifacts = merged
  OBVIOUS
<1> HIDE DEF g
<1>12. \A i \in 1..(n - 1) :
         /\ i \in 1..n /\ IsFrame(frames'[i])
         /\ frames'[i].base = frames[i].base /\ frames'[i].link = frames[i].link
  BY <1>5, <1>10, <1>11, <1>8
<1>13. FramesInv'
  <2>1. frames # <<>>
    BY <1>1, <1>4
  <2>2. /\ stage \in {"material", "product"} /\ snapshot[stage] = tree
        /\ frames[1].base = WorkingDir
        /\ \E x \in Path : /\ tree[x].kind = "link"
                           /\ IsPrefix(WorkingDir, x)
                           /\ frames[2].link = Rel(WorkingDir, x)
    BY <1>1, <1>3, <2>1 DEF FramesInv
  <2>3. 1 \in 1..(n - 1) /\ (n - 1 > 1 => 2 \in 1..(n - 1))
    BY <1>1, <1>5
  <2> HIDE DEF n
  <2>4. frames'[1].base = WorkingDir /\ (n - 1 > 1 => frames'[2].link = frames[2].link)
    BY <1>12, <2>2, <2>3
  <2> QED
    BY <1>1, <1>2, <1>8, <1>12, <2>2, <2>4 DEF FramesInv
<1>14. VisitedInv'
  <2>1. \A i \in 2..(n - 1) : i \in 2..n /\ i \in 1..(n - 1)
    BY <1>5
  <2>2. /\ \A i \in 2..n : frames[i].base \in visited
        /\ \A i, j \in 2..n : i # j => frames[i].base # frames[j].base
    BY <1>3 DEF VisitedInv, NoTargetIsWalkedTwice
  <2> HIDE DEF n
  <2> QED
    BY <1>1, <1>8, <1>12, <2>1, <2>2 DEF VisitedInv, NoTargetIsWalkedTwice
<1>15. WalkInv'
  <2>1. frames # <<>>
    BY <1>1, <1>4
  <2>2. CASE n > 2
    <3>1. frames'[1] = frames[1]
      BY <1>5, <1>8, <2>2
    <3> QED
      BY <1>1, <1>2, <1>3, <2>1, <3>1, WalkGoesOn DEF WalkInv
  <2>3. CASE n = 2
    <3>1. frames'[1] = g /\ parent = frames[1] /\ Top = frames[2]
      BY <1>8, <2>3 DEF Top
    <3>2. PICK x \in Path : /\ tree[x].kind = "link" /\ IsPrefix(WorkingDir, x)
                            /\ Top.link = Rel(WorkingDir, x)
      BY <1>1, <1>3, <3>1 DEF FramesInv
    <3>3. ASSUME NEW i \in DOMAIN WalkOrder, WalkOrder[i] \in Clear
          PROVE  Rel(WorkingDir, WalkOrder[i]) \notin DOMAIN joined
      <4> SUFFICES ASSUME Rel(WorkingDir, WalkOrder[i]) \in DOMAIN joined PROVE FALSE
        OBVIOUS
      <4>1. PICK s \in Seq(Element \cup {"/"}) :
              Rel(WorkingDir, WalkOrder[i]) = Rel(WorkingDir, x) \o s
        BY <1>9, <3>2
      <4>2. /\ WalkOrder[i] \in Seq(Element) /\ IsPrefix(WorkingDir, WalkOrder[i])
            /\ WorkingDir \in Seq(Element) /\ x \in Seq(Element)
        BY <3>3, PathFacts DEF Clear, IsStrictPrefix
      <4>3. IsPrefix(x, WalkOrder[i])
        BY <3>2, <4>1, <4>2, LongerPath
      <4> QED
        BY <3>2, <3>3, <4>3 DEF Clear
    <3>4. \A i \in DOMAIN WalkOrder :
            WalkOrder[i] \in Clear =>
              Tells(frames[1].artifacts, tree, WalkOrder[i],
                    /\ tree[WalkOrder[i]].kind = "file"
                    /\ i \notin frames[1].todo
                    /\ Should(tree, WalkOrder[i]))
      BY <1>3, <2>1 DEF WalkInv
    <3> HIDE DEF parent
    <3>5. \A i \in DOMAIN WalkOrder :
            WalkOrder[i] \in Clear =>
              Tells(frames'[1].artifacts, tree, WalkOrder[i],
                    /\ tree[WalkOrder[i]].kind = "file"
                    /\ i \notin frames'[1].todo
                    /\ Should(tree, WalkOrder[i]))
      BY <1>7, <1>11, <3>1, <3>3, <3>4 DEF Tells
    <3> QED
      BY <1>1, <1>2, <3>5, WalkGoesOn
  <2>4. n > 2 \/ n = 2
    <3>1. n \in Nat /\ n > 1
      BY <1>1, <1>5
    <3> HIDE DEF n
    <3> QED
      BY <3>1
  <2> QED
    BY <2>2, <2>3, <2>4
<1> QED
  BY <1>1, <1>13, <1>14, <1>15, WalkStep


\* The outermost call returns: what it recorded becomes the materials or the
\* products.
LEMMA RecordedStep == RecInv /\ Recorded => RecInv'
<1> SUFFICES ASSUME RecInv, Recorded PROVE RecInv'
  OBVIOUS
<1>1. /\ Len(frames) = 1 /\ Top.todo = {} /\ frames' = <<>>
      /\ UNCHANGED <<tree, snapshot, dirHashGlob, tracing, opened>>
  BY DEF Recorded, RecordUnchanged
<1>2. RecorderNext
  BY DEF RecorderNext, RecorderStep, RecordArtifacts
<1>3. TreeInv' /\ Clear' = Clear
  BY <1>2, TreeStep, ClearStays DEF RecInv
<1>4. FramesInv' /\ VisitedInv' /\ WalkInv'
  BY <1>1, NoFrames
<1>5. frames # <<>> /\ Top = frames[1]
  BY <1>1 DEF Top
<1>6. stage \in {"material", "product"} /\ snapshot[stage] = tree
  BY <1>5 DEF RecInv, FramesInv
<1>7. \A q \in Clear : Tells(Top.artifacts, tree, q, tree[q].kind = "file" /\ Should(tree, q))
  <2> TAKE q \in Clear
  <2>1. PICK i \in DOMAIN WalkOrder : WalkOrder[i] = q
    BY PathFacts DEF Clear
  <2>2. Tells(Top.artifacts, tree, q,
              tree[q].kind = "file" /\ i \notin Top.todo /\ Should(tree, q))
    BY <1>5, <2>1 DEF RecInv, WalkInv
  <2> QED
    BY <1>1, <2>2 DEF Tells
<1>8. CASE stage = "material"
  <2>1. stage' = "command" /\ materials' = Top.artifacts /\ products' = products
    BY <1>8 DEF Recorded
  <2>2. \A q \in Clear : Should(tree, q)
    BY <1>8 DEF Should, shouldRecord, ProcessWasTraced, BaseArtifacts, Nothing
  <2>3. MaterialsInv'
    BY <1>1, <1>3, <1>6, <1>7, <1>8, <2>1, <2>2 DEF MaterialsInv, Tells
  <2>4. ProductsInv'
    BY <2>1 DEF ProductsInv
  <2> QED
    BY <1>3, <1>4, <2>3, <2>4 DEF RecInv
<1>9. CASE stage = "product"
  <2>1. stage' = "post" /\ products' = Top.artifacts /\ materials' = materials
    BY <1>9 DEF Recorded
  <2>2. MaterialsInv'
    BY <1>1, <1>3, <1>9, <2>1, MaterialsStay DEF RecInv
  <2>3. \A q \in Clear : Should(tree, q) <=> NewOrChanged(q)'
    BY <1>1, <1>6, <1>9, <2>1
       DEF Should, shouldRecord, ProcessWasTraced, BaseArtifacts, NewOrChanged
  <2>4. ProductsInv'
    BY <1>1, <1>3, <1>6, <1>7, <1>9, <2>1, <2>3 DEF ProductsInv, Tells
  <2> QED
    BY <1>3, <1>4, <2>2, <2>4 DEF RecInv
<1> QED
  BY <1>6, <1>8, <1>9

LEMMA StartRecordingStep == RecInv /\ StartRecording => RecInv'
<1> SUFFICES ASSUME RecInv, StartRecording PROVE RecInv'
  OBVIOUS
<1> DEFINE f == Frame(WorkingDir, <<>>)
<1>1. /\ stage \in {"material", "product"} /\ frames' = <<f>>
      /\ snapshot' = [snapshot EXCEPT ![stage] = tree]
      /\ UNCHANGED <<tree, dirHashGlob, tracing, opened, stage, materials, products>>
  BY DEF StartRecording
<1>2. RecorderNext
  BY DEF RecorderNext, RecorderStep
<1>3. TreeInv' /\ Clear' = Clear
  BY <1>2, TreeStep, ClearStays DEF RecInv
<1>4. IsFrame(f) /\ f.base = WorkingDir /\ f.todo = Walk(WorkingDir) /\ f.artifacts = Nothing
  <2>1. f = [base |-> WorkingDir, link |-> <<>>, todo |-> Walk(WorkingDir),
             artifacts |-> Nothing]
    BY DEF Frame
  <2>2. DOMAIN Nothing \subseteq Seq(Element \cup {"/"})
    BY DEF Nothing
  <2>3. Walk(WorkingDir) \subseteq {i \in DOMAIN WalkOrder : IsPrefix(WorkingDir, WalkOrder[i])}
    BY DEF Walk
  <2>4. <<>> \in Seq(Element)
    BY EmptySeq
  <2> HIDE DEF f
  <2> QED
    BY <2>1, <2>2, <2>3, <2>4, PathFacts DEF IsFrame
<1> HIDE DEF f
<1>5. frames' \in Seq({f}) /\ Len(frames') = 1 /\ frames'[1] = f
  BY <1>1
<1>6. snapshot'[stage] = tree
  BY <1>1 DEF RecInv, TreeInv
<1>7. FramesInv'
  <2>1. \A i \in 1..Len(frames') : IsFrame(frames'[i])
    BY <1>4, <1>5
  <2>2. ~ (Len(frames') > 1)
    BY <1>5
  <2>3. \E S : frames' \in Seq(S)
    BY <1>5
  <2>4. stage' \in {"material", "product"} /\ snapshot'[stage'] = tree'
    BY <1>1, <1>6
  <2>5. frames'[1].base = WorkingDir
    BY <1>4, <1>5
  <2> QED
    BY <2>1, <2>2, <2>3, <2>4, <2>5 DEF FramesInv
<1>8. VisitedInv'
  BY <1>5 DEF VisitedInv, NoTargetIsWalkedTwice
<1>9. WalkInv'
  <2>1. ASSUME NEW i \in DOMAIN WalkOrder, WalkOrder[i] \in Clear
        PROVE  Tells(f.artifacts, tree, WalkOrder[i],
                     /\ tree[WalkOrder[i]].kind = "file"
                     /\ i \notin f.todo
                     /\ Should(tree, WalkOrder[i]))
    <3>1. tree[WalkOrder[i]].kind = "file" => tree[WalkOrder[i]] # Absent
      BY NodeFacts
    <3>2. tree[WalkOrder[i]].kind = "file" => i \in f.todo
      BY <1>4, <2>1, <3>1 DEF Walk, Clear, IsStrictPrefix
    <3> QED
      BY <1>4, <3>2 DEF Tells, Nothing
  <2> QED
    BY <1>1, <1>5, <2>1, WalkGoesOn
<1>10. MaterialsInv'
  <2>1. stage = "product" => snapshot'["material"] = snapshot["material"]
    BY <1>1 DEF RecInv, TreeInv
  <2> QED
    BY <1>1, <1>3, <2>1, MaterialsStay DEF RecInv, MaterialsInv
<1>11. ProductsInv'
  BY <1>1 DEF ProductsInv
<1> QED
  BY <1>3, <1>7, <1>8, <1>9, <1>10, <1>11 DEF RecInv

\* The command, and what else happens between the walks.
LEMMA BetweenStep ==
  ASSUME RecInv, BadGlob \/ CommandEnds \/ WriteFile \/ RemoveFile \/ Relink
  PROVE  RecInv'
<1>1. RecorderNext
  BY DEF RecorderNext, RecorderStep
<1>2. TreeInv' /\ Clear' = Clear
  BY <1>1, TreeStep, ClearStays DEF RecInv
<1>3. stage = "command" => frames = <<>>
  BY DEF RecInv, FramesInv
<1>4. /\ frames' = <<>>
      /\ UNCHANGED <<snapshot, materials, products, tracing>>
      /\ stage' = stage \/ stage' = "error" \/ (stage = "command" /\ stage' = "product")
      /\ stage' = "post" => stage = "post" /\ opened' = opened
  BY <1>3 DEF BadGlob, Fails, RecordUnchanged, CommandEnds, WriteFile, RemoveFile, Change,
              Relink
<1>5. FramesInv' /\ VisitedInv' /\ WalkInv'
  BY <1>4, NoFrames
<1>6. MaterialsInv'
  BY <1>2, <1>4, MaterialsStay DEF RecInv
<1>7. ProductsInv'
  BY <1>2, <1>4, ProductsStay DEF RecInv
<1> QED
  BY <1>2, <1>5, <1>6, <1>7 DEF RecInv

LEMMA SameRecInv == RecInv /\ UNCHANGED recVars => RecInv'
<1> SUFFICES ASSUME RecInv, UNCHANGED recVars PROVE RecInv'
  OBVIOUS
<1> USE DEF recVars
<1>1. TreeInv' /\ Clear' = Clear
  BY TreeStep, ClearStays DEF RecInv
<1>2. FramesInv' /\ VisitedInv'
  BY DEF RecInv, FramesInv, VisitedInv, NoTargetIsWalkedTwice, IsFrame
<1>3. WalkInv'
  <2>1. CASE frames = <<>>
    BY <2>1 DEF WalkInv
  <2>2. CASE frames # <<>>
    BY <2>2, WalkGoesOn DEF RecInv, WalkInv
  <2> QED
    BY <2>1, <2>2
<1>4. MaterialsInv' /\ ProductsInv'
  BY <1>1, MaterialsStay, ProductsStay DEF RecInv
<1> QED
  BY <1>1, <1>2, <1>3, <1>4 DEF RecInv

\* The inductive invariant of the recorder (file.go, RecordArtifacts, called by the
\* Attest of material.go and product.go), whatever the command does in between.
THEOREM RecorderInvariant == PostSpec => []RecInv
<1>1. PostInit => RecInv
  <2> SUFFICES ASSUME PostInit PROVE RecInv
    OBVIOUS
  <2>1. /\ tree \in Trees /\ snapshot = [s \in {"material", "product"} |-> tree]
        /\ stage = "material" /\ frames = <<>>
    BY DEF PostInit, RecorderInit
  <2>2. TreeInv
    BY <2>1, TreesAssumption DEF TreeInv
  <2>3. Len(frames) = 0 /\ frames \in Seq({})
    BY <2>1, EmptySeq
  <2>4. FramesInv /\ VisitedInv /\ WalkInv
    BY <2>1, <2>3 DEF FramesInv, VisitedInv, NoTargetIsWalkedTwice, WalkInv
  <2>5. MaterialsInv /\ ProductsInv
    BY <2>1 DEF MaterialsInv, ProductsInv
  <2> QED
    BY <2>2, <2>4, <2>5 DEF RecInv
<1>2. RecInv /\ [PostNext]_postVars => RecInv'
  <2> SUFFICES ASSUME RecInv, [PostNext]_postVars PROVE RecInv'
    OBVIOUS
  <2>1. CASE Recording
    <3>1. RecorderNext
      BY <2>1 DEF Recording
    <3> QED
      BY <3>1, VisitDirStep, VisitLinkStep, VisitFileStep, LeaveLinkStep, RecordedStep,
         StartRecordingStep, BetweenStep DEF RecorderNext, RecorderStep, RecordArtifacts
  <2>2. CASE Attest \/ UNCHANGED postVars
    <3>1. UNCHANGED recVars
      BY <2>2 DEF Attest, Begin, Exhausted, Skip, Take, Open, ReadImage, ReadLayers, ReadTar,
                  Stay, postVars
    <3> QED
      BY <3>1, SameRecInv
  <2> QED
    BY <2>1, <2>2 DEF PostNext
<1> QED
  BY <1>1, <1>2, PTL DEF PostSpec

LEMMA EqualDigests ==
  ASSUME NEW c, NEW d
  PROVE  Equal(CalculateDigestSet(c), CalculateDigestSet(d)) <=> c = d
<1> DEFINE e(x) == {<<<<>>, x>>}
<1>1. e(c) = e(d) <=> c = d
  <2>1. ASSUME e(c) = e(d) PROVE c = d
    <3>1. <<<<>>, c>> \in e(d)
      BY <2>1
    <3>2. <<<<>>, c>> = <<<<>>, d>>
      BY <3>1
    <3>3. <<<<>>, c>>[2] = c /\ <<<<>>, d>>[2] = d
      OBVIOUS
    <3> QED
      BY <3>2, <3>3
  <2> QED
    BY <2>1
<1>2. CalculateDigestSet(c) = [h \in Hashes |-> e(c)]
      /\ CalculateDigestSet(d) = [h \in Hashes |-> e(d)]
  BY DEF CalculateDigestSet
<1> HIDE DEF e
<1>3. \A h \in Hashes : CalculateDigestSet(c)[h] = e(c) /\ CalculateDigestSet(d)[h] = e(d)
  BY <1>2
<1>4. DOMAIN CalculateDigestSet(c) = Hashes /\ DOMAIN CalculateDigestSet(d) = Hashes
  BY <1>2
<1> QED
  BY <1>1, <1>3, <1>4, HashesAssumption DEF Equal

\* product.Attest reports exactly the files that are new or changed, and opened if
\* the command was traced, with the digest they have: for every file system,
\* every order of a walk and anything the command does.
THEOREM ProductsAreChanges == PostSpec => []ProductsAreTheChanges
<1>1. RecInv => ProductsAreTheChanges
  <2> SUFFICES ASSUME RecInv, stage = "post", NEW q \in Path,
                      IsStrictPrefix(WorkingDir, q), snapshot["product"][q].kind = "file",
                      ~ InHashedDir(Rel(WorkingDir, q))
               PROVE  /\ Rel(WorkingDir, q) \in DOMAIN products <=> IsChanged(Rel(WorkingDir, q))
                      /\ Rel(WorkingDir, q) \in DOMAIN products => HasDigestOf(Rel(WorkingDir, q))
    BY DEF ProductsAreTheChanges
  <2> DEFINE p == Rel(WorkingDir, q)
             was == snapshot["material"]
             is == snapshot["product"]
  <2>1. /\ IsTree(was) /\ IsTree(is) /\ DOMAIN was = Path /\ DOMAIN is = Path
        /\ \A x \in Path : is[x].kind = "link" <=> tree[x].kind = "link"
        /\ \A x \in Path : was[x].kind = "link" <=> tree[x].kind = "link"
    BY DEF RecInv, TreeInv, IsTree
  <2>2. \A x \in Path : IsPrefix(x, q) => is[x].kind # "link"
    BY <2>1, NoLinkToFile
  <2>3. q \in Clear
    BY <2>1, <2>2 DEF Clear
  <2>4. Lookup(is, q) = is[q] /\ Lookup(was, q) = was[q]
    <3>1. Lookup(is, q) = is[q]
      BY <2>1, <2>2, NoLinkToFollow
    <3>2. \A x \in Path : IsPrefix(x, q) => was[x].kind # "link"
      BY <2>1, <2>2
    <3>3. Lookup(was, q) = was[q]
      BY <2>1, <3>2, NoLinkToFollow
    <3> QED
      BY <3>1, <3>3
  <2>5. WorkingDir \o p = q
    <3>1. WorkingDir \in Seq(Element) /\ q \in Seq(Element) /\ IsPrefix(WorkingDir, q)
      BY PathFacts DEF IsStrictPrefix
    <3> QED
      BY <3>1, RelFacts
  <2>6. FileAt("product", WorkingDir \o p) = is[q] /\ FileAt("material", WorkingDir \o p) = was[q]
    BY <2>4, <2>5 DEF FileAt
  <2>7. /\ p \in DOMAIN products <=> NewOrChanged(q)
        /\ p \in DOMAIN products => products[p] = CalculateDigestSet(is[q].content)
    BY <2>3 DEF RecInv, ProductsInv, Tells
  <2>8. /\ p \in DOMAIN materials <=> was[q].kind = "file"
        /\ p \in DOMAIN materials => materials[p] = CalculateDigestSet(was[q].content)
    BY <2>3 DEF RecInv, MaterialsInv, Tells
  <2>9. was[q] = is[q] <=> was[q].kind = "file" /\ is[q].content = was[q].content
    <3>1. /\ is[q] = File(is[q].content)
          /\ was[q].kind = "file" => was[q] = File(was[q].content)
      BY <2>1, KindFacts
    <3> HIDE DEF is, was
    <3> QED
      BY <2>6, <3>1 DEF File, Node
  <2>10. NewOrChanged(q) <=> (tracing => p \in opened) /\ was[q] # is[q]
    <3>1. NewOrChanged(q) <=>
            /\ tracing => p \in opened
            /\ ~ (p \in DOMAIN materials /\ Equal(CalculateDigestSet(is[q].content), materials[p]))
      BY DEF NewOrChanged
    <3> HIDE DEF p, is, was
    <3> QED
      BY <2>8, <2>9, <3>1, EqualDigests
  <2>11. IsChanged(p) <=> (tracing => p \in opened) /\ was[q] # is[q]
    BY <2>6 DEF IsChanged
  <2>12. p \in DOMAIN products => HasDigestOf(p)
    BY <2>6, <2>7 DEF HasDigestOf
  <2> QED
    BY <2>7, <2>10, <2>11, <2>12
<1> QED
  BY <1>1, RecorderInvariant, PTL

\* RecordArtifacts never has two calls for one target in progress, so links in a
\* circle do not keep it busy (file.go, visitedSymlinks).
THEOREM TargetsWalkedOnce == PostSpec => []NoTargetIsWalkedTwice
<1>1. RecInv => NoTargetIsWalkedTwice
  BY DEF RecInv, VisitedInv
<1> QED
  BY <1>1, RecorderInvariant, PTL


LEMMA SplitPath ==
  ASSUME NEW q \in Seq(Element), NEW i \in 1..Len(q)
  PROVE  /\ Len(q) \in Nat
         /\ SubSeq(q, 1, i) \in Seq(Element) /\ Len(SubSeq(q, 1, i)) = i
         /\ \A j \in 1..i : SubSeq(q, 1, i)[j] = q[j]
         /\ SubSeq(q, i + 1, Len(q)) \in Seq(Element)
         /\ Len(SubSeq(q, i + 1, Len(q))) = Len(q) - i
         /\ \A j \in 1..(Len(q) - i) : SubSeq(q, i + 1, Len(q))[j] = q[i + j]
<1>1. Len(q) \in Nat /\ i \in Nat /\ i <= Len(q) /\ 1 <= i
  OBVIOUS
<1>2. \A j \in 1..Len(q) : q[j] \in Element
  BY ElementOfSeq
<1>3. /\ SubSeq(q, 1, i) \in Seq(Element) /\ Len(SubSeq(q, 1, i)) = i
      /\ \A j \in 1..i : SubSeq(q, 1, i)[j] = q[j]
  <2>1. \A j \in 1..i : q[j] \in Element
    BY <1>1, <1>2
  <2> QED
    BY <1>1, <2>1, SubSeqProperties
<1> DEFINE u == SubSeq(q, i + 1, Len(q))
<1>4. /\ u \in Seq(Element)
      /\ Len(u) = IF i + 1 <= Len(q) THEN Len(q) - (i + 1) + 1 ELSE 0
      /\ \A j \in 1..(Len(q) - (i + 1) + 1) : u[j] = q[i + 1 + j - 1]
  <2>1. \A j \in (i + 1)..Len(q) : q[j] \in Element
    BY <1>1, <1>2
  <2>2. i + 1 \in Int /\ Len(q) \in Int
    BY <1>1
  <2> QED
    BY <2>1, <2>2, SubSeqProperties
<1> HIDE DEF u
<1>5. Len(u) = Len(q) - i /\ \A j \in 1..(Len(q) - i) : u[j] = q[i + j]
  BY <1>1, <1>4
<1> QED
  BY <1>1, <1>3, <1>4, <1>5 DEF u

\* A name that a link is replaced in stays one, and what follows the link in a
\* longer name follows it still.
LEMMA HopFacts ==
  ASSUME NEW t, IsTree(t), NEW q \in Seq(Element), LinksOn(t, q) # {}
  PROVE  /\ Hop(t, q) \in Seq(Element)
         /\ \A r \in Seq(Element) : Hop(t, q \o r) = Hop(t, q) \o r
<1> DEFINE i == Min(LinksOn(t, q))
           target == At(t, SubSeq(q, 1, i)).target
           rest == SubSeq(q, i + 1, Len(q))
<1>1. Len(q) \in Nat
  OBVIOUS
<1>2. LinksOn(t, q) \in SUBSET Nat /\ LinksOn(t, q) \subseteq 1..Len(q)
  BY <1>1 DEF LinksOn
<1>3. i \in LinksOn(t, q) /\ i \in 1..Len(q) /\ \A j \in LinksOn(t, q) : i <= j
  BY <1>2, FirstPosition
<1>4. Hop(t, q) = target \o rest
  BY DEF Hop
<1> HIDE DEF i
<1>5. rest \in Seq(Element)
  BY <1>3, SplitPath
<1>6. target \in Seq(Element)
  <2>1. At(t, SubSeq(q, 1, i)).kind = "link"
    BY <1>3 DEF LinksOn
  <2>2. SubSeq(q, 1, i) \in DOMAIN t
    BY <2>1, NodeFacts DEF At
  <2> QED
    BY <2>2 DEF At, IsTree
<1>7. Hop(t, q) \in Seq(Element)
  BY <1>4, <1>5, <1>6, ConcatProperties
<1>8. ASSUME NEW r \in Seq(Element) PROVE Hop(t, q \o r) = Hop(t, q) \o r
  <2> DEFINE z == q \o r
  <2>1. /\ z \in Seq(Element) /\ Len(z) = Len(q) + Len(r) /\ Len(r) \in Nat
        /\ \A j \in 1..Len(q) : z[j] = q[j]
        /\ \A j \in 1..Len(r) : z[Len(q) + j] = r[j]
    BY <1>1
  <2> HIDE DEF z
  <2>2. \A j \in 1..Len(q) : j \in 1..Len(z) /\ SubSeq(z, 1, j) = SubSeq(q, 1, j)
    <3> TAKE j \in 1..Len(q)
    <3>1. j \in 1..Len(z)
      BY <1>1, <2>1
    <3>2. /\ SubSeq(z, 1, j) \in Seq(Element) /\ Len(SubSeq(z, 1, j)) = j
          /\ \A k \in 1..j : SubSeq(z, 1, j)[k] = z[k]
      BY <2>1, <3>1, SplitPath
    <3>3. /\ SubSeq(q, 1, j) \in Seq(Element) /\ Len(SubSeq(q, 1, j)) = j
          /\ \A k \in 1..j : SubSeq(q, 1, j)[k] = q[k]
      BY SplitPath
    <3>4. \A k \in 1..j : z[k] = q[k]
      BY <1>1, <2>1
    <3>5. SubSeq(z, 1, j) = SubSeq(q, 1, j)
      <4> DEFINE x == SubSeq(z, 1, j)
                 y == SubSeq(q, 1, j)
      <4> HIDE DEF x, y
      <4>1. Len(x) = Len(y) /\ \A k \in 1..Len(x) : x[k] = y[k]
        BY <3>2, <3>3, <3>4 DEF x, y
      <4>2. x \in Seq(Element) /\ y \in Seq(Element)
        BY <3>2, <3>3 DEF x, y
      <4>3. x = y
        BY <4>1, <4>2, SeqEqual
      <4> QED
        BY <4>3 DEF x, y
    <3> QED
      BY <3>1, <3>5
  <2>3. LinksOn(t, q) \subseteq LinksOn(t, z)
    BY <2>2 DEF LinksOn
  <2>4. \A j \in LinksOn(t, z) : j <= Len(q) => j \in LinksOn(t, q)
    <3> TAKE j \in LinksOn(t, z)
    <3>1. j \in 1..Len(z) /\ At(t, SubSeq(z, 1, j)).kind = "link"
      BY DEF LinksOn
    <3> HAVE j <= Len(q)
    <3>2. j \in 1..Len(q)
      BY <1>1, <2>1, <3>1
    <3> QED
      BY <2>2, <3>1, <3>2 DEF LinksOn
  <2>5. Min(LinksOn(t, z)) = i
    <3> DEFINE k == Min(LinksOn(t, z))
    <3>1. LinksOn(t, z) \in SUBSET Nat /\ LinksOn(t, z) # {}
      BY <1>3, <2>1, <2>3 DEF LinksOn
    <3>2. k \in LinksOn(t, z) /\ \A j \in LinksOn(t, z) : k <= j
      BY <3>1, FirstPosition
    <3> HIDE DEF k
    <3>3. k <= i /\ k \in Nat /\ i \in Nat
      BY <1>2, <1>3, <2>3, <3>1, <3>2
    <3>4. k <= Len(q)
      BY <1>1, <1>3, <3>3
    <3>5. i <= k
      BY <1>3, <2>4, <3>2, <3>4
    <3>6. k = i
      BY <3>3, <3>5
    <3> QED
      BY <3>6 DEF k
  <2>6. SubSeq(z, i + 1, Len(z)) = rest \o r
    <3> DEFINE x == SubSeq(z, i + 1, Len(z))
               y == rest \o r
    <3>1. /\ x \in Seq(Element) /\ Len(x) = Len(z) - i
          /\ \A j \in 1..(Len(z) - i) : x[j] = z[i + j]
      <4>1. i \in 1..Len(z)
        BY <1>3, <2>2
      <4> QED
        BY <2>1, <4>1, SplitPath
    <3>2. /\ Len(rest) = Len(q) - i
          /\ \A j \in 1..(Len(q) - i) : rest[j] = q[i + j]
      BY <1>3, SplitPath
    <3> HIDE DEF rest, x
    <3>3. /\ y \in Seq(Element) /\ Len(y) = Len(rest) + Len(r)
          /\ \A j \in 1..Len(y) : y[j] = IF j <= Len(rest) THEN rest[j] ELSE r[j - Len(rest)]
      BY <1>5
    <3> HIDE DEF y
    <3>4. i \in Nat /\ i <= Len(q) /\ 1 <= i
      BY <1>1, <1>3
    <3>5. Len(x) = Len(y)
      BY <1>1, <2>1, <3>1, <3>2, <3>3, <3>4
    <3>6. ASSUME NEW j \in 1..Len(x) PROVE x[j] = y[j]
      <4>0. j \in Nat /\ 1 <= j /\ j <= Len(q) + Len(r) - i
        BY <1>1, <2>1, <3>1, <3>4
      <4>1. CASE j <= Len(rest)
        <5>1. j \in 1..(Len(q) - i) /\ i + j \in 1..Len(q)
          BY <1>1, <3>2, <3>4, <4>0, <4>1
        <5> QED
          BY <2>1, <3>1, <3>2, <3>3, <3>5, <4>1, <5>1
      <4>2. CASE ~ (j <= Len(rest))
        <5> DEFINE k == j - Len(rest)
        <5>1. k \in 1..Len(r) /\ Len(q) + k = i + j
          BY <1>1, <2>1, <3>2, <3>4, <4>0, <4>2
        <5>2. y[j] = r[k]
          BY <3>3, <3>5, <4>2
        <5>3. x[j] = z[i + j]
          BY <3>1
        <5> HIDE DEF k
        <5> QED
          BY <2>1, <5>1, <5>2, <5>3
      <4> QED
        BY <4>1, <4>2
    <3>7. x = y
      BY <3>1, <3>3, <3>5, <3>6, SeqEqual
    <3> QED
      BY <3>7 DEF x, y
  <2>7. LinksOn(t, z) # {}
    BY <1>3, <2>3
  <2>8. Hop(t, z) = target \o (rest \o r)
    <3>1. SubSeq(z, 1, i) = SubSeq(q, 1, i)
      BY <1>3, <2>2
    <3> QED
      BY <2>5, <2>6, <2>7, <3>1 DEF Hop
  <2>9. (target \o rest) \o r = target \o (rest \o r)
    <3> HIDE DEF target, rest
    <3> QED
      BY <1>5, <1>6, ConcatAssociative
  <2> QED
    BY <1>4, <2>8, <2>9 DEF z
<1> QED
  BY <1>7, <1>8


LEMMA HopsType ==
  ASSUME NEW t, IsTree(t), NEW p \in Seq(Element), NEW h, Hops(t, p, h)
  PROVE  \A n \in 0..MaxLinks : h[n] \in Seq(Element)
<1> DEFINE Bad == {n \in 0..MaxLinks : h[n] \notin Seq(Element)}
<1> SUFFICES ASSUME Bad # {} PROVE FALSE
  OBVIOUS
<1>1. Bad \in SUBSET Nat
  BY BoundsAssumption
<1>2. PICK n \in Bad : \A k \in Bad : n <= k
  <2> HIDE DEF Bad
  <2> QED
    BY <1>1, FirstPosition
<1>3. n # 0
  BY <1>2 DEF Hops
<1>4. n - 1 \in 0..MaxLinks /\ n \in 1..MaxLinks /\ n - 1 \notin Bad
  BY <1>1, <1>2, <1>3, BoundsAssumption
<1>5. h[n] = Hop(t, h[n - 1]) /\ h[n - 1] \in Seq(Element)
  BY <1>4 DEF Hops
<1>6. h[n] \in Seq(Element)
  <2>1. CASE LinksOn(t, h[n - 1]) = {}
    BY <1>5, <2>1 DEF Hop
  <2>2. CASE LinksOn(t, h[n - 1]) # {}
    BY <1>5, <2>2, HopFacts
  <2> QED
    BY <2>1, <2>2
<1> QED
  BY <1>2, <1>6

\* Names can be followed part by part: where x leads first and then on from there.
LEMMA FollowInParts ==
  ASSUME NEW t, IsTree(t), NEW x \in Seq(Element), NEW r \in Seq(Element),
         CanFollow(t, x), CanFollow(t, x \o r)
  PROVE  /\ Follow(t, Follow(t, x) \o r) = Follow(t, x \o r)
         /\ CanFollow(t, Follow(t, x) \o r)
<1> DEFINE y == Follow(t, x)
           z == Follow(t, x \o r)
<1>1. PICK h : Hops(t, x, h) /\ y = h[MaxLinks]
  BY HopsThere
<1>2. PICK g : Hops(t, x \o r, g) /\ z = g[MaxLinks]
  BY HopsThere
<1>3. PICK e : Hops(t, y \o r, e) /\ Follow(t, y \o r) = e[MaxLinks]
  BY HopsThere
<1>4. LinksOn(t, y) = {} /\ LinksOn(t, z) = {}
  BY DEF CanFollow
<1>5. Follow(t, Follow(t, x) \o r) = e[MaxLinks] /\ Follow(t, x \o r) = z
  BY <1>3
<1> HIDE DEF y, z
<1> DEFINE Ends == {n \in 0..MaxLinks : LinksOn(t, h[n]) = {}}
<1>6. PICK m \in Ends : \A n \in Ends : m <= n
  <2>1. Ends \in SUBSET Nat /\ MaxLinks \in Ends
    BY <1>1, <1>4, BoundsAssumption
  <2> HIDE DEF Ends
  <2> QED
    BY <2>1, FirstPosition
<1>7. m \in 0..MaxLinks /\ m \in Nat /\ MaxLinks \in Nat /\ LinksOn(t, h[m]) = {}
  BY <1>6, BoundsAssumption
<1>8. \A n \in 0..MaxLinks : n < m => LinksOn(t, h[n]) # {}
  BY <1>6, <1>7
<1>9. h[m] = y
  <2>1. MaxLinks \in m..MaxLinks
    BY <1>7
  <2> QED
    BY <1>1, <1>7, <2>1, HopsEnd
<1> HIDE DEF Ends
<1>10. \A n \in 0..m : g[n] = h[n] \o r
  <2> DEFINE Bad == {n \in 0..m : g[n] # h[n] \o r}
  <2> SUFFICES ASSUME Bad # {} PROVE FALSE
    OBVIOUS
  <2>1. Bad \in SUBSET Nat
    BY <1>7
  <2>2. PICK n \in Bad : \A k \in Bad : n <= k
    <3> HIDE DEF Bad
    <3> QED
      BY <2>1, FirstPosition
  <2>3. n # 0
    BY <1>1, <1>2, <2>2 DEF Hops
  <2>4. n - 1 \in 0..m /\ n \in 1..MaxLinks /\ n - 1 \in 0..MaxLinks /\ n - 1 \notin Bad /\ n - 1 < m
    BY <1>7, <2>1, <2>2, <2>3
  <2>5. g[n - 1] = h[n - 1] \o r
    BY <2>4
  <2>6. g[n] = Hop(t, g[n - 1]) /\ h[n] = Hop(t, h[n - 1])
    BY <1>1, <1>2, <2>4 DEF Hops
  <2>7. LinksOn(t, h[n - 1]) # {} /\ h[n - 1] \in Seq(Element)
    BY <1>1, <1>8, <2>4, HopsType
  <2>8. Hop(t, h[n - 1] \o r) = Hop(t, h[n - 1]) \o r
    BY <2>7, HopFacts
  <2> QED
    BY <2>2, <2>5, <2>6, <2>8
<1>11. g[m] = y \o r
  <2>1. m \in 0..m
    BY <1>7
  <2>2. g[m] = h[m] \o r
    BY <1>10, <2>1
  <2> QED
    BY <1>9, <2>2
<1>12. \A n \in 0..(MaxLinks - m) : e[n] = g[m + n]
  <2> DEFINE Bad == {n \in 0..(MaxLinks - m) : e[n] # g[m + n]}
  <2> SUFFICES ASSUME Bad # {} PROVE FALSE
    OBVIOUS
  <2>1. Bad \in SUBSET Nat
    BY <1>7
  <2>2. PICK n \in Bad : \A k \in Bad : n <= k
    <3> HIDE DEF Bad
    <3> QED
      BY <2>1, FirstPosition
  <2>3. n # 0
    <3>1. e[0] = y \o r
      BY <1>3 DEF Hops
    <3>2. m + 0 = m
      BY <1>7
    <3>3. e[0] = g[m + 0]
      BY <1>11, <3>1, <3>2
    <3> QED
      BY <2>2, <3>3
  <2>4. /\ n - 1 \in 0..(MaxLinks - m) /\ n \in 1..MaxLinks /\ n - 1 \notin Bad
        /\ m + n \in 1..MaxLinks /\ m + n - 1 = m + (n - 1)
    BY <1>7, <2>1, <2>2, <2>3
  <2>5. e[n - 1] = g[m + n - 1]
    BY <2>4
  <2>6. e[n] = Hop(t, e[n - 1]) /\ g[m + n] = Hop(t, g[m + n - 1])
    <3>1. \A k \in 1..MaxLinks : e[k] = Hop(t, e[k - 1])
      BY <1>3 DEF Hops
    <3>2. \A k \in 1..MaxLinks : g[k] = Hop(t, g[k - 1])
      BY <1>2 DEF Hops
    <3> DEFINE k == m + n
    <3>3. k \in 1..MaxLinks /\ n \in 1..MaxLinks
      BY <2>4
    <3> HIDE DEF k, Bad
    <3>4. e[n] = Hop(t, e[n - 1])
      BY <3>1, <3>3
    <3>5. g[k] = Hop(t, g[k - 1])
      BY <3>2, <3>3
    <3>6. k = m + n /\ k - 1 = m + n - 1
      BY <1>7, <2>1 DEF k
    <3> QED
      BY <3>4, <3>5, <3>6
  <2> QED
    BY <2>2, <2>5, <2>6
<1>13. e[MaxLinks] = z
  <2> DEFINE k == MaxLinks - m
  <2>1. k \in 0..MaxLinks /\ MaxLinks \in k..MaxLinks /\ m + k = MaxLinks /\ k \in 0..k
    BY <1>7
  <2>2. e[k] = z
    BY <1>2, <1>12, <2>1
  <2> HIDE DEF k
  <2> QED
    BY <1>3, <1>4, <2>1, <2>2, HopsEnd
<1> QED
  BY <1>4, <1>5, <1>13 DEF CanFollow


-----------------------------------------------------------------------------
(* What the products lead to                                               *)

\* In tree t the name x leads to a file with digest d, if it can be followed.
LeadsTo(t, x, d) ==
  /\ \E c : d = CalculateDigestSet(c)
  /\ CanFollow(t, x) => /\ Lookup(t, x).kind = "file"
                        /\ d = CalculateDigestSet(Lookup(t, x).content)

\* All of the artifacts A, as seen from base, are there.
AreThere(t, base, A) ==
  \A k \in DOMAIN A : \/ DOMAIN A[k] = {"dirHash"}
                      \/ k \in Seq(Element) /\ LeadsTo(t, base \o k, A[k])

\* A call walks what the link leads to for which it was made.
LinksLead ==
  \A i \in 2..Len(frames) :
    /\ Follow(tree, frames[i - 1].base \o frames[i].link) = frames[i].base
    /\ LinksOn(tree, frames[i].base) = {}

ThereInv ==
  /\ \A i \in 1..Len(frames) : AreThere(tree, frames[i].base, frames[i].artifacts)
  /\ LinksLead
  /\ stage = "post" => AreThere(snapshot["product"], WorkingDir, products)

LEMMA PutThere ==
  ASSUME NEW t, NEW base, NEW A, AreThere(t, base, A), NEW k, NEW d,
         DOMAIN d = {"dirHash"} \/ (k \in Seq(Element) /\ LeadsTo(t, base \o k, d))
  PROVE  AreThere(t, base, Put(A, k, d))
<1> DEFINE B == Put(A, k, d)
<1>1. /\ DOMAIN B = DOMAIN A \cup {k}
      /\ B[k] = d
      /\ \A x \in DOMAIN A : x # k => B[x] = A[x]
  BY DEF Put
<1> HIDE DEF B
<1>2. AreThere(t, base, B)
  BY <1>1 DEF AreThere
<1> QED
  BY <1>2 DEF B

LEMMA NothingIsThere ==
  ASSUME NEW t, NEW base
  PROVE  AreThere(t, base, Nothing)
BY DEF AreThere, Nothing

\* The innermost call goes on, with what it has recorded.
LEMMA ThereSetTop ==
  ASSUME FramesInv, ThereInv, frames # <<>>, NEW f, SetTop(f), UNCHANGED <<tree, stage>>,
         f.base = Top.base, f.link = Top.link, AreThere(tree, f.base, f.artifacts)
  PROVE  ThereInv'
<1> DEFINE n == Len(frames)
<1>1. /\ n \in Nat \ {0} /\ Len(frames') = n
      /\ \A i \in 1..n : frames'[i] = IF i = n THEN f ELSE frames[i]
  BY SetTopFrames
<1>2. \A i \in 1..n : AreThere(tree, frames[i].base, frames[i].artifacts)
  BY DEF ThereInv
<1> HIDE DEF n
<1>3. \A i \in 1..n : frames'[i].base = frames[i].base /\ frames'[i].link = frames[i].link
  BY <1>1 DEF Top, n
<1>4. \A i \in 1..Len(frames') : AreThere(tree', frames'[i].base, frames'[i].artifacts)
  BY <1>1, <1>2
<1>5. LinksLead'
  <2>1. \A i \in 2..n : i - 1 \in 1..n /\ i \in 1..n
    BY <1>1
  <2>2. \A i \in 2..n : /\ Follow(tree, frames[i - 1].base \o frames[i].link) = frames[i].base
                        /\ LinksOn(tree, frames[i].base) = {}
    BY DEF ThereInv, LinksLead, n
  <2>3. \A i \in 2..n : /\ frames'[i].base = frames[i].base /\ frames'[i].link = frames[i].link
                        /\ frames'[i - 1].base = frames[i - 1].base
    BY <1>3, <2>1
  <2> SUFFICES ASSUME NEW i \in 2..n
               PROVE  /\ Follow(tree, frames'[i - 1].base \o frames'[i].link) = frames'[i].base
                      /\ LinksOn(tree, frames'[i].base) = {}
    BY <1>1 DEF LinksLead
  <2> QED
    BY <2>2, <2>3
<1>6. stage' # "post"
  BY DEF FramesInv
<1> QED
  BY <1>4, <1>5, <1>6 DEF ThereInv

LEMMA ThereNoFrames ==
  ASSUME frames' = <<>>, stage' # "post"
  PROVE  ThereInv'
BY DEF ThereInv, LinksLead

LEMMA ThereVisitDir == RecInv /\ ThereInv /\ VisitDir => ThereInv'
<1> SUFFICES ASSUME RecInv, ThereInv, VisitDir PROVE ThereInv'
  OBVIOUS
<1>1. Walking({"dir"}) /\ FramesInv /\ frames # <<>> /\ tree' = tree
  BY DEF VisitDir, RecInv, Walking, RecordUnchanged
<1>2. IsFrame(Top) /\ Len(frames) \in Nat \ {0}
  BY <1>1, TopFacts
<1>3. AreThere(tree, Top.base, Top.artifacts)
  BY <1>2 DEF ThereInv, Top
<1>4. CASE Fails
  BY <1>4, ThereNoFrames DEF Fails
<1>5. CASE SetTop(Done(Top)) /\ UNCHANGED stage
  BY <1>1, <1>3, <1>5, DoneFacts, ThereSetTop
<1>6. ASSUME UNCHANGED stage,
             SetTop([Top EXCEPT
                 !.todo = {i \in Top.todo : ~ IsPrefix(Current, WalkOrder[i])},
                 !.artifacts = Put(Top.artifacts, Append(RelPath, "/"),
                                   CalculateDigestSetFromDir(Current))])
      PROVE  ThereInv'
  <2> DEFINE d == {i \in Top.todo : ~ IsPrefix(Current, WalkOrder[i])}
             dig == CalculateDigestSetFromDir(Current)
             a == Put(Top.artifacts, Append(RelPath, "/"), dig)
             f == [Top EXCEPT !.todo = d, !.artifacts = a]
  <2>1. DOMAIN dig = {"dirHash"}
    BY DEF CalculateDigestSetFromDir
  <2> HIDE DEF dig
  <2>2. AreThere(tree, Top.base, a)
    BY <1>3, <2>1, PutThere
  <2>3. SetTop(f)
    BY <1>6 DEF dig
  <2> HIDE DEF d, a
  <2>4. f = [base |-> Top.base, link |-> Top.link, todo |-> d, artifacts |-> a]
    <3> DEFINE h == [base |-> Top.base, link |-> Top.link, todo |-> d,
                     artifacts |-> Top.artifacts]
    <3>1. [Top EXCEPT !.todo = d] = h
      BY <1>2, FrameExcept
    <3>2. f = [h EXCEPT !.artifacts = a]
      BY <3>1
    <3> QED
      BY <3>2
  <2> HIDE DEF f
  <2>5. f.base = Top.base /\ f.link = Top.link /\ f.artifacts = a
    BY <2>4
  <2> QED
    BY <1>1, <1>6, <2>2, <2>3, <2>5, ThereSetTop
<1> QED
  BY <1>4, <1>5, <1>6 DEF VisitDir

LEMMA ThereVisitFile == RecInv /\ ThereInv /\ VisitFile => ThereInv'
<1> SUFFICES ASSUME RecInv, ThereInv, VisitFile PROVE ThereInv'
  OBVIOUS
<1> DEFINE artifact == CalculateDigestSet(tree[Current].content)
           a == IF shouldRecord(RelPath, artifact) THEN Put(Top.artifacts, RelPath, artifact)
                                                   ELSE Top.artifacts
           f == [Done(Top) EXCEPT !.artifacts = a]
<1>1. Walking({"file", "special"}) /\ FramesInv /\ frames # <<>> /\ tree' = tree
  BY DEF VisitFile, RecInv, Walking, RecordUnchanged
<1>2. /\ IsFrame(Top) /\ Len(frames) \in Nat \ {0} /\ Current \in Path
      /\ Current \in Seq(Element) /\ IsPrefix(Top.base, Current) /\ RelPath \in Seq(Element)
  BY <1>1, TopFacts
<1>3. AreThere(tree, Top.base, Top.artifacts)
  BY <1>2 DEF ThereInv, Top
<1>4. CASE Fails
  BY <1>4, ThereNoFrames DEF Fails
<1>5. ASSUME isHashableFile(tree[Current]) PROVE ThereInv'
  <2>1. tree[Current].kind = "file" /\ IsTree(tree)
    BY <1>1, <1>5 DEF Walking, isHashableFile, RecInv, TreeInv
  <2>2. Lookup(tree, Current) = tree[Current]
    BY <1>2, <2>1, NoLinkToFile, NoLinkToFollow DEF IsTree
  <2>3. Top.base \o RelPath = Current
    <3>1. Top.base \in Seq(Element)
      BY <1>2 DEF IsFrame
    <3> QED
      BY <1>2, <3>1, RelFacts DEF RelPath
  <2>4. LeadsTo(tree, Top.base \o RelPath, artifact)
    BY <2>1, <2>2, <2>3 DEF LeadsTo
  <2> HIDE DEF artifact
  <2>5. AreThere(tree, Top.base, a)
    BY <1>2, <1>3, <2>4, PutThere
  <2>6. /\ IsFrame(Done(Top)) /\ Done(Top).base = Top.base /\ Done(Top).link = Top.link
        /\ Done(Top).artifacts = Top.artifacts
    BY <1>1, DoneFacts
  <2>7. SetTop(f) /\ UNCHANGED stage
    BY <1>5, <2>6 DEF VisitFile, artifact
  <2> HIDE DEF a
  <2>8. f.base = Top.base /\ f.link = Top.link /\ f.artifacts = a
    <3>1. f = [base |-> Done(Top).base, link |-> Done(Top).link, todo |-> Done(Top).todo,
               artifacts |-> a]
      BY <2>6, FrameExcept
    <3> QED
      BY <2>6, <3>1
  <2> HIDE DEF f
  <2> QED
    BY <1>1, <2>5, <2>7, <2>8, ThereSetTop
<1> QED
  BY <1>4, <1>5 DEF VisitFile

LEMMA ThereVisitLink == RecInv /\ ThereInv /\ VisitLink => ThereInv'
<1> SUFFICES ASSUME RecInv, ThereInv, VisitLink PROVE ThereInv'
  OBVIOUS
<1> DEFINE n == Len(frames)
           linkedPath == Follow(tree, Current)
           d == Done(Top)
           f == Frame(linkedPath, RelPath)
<1>1. Walking({"link"}) /\ FramesInv /\ frames # <<>> /\ tree' = tree
  BY DEF VisitLink, RecInv, Walking, RecordUnchanged
<1>2. /\ IsFrame(Top) /\ n \in Nat \ {0} /\ Current \in Path
      /\ Current \in Seq(Element) /\ IsPrefix(Top.base, Current) /\ RelPath \in Seq(Element)
  BY <1>1, TopFacts
<1>3. AreThere(tree, Top.base, Top.artifacts)
  BY <1>2 DEF ThereInv, Top
<1>4. CASE Fails
  BY <1>4, ThereNoFrames DEF Fails
<1>5. CASE SetTop(Done(Top)) /\ UNCHANGED stage
  BY <1>1, <1>3, <1>5, DoneFacts, ThereSetTop
<1>6. ASSUME CanFollow(tree, Current), At(tree, linkedPath) # Absent, Enter(linkedPath),
             UNCHANGED stage
      PROVE  ThereInv'
  <2>1. linkedPath \in Path
    BY <1>6 DEF At, RecInv, TreeInv, IsTree
  <2>2. LinksOn(tree, linkedPath) = {}
    BY <1>6 DEF CanFollow
  <2>3. Follow(tree, Top.base \o RelPath) = linkedPath
    <3>1. Top.base \in Seq(Element)
      BY <1>2 DEF IsFrame
    <3>2. Top.base \o RelPath = Current
      BY <1>2, <3>1, RelFacts DEF RelPath
    <3> QED
      BY <3>2
  <2> HIDE DEF linkedPath
  <2>4. /\ Len(frames') = n + 1
        /\ \A i \in 1..(n + 1) :
             frames'[i] = IF i = n + 1 THEN f ELSE IF i = n THEN d ELSE frames[i]
    BY <1>1, <1>6, <2>1, EnterFrames
  <2>5. d.base = Top.base /\ d.link = Top.link /\ d.artifacts = Top.artifacts
    BY <1>1, DoneFacts
  <2>6. f.base = linkedPath /\ f.link = RelPath /\ f.artifacts = Nothing
    BY DEF Frame
  <2> HIDE DEF d, f, n
  <2>7. \A i \in 1..n : /\ AreThere(tree, frames[i].base, frames[i].artifacts)
                        /\ i = n => frames[i] = Top
    BY DEF ThereInv, Top, n
  <2>8. \A i \in 1..(n + 1) : AreThere(tree, frames'[i].base, frames'[i].artifacts)
    <3> TAKE i \in 1..(n + 1)
    <3>1. CASE i = n + 1
      BY <2>4, <2>6, <3>1, NothingIsThere
    <3>2. CASE i # n + 1
      <4>1. i \in 1..n
        BY <1>2, <3>2
      <4> QED
        BY <2>4, <2>5, <2>7, <3>2, <4>1
    <3> QED
      BY <3>1, <3>2
  <2>9. \A i \in 1..n : frames'[i].base = frames[i].base /\ frames'[i].link = frames[i].link
    <3> TAKE i \in 1..n
    <3>1. i \in 1..(n + 1) /\ i # n + 1
      BY <1>2
    <3> QED
      BY <2>4, <2>5, <2>7, <3>1
  <2>10. ASSUME NEW i \in 2..(n + 1)
         PROVE  /\ Follow(tree, frames'[i - 1].base \o frames'[i].link) = frames'[i].base
                /\ LinksOn(tree, frames'[i].base) = {}
    <3>1. CASE i = n + 1
      <4>1. n \in 1..n /\ i - 1 = n /\ i \in 1..(n + 1)
        BY <1>2, <3>1
      <4>2. frames'[i] = f /\ frames'[i - 1].base = Top.base
        BY <2>4, <2>7, <2>9, <3>1, <4>1
      <4> QED
        BY <2>2, <2>3, <2>6, <4>2
    <3>2. CASE i # n + 1
      <4>1. i \in 2..n /\ i \in 1..n /\ i - 1 \in 1..n
        BY <1>2, <3>2
      <4>2. /\ Follow(tree, frames[i - 1].base \o frames[i].link) = frames[i].base
            /\ LinksOn(tree, frames[i].base) = {}
        BY <4>1 DEF ThereInv, LinksLead, n
      <4>3. /\ frames'[i].base = frames[i].base /\ frames'[i].link = frames[i].link
            /\ frames'[i - 1].base = frames[i - 1].base
        BY <2>9, <4>1
      <4> QED
        BY <4>2, <4>3
    <3> QED
      BY <3>1, <3>2
  <2>11. stage' # "post"
    BY <1>1, <1>6 DEF FramesInv
  <2>12. LinksLead'
    BY <1>1, <2>4, <2>10 DEF LinksLead
  <2> QED
    BY <1>1, <2>4, <2>8, <2>11, <2>12 DEF ThereInv
<1> QED
  BY <1>4, <1>5, <1>6 DEF VisitLink


\* What is there below a link's target is there below the link.
LEMMA ThereJoined ==
  ASSUME IsTree(tree), NEW b \in Seq(Element), NEW f, IsFrame(f),
         AreThere(tree, f.base, f.artifacts),
         Follow(tree, b \o f.link) = f.base, LinksOn(tree, f.base) = {},
         NEW A, AreThere(tree, b, A)
  PROVE  AreThere(tree, b, Merged(A, Joined(f)))
<1> DEFINE B == Joined(f)
<1>1. ASSUME NEW p \in DOMAIN B
      PROVE  \/ DOMAIN B[p] = {"dirHash"}
             \/ p \in Seq(Element) /\ LeadsTo(tree, b \o p, B[p])
  <2>1. PICK k \in DOMAIN f.artifacts : p = Join(f.link, k) /\ B[p] = f.artifacts[k]
    BY JoinedFacts
  <2>2. CASE DOMAIN f.artifacts[k] = {"dirHash"}
    BY <2>1, <2>2
  <2>3. ASSUME k \in Seq(Element), LeadsTo(tree, f.base \o k, f.artifacts[k])
        PROVE  p \in Seq(Element) /\ LeadsTo(tree, b \o p, B[p])
    <3>1. f.link \in Seq(Element) /\ f.base \in Seq(Element)
      BY DEF IsFrame
    <3>2. p = f.link \o k
      <4>1. k # <<>> => Last(k) # "/"
        <5> SUFFICES ASSUME k # <<>> PROVE Last(k) # "/"
          OBVIOUS
        <5>1. Len(k) \in 1..Len(k)
          BY <2>3, EmptySeq
        <5>2. k[Len(k)] \in Element
          BY <2>3, <5>1, ElementOfSeq
        <5> QED
          BY <5>2 DEF Last, Element
      <4> QED
        BY <2>1, <4>1 DEF Join
    <3>3. p \in Seq(Element) /\ b \o f.link \in Seq(Element)
      BY <2>3, <3>1, <3>2, ConcatProperties
    <3>4. b \o p = (b \o f.link) \o k
      <4>1. \A l \in Seq(Element) : (b \o l) \o k = b \o (l \o k)
        BY <2>3, ConcatAssociative
      <4> QED
        BY <3>1, <3>2, <4>1
    <3> DEFINE x == b \o f.link
    <3>5. CanFollow(tree, x) /\ Follow(tree, x) = f.base /\ x \in Seq(Element)
      BY <3>3 DEF CanFollow
    <3> HIDE DEF x
    <3>6. ASSUME CanFollow(tree, x \o k)
          PROVE  Lookup(tree, f.base \o k) = Lookup(tree, x \o k) /\ CanFollow(tree, f.base \o k)
      <4>1. /\ Follow(tree, Follow(tree, x) \o k) = Follow(tree, x \o k)
            /\ CanFollow(tree, Follow(tree, x) \o k)
        BY <2>3, <3>5, <3>6, FollowInParts
      <4> QED
        BY <3>5, <4>1 DEF Lookup
    <3>7. LeadsTo(tree, x \o k, f.artifacts[k])
      BY <2>3, <3>6 DEF LeadsTo
    <3>8. x \o k = b \o p
      BY <3>4 DEF x
    <3> QED
      BY <2>1, <3>3, <3>7, <3>8
  <2> QED
    BY <2>1, <2>2, <2>3 DEF AreThere
<1> HIDE DEF B
<1> DEFINE M == Merged(A, B)
<1>2. /\ DOMAIN M = DOMAIN A \cup DOMAIN B
      /\ \A p \in DOMAIN B : M[p] = B[p]
      /\ \A p \in DOMAIN A : p \notin DOMAIN B => M[p] = A[p]
  BY DEF Merged
<1> HIDE DEF M
<1>3. AreThere(tree, b, M)
  BY <1>1, <1>2 DEF AreThere
<1> QED
  BY <1>3 DEF M, B

LEMMA ThereLeaveLink == RecInv /\ ThereInv /\ LeaveLink => ThereInv'
<1> SUFFICES ASSUME RecInv, ThereInv, LeaveLink PROVE ThereInv'
  OBVIOUS
<1> DEFINE n == Len(frames)
           m == n - 1
           A == Merged(frames[m].artifacts, Joined(Top))
           g == [base |-> frames[m].base, link |-> frames[m].link, todo |-> frames[m].todo,
                 artifacts |-> A]
<1>1. FramesInv /\ tree' = tree /\ stage' = stage /\ IsTree(tree)
  BY DEF LeaveLink, RecordUnchanged, RecInv, TreeInv
<1>2. /\ n \in Nat /\ n > 1 /\ IsFrame(Top) /\ IsFrame(frames[m])
      /\ Len(frames') = m
      /\ \A i \in 1..m : frames'[i] = IF i = m THEN g ELSE frames[i]
  BY <1>1, LeaveFrames
<1>3. m \in 1..n /\ n \in 1..n /\ n \in 2..n /\ m \in Nat /\ n - 1 = m
  BY <1>2
<1>4. /\ \A i \in 1..n : AreThere(tree, frames[i].base, frames[i].artifacts)
      /\ \A i \in 2..n : /\ Follow(tree, frames[i - 1].base \o frames[i].link) = frames[i].base
                         /\ LinksOn(tree, frames[i].base) = {}
  BY DEF ThereInv, LinksLead
<1>5. Top = frames[n]
  BY DEF Top
<1>6. \A i \in 1..m : i \in 1..n /\ (i \in 2..m => i - 1 \in 1..m /\ i \in 2..n)
  BY <1>2
<1>7. \A i \in 2..m : i \in 1..m
  BY <1>3
<1> HIDE DEF n, m
<1>8. AreThere(tree, frames[m].base, A)
  <2>1. frames[m].base \in Seq(Element)
    BY <1>2 DEF IsFrame
  <2>2. /\ Follow(tree, frames[m].base \o Top.link) = Top.base
        /\ LinksOn(tree, Top.base) = {}
    BY <1>3, <1>4, <1>5
  <2>3. AreThere(tree, Top.base, Top.artifacts) /\ AreThere(tree, frames[m].base, frames[m].artifacts)
    BY <1>3, <1>4, <1>5
  <2> QED
    BY <1>1, <1>2, <2>1, <2>2, <2>3, ThereJoined
<1> HIDE DEF A
<1>9. g.base = frames[m].base /\ g.link = frames[m].link /\ g.artifacts = A
  OBVIOUS
<1> HIDE DEF g
<1>10. \A i \in 1..m : /\ AreThere(tree, frames'[i].base, frames'[i].artifacts)
                       /\ frames'[i].base = frames[i].base /\ frames'[i].link = frames[i].link
  BY <1>2, <1>4, <1>6, <1>8, <1>9
<1>11. ASSUME NEW i \in 2..m
       PROVE  /\ Follow(tree, frames'[i - 1].base \o frames'[i].link) = frames'[i].base
              /\ LinksOn(tree, frames'[i].base) = {}
  <2>1. i \in 1..m /\ i - 1 \in 1..m /\ i \in 2..n
    BY <1>6, <1>7
  <2>2. /\ frames'[i].base = frames[i].base /\ frames'[i].link = frames[i].link
        /\ frames'[i - 1].base = frames[i - 1].base
    BY <1>10, <2>1
  <2> QED
    BY <1>4, <2>1, <2>2
<1>12. stage' # "post"
  <2>1. frames # <<>>
    BY <1>2 DEF n
  <2> QED
    BY <1>1, <2>1 DEF FramesInv
<1>13. LinksLead'
  BY <1>1, <1>2, <1>11 DEF LinksLead
<1> QED
  BY <1>1, <1>2, <1>10, <1>12, <1>13 DEF ThereInv

LEMMA ThereRecorded == RecInv /\ ThereInv /\ Recorded => ThereInv'
<1> SUFFICES ASSUME RecInv, ThereInv, Recorded PROVE ThereInv'
  OBVIOUS
<1>1. /\ Len(frames) = 1 /\ frames' = <<>> /\ snapshot' = snapshot
      /\ stage' = "post" => stage # "material" /\ products' = Top.artifacts
  BY DEF Recorded, RecordUnchanged
<1>2. frames # <<>> /\ Top = frames[1] /\ 1 \in 1..Len(frames)
  BY <1>1 DEF Top
<1>3. /\ stage \in {"material", "product"} /\ snapshot[stage] = tree
      /\ frames[1].base = WorkingDir
  BY <1>2 DEF RecInv, FramesInv
<1>4. AreThere(tree, WorkingDir, Top.artifacts)
  BY <1>2, <1>3 DEF ThereInv
<1>5. stage' = "post" => AreThere(snapshot'["product"], WorkingDir, products')
  BY <1>1, <1>3, <1>4
<1>6. Len(frames') = 0
  BY <1>1
<1> QED
  BY <1>5, <1>6 DEF ThereInv, LinksLead

LEMMA ThereStartRecording == RecInv /\ ThereInv /\ StartRecording => ThereInv'
<1> SUFFICES ASSUME RecInv, ThereInv, StartRecording PROVE ThereInv'
  OBVIOUS
<1> DEFINE f == Frame(WorkingDir, <<>>)
<1>1. stage' # "post" /\ frames' = <<f>> /\ tree' = tree
  BY DEF StartRecording
<1>2. f.artifacts = Nothing
  BY DEF Frame
<1> HIDE DEF f
<1>3. Len(frames') = 1 /\ frames'[1] = f
  BY <1>1
<1>4. AreThere(tree', f.base, f.artifacts)
  BY <1>2, NothingIsThere
<1> QED
  BY <1>1, <1>3, <1>4 DEF ThereInv, LinksLead

LEMMA ThereBetween ==
  ASSUME RecInv, ThereInv, BadGlob \/ CommandEnds \/ WriteFile \/ RemoveFile \/ Relink
  PROVE  ThereInv'
<1>1. stage = "command" => frames = <<>>
  BY DEF RecInv, FramesInv
<1>2. /\ frames' = <<>> /\ UNCHANGED <<snapshot, products>>
      /\ stage' = "post" => stage = "post"
  BY <1>1 DEF BadGlob, Fails, RecordUnchanged, CommandEnds, WriteFile, RemoveFile, Change,
              Relink
<1>3. Len(frames') = 0
  BY <1>2
<1> QED
  BY <1>2, <1>3 DEF ThereInv, LinksLead

\* The inductive invariant of what the artifacts of every call in progress lead to
\* (file.go, joinedPath).
THEOREM ThereInvariant == PostSpec => []ThereInv
<1>1. PostInit => ThereInv
  <2> SUFFICES ASSUME PostInit PROVE ThereInv
    OBVIOUS
  <2>1. stage = "material" /\ Len(frames) = 0
    BY DEF PostInit, RecorderInit
  <2> QED
    BY <2>1 DEF ThereInv, LinksLead
<1>2. RecInv /\ ThereInv /\ [PostNext]_postVars => ThereInv'
  <2> SUFFICES ASSUME RecInv, ThereInv, [PostNext]_postVars PROVE ThereInv'
    OBVIOUS
  <2>1. CASE Recording
    <3>1. RecorderNext
      BY <2>1 DEF Recording
    <3> QED
      BY <3>1, ThereVisitDir, ThereVisitLink, ThereVisitFile, ThereLeaveLink, ThereRecorded,
         ThereStartRecording, ThereBetween DEF RecorderNext, RecorderStep, RecordArtifacts
  <2>2. CASE Attest \/ UNCHANGED postVars
    <3>1. UNCHANGED recVars
      BY <2>2 DEF Attest, Begin, Exhausted, Skip, Take, Open, ReadImage, ReadLayers, ReadTar,
                  Stay, postVars
    <3> QED
      BY <3>1 DEF recVars, ThereInv, LinksLead
  <2> QED
    BY <2>1, <2>2 DEF PostNext
<1> QED
  BY <1>1, <1>2, RecorderInvariant, PTL DEF PostSpec

\* The path of a product, behind however many links it was found, leads to a file
\* with the digest it has, if it can be followed at all (file.go, joinedPath).
THEOREM ProductsLeadToFiles == PostSpec => []ProductsAreThere
<1>1. ThereInv => ProductsAreThere
  BY DEF ThereInv, AreThere, LeadsTo, ProductsAreThere, FileAt, HasDigestOf
<1> QED
  BY <1>1, ThereInvariant, PTL


-----------------------------------------------------------------------------
(* The attestors of documents                                              *)

\* A candidate is being read.
Reads == {"open", "image", "layers"}

AttestorInv ==
  /\ attestor \in {None, "sarif", "vex", "sbom", "docker", "oci"}
  /\ stage # "post" => pc = "idle"
  /\ pc = "idle" => parts = {}
  /\ pc \in Reads => attestor # None

\* Who does not check digests relies on nothing having been written.
FreshInv == attestor # None /\ ~ Checks /\ fresh /\ stage = "post" => tree = snapshot["product"]

\* The file that is read has the digest that is claimed.
CandidateInv ==
  pc \in Reads =>
    /\ claim = products[candidate]
    /\ fresh /\ Opened(candidate).kind = "file" =>
         CalculateDigestSet(Opened(candidate).content) = claim

\* So has what was read, up to fields that are left of something else.
PartsInv ==
  attestor # "docker" =>
    /\ pc \in {"pick", "open"} => parts \subseteq reading.partial
    /\ fresh /\ pc \in {"image", "layers", "ok"} =>
         \A c \in parts \ reading.partial : CalculateDigestSet(c) = claim

DocInv == AttestorInv /\ FreshInv /\ CandidateInv /\ PartsInv

LEMMA LoopFacts ==
  /\ LoopOf["sarif"].filters = FALSE /\ LoopOf["sarif"].checks = TRUE
  /\ LoopOf["sarif"].bad = "pick" /\ LoopOf["sarif"].good = "ok"
  /\ LoopOf["vex"].filters = FALSE /\ LoopOf["vex"].checks = TRUE
  /\ LoopOf["vex"].bad = "pick" /\ LoopOf["vex"].good = "ok"
  /\ LoopOf["sbom"].filters = TRUE /\ LoopOf["sbom"].checks = FALSE
  /\ LoopOf["sbom"].bad = "error" /\ LoopOf["sbom"].good = "ok"
  /\ LoopOf["docker"].filters = TRUE /\ LoopOf["docker"].checks = FALSE
  /\ LoopOf["docker"].bad = "pick" /\ LoopOf["docker"].good = "pick"
  /\ LoopOf["oci"].filters = TRUE /\ LoopOf["oci"].checks = TRUE
  /\ LoopOf["oci"].bad = "error" /\ LoopOf["oci"].good = "image"
BY DEF LoopOf, Loop, sarif, vex, sbom, docker, oci

\* What a name leads to is a file only if the name can be followed.
LEMMA FileIsFollowed ==
  ASSUME NEW t, IsTree(t), NEW x, Lookup(t, x).kind = "file"
  PROVE  CanFollow(t, x)
<1> DEFINE z == Follow(t, x)
<1>1. At(t, z).kind = "file"
  BY DEF Lookup
<1> HIDE DEF z
<1>2. z \in Path /\ t[z].kind = "file" /\ DOMAIN t = Path
  BY <1>1, NodeFacts DEF At, IsTree
<1>3. LinksOn(t, z) = {}
  BY <1>2, NoLinkToFile, NoLinksOn
<1> QED
  BY <1>3 DEF CanFollow, z

\* A product with the digest of a file: whoever finds a file under its name
\* with an equal digest, or with nothing written since, finds what it claims.
LEMMA ClaimHolds ==
  ASSUME RecInv, ThereInv, AttestorInv, FreshInv, stage = "post", attestor # None,
         NEW p \in DOMAIN products, Filters => HasWantedType(p), Checks => DigestHolds(p),
         fresh \/ Checks, Opened(p).kind = "file"
  PROVE  CalculateDigestSet(Opened(p).content) = products[p]
<1>1. \A c : DOMAIN CalculateDigestSet(c) = Hashes
  BY DEF CalculateDigestSet
<1>2. /\ AreThere(snapshot["product"], WorkingDir, products)
      /\ IsTree(snapshot["product"]) /\ IsTree(tree)
  BY DEF ThereInv, RecInv, TreeInv
<1>3. CASE Checks
  <2>1. Equal(CalculateDigestSet(Opened(p).content), products[p])
    BY <1>3 DEF DigestHolds
  <2>2. DOMAIN products[p] # {"dirHash"}
    BY <1>1, <2>1, HashesAssumption DEF Equal
  <2>3. PICK c : products[p] = CalculateDigestSet(c)
    BY <1>2, <2>2 DEF AreThere, LeadsTo
  <2> QED
    BY <2>1, <2>3, EqualDigests
<1>4. CASE ~ Checks
  <2>1. Filters
    BY <1>4, LoopFacts DEF AttestorInv, Filters, Checks
  <2>2. DOMAIN products[p] # {"dirHash"}
    BY <1>1, <2>1, HashesAssumption DEF HasWantedType
  <2>3. LeadsTo(snapshot["product"], WorkingDir \o p, products[p])
    BY <1>2, <2>2 DEF AreThere
  <2>4. tree = snapshot["product"] /\ Opened(p) = Lookup(tree, WorkingDir \o p)
    BY <1>4 DEF FreshInv, Opened
  <2>5. CanFollow(tree, WorkingDir \o p)
    BY <1>2, <2>4, FileIsFollowed
  <2> QED
    BY <2>3, <2>4, <2>5 DEF LeadsTo
<1> QED
  BY <1>3, <1>4

LEMMA DocRecording == RecInv /\ DocInv /\ Recording => DocInv'
<1> SUFFICES ASSUME RecInv, DocInv, Recording PROVE DocInv'
  OBVIOUS
<1>1. /\ RecorderNext /\ (stage = "post" => attestor # None)
      /\ fresh' = (tree' = tree /\ (fresh \/ stage' # stage))
      /\ UNCHANGED <<attestor, reading, inWorkdir, pc, left, candidate, parts, claim>>
  BY DEF Recording
<1>2. CASE stage # "post"
  <2>1. pc = "idle" /\ pc' = "idle" /\ parts' = {}
    BY <1>1, <1>2 DEF DocInv, AttestorInv
  <2>2. stage' = "post" => tree' = snapshot'["product"]
    <3> SUFFICES ASSUME stage' = "post" PROVE tree' = snapshot'["product"]
      OBVIOUS
    <3>1. Recorded
      BY <1>1, <1>2 DEF RecorderNext, RecorderStep, RecordArtifacts, StartRecording, BadGlob,
           Fails, CommandEnds, VisitDir, VisitLink, VisitFile, LeaveLink, WriteFile,
           RemoveFile, Change, Relink
    <3>2. frames # <<>> /\ stage # "material" /\ UNCHANGED <<tree, snapshot>>
      BY <3>1 DEF Recorded, RecordUnchanged
    <3> QED
      BY <3>2 DEF RecInv, FramesInv
  <2> QED
    BY <1>1, <2>1, <2>2 DEF DocInv, AttestorInv, FreshInv, CandidateInv, PartsInv, Reads
<1>3. CASE stage = "post"
  <2>1. frames = <<>>
    BY <1>3 DEF RecInv, FramesInv
  <2>2. WriteFile \/ RemoveFile
    BY <1>1, <1>3, <2>1 DEF RecorderNext, RecorderStep, RecordArtifacts, StartRecording,
         BadGlob, CommandEnds, VisitDir, VisitLink, VisitFile, LeaveLink, Recorded, Walking,
         Relink
  <2>3. UNCHANGED <<stage, snapshot, products>>
    BY <2>2 DEF WriteFile, RemoveFile, Change
  <2>4. fresh' => fresh /\ tree' = tree
    BY <1>1, <2>3
  <2>5. AttestorInv' /\ PartsInv'
    BY <1>1, <2>3, <2>4 DEF DocInv, AttestorInv, PartsInv
  <2>6. FreshInv'
    BY <1>1, <2>3, <2>4 DEF DocInv, FreshInv, Checks
  <2>7. CandidateInv'
    BY <1>1, <2>3, <2>4 DEF DocInv, CandidateInv, Opened, Checks
  <2> QED
    BY <2>5, <2>6, <2>7 DEF DocInv
<1> QED
  BY <1>2, <1>3

LEMMA DocAttest == RecInv /\ ThereInv /\ DocInv /\ Attest => DocInv'
<1> SUFFICES ASSUME RecInv, ThereInv, DocInv, Attest PROVE DocInv'
  OBVIOUS
<1>1. /\ stage = "post" /\ attestor # None
      /\ UNCHANGED <<tree, snapshot, stage, products, attestor, reading, inWorkdir>>
  BY DEF Attest, Begin, Exhausted, Skip, Take, Open, ReadImage, ReadLayers, ReadTar,
         Looking, Stay, recVars
<1>2. \A p : Opened(p)' = Opened(p)
  BY <1>1 DEF Opened, Checks
<1>3. Checks' = Checks
  BY <1>1 DEF Checks
<1>4. attestor \in {"sarif", "vex", "sbom", "docker", "oci"}
  BY <1>1 DEF DocInv, AttestorInv
<1>5. CASE Begin
  <2>1. pc' \in {"error", "pick"} /\ parts = {} /\ UNCHANGED <<fresh, parts>>
    BY <1>5 DEF Begin, Looking, DocInv, AttestorInv
  <2> QED
    BY <1>1, <1>3, <2>1 DEF DocInv, AttestorInv, FreshInv, CandidateInv, PartsInv, Reads
<1>6. CASE Exhausted
  <2>1. /\ pc' \in {"error", "ok"} /\ (pc' = "ok" => attestor = "docker")
        /\ UNCHANGED <<fresh, parts>>
    BY <1>6 DEF Exhausted
  <2> QED
    BY <1>1, <1>3, <2>1 DEF DocInv, AttestorInv, FreshInv, CandidateInv, PartsInv, Reads
<1>7. CASE \E p \in DOMAIN products : Skip(p)
  <2>1. pc = "pick" /\ UNCHANGED <<pc, fresh, parts>>
    BY <1>7 DEF Skip, Looking
  <2> QED
    BY <1>1, <1>3, <2>1 DEF DocInv, AttestorInv, FreshInv, CandidateInv, PartsInv, Reads
<1>8. ASSUME NEW p \in DOMAIN products, Take(p) PROVE DocInv'
  <2>1. pc = "pick" /\ parts' = parts
    BY <1>8 DEF Take, Looking
  <2>2. CASE pc' = "error" /\ UNCHANGED <<candidate, fresh, claim>>
    BY <1>1, <1>3, <2>1, <2>2 DEF DocInv, AttestorInv, FreshInv, CandidateInv, PartsInv, Reads
  <2>3. ASSUME Checks => DigestHolds(p), pc' = "open", candidate' = p,
               fresh' = (fresh \/ Checks), claim' = products[p]
        PROVE  DocInv'
    <3>1. Filters => HasWantedType(p)
      BY <1>8 DEF Take
    <3>2. ASSUME fresh', Opened(p).kind = "file"
          PROVE  CalculateDigestSet(Opened(p).content) = products[p]
      BY <1>1, <2>3, <3>1, <3>2, ClaimHolds DEF DocInv
    <3>3. CandidateInv'
      BY <1>1, <1>2, <2>3, <3>2 DEF CandidateInv
    <3>4. FreshInv'
      BY <1>1, <1>3, <2>3 DEF DocInv, FreshInv
    <3>5. AttestorInv' /\ PartsInv'
      BY <1>1, <2>1, <2>3 DEF DocInv, AttestorInv, PartsInv
    <3> QED
      BY <3>3, <3>4, <3>5 DEF DocInv
  <2> QED
    BY <1>8, <2>2, <2>3 DEF Take
<1>9. CASE Open
  <2> DEFINE node == Opened(candidate)
             loop == LoopOf[attestor]
  <2>1. pc = "open" /\ UNCHANGED <<candidate, fresh, claim>>
    BY <1>9 DEF Open, Looking
  <2>2. /\ claim = products[candidate]
        /\ fresh /\ node.kind = "file" => CalculateDigestSet(node.content) = claim
    BY <2>1 DEF DocInv, CandidateInv, Reads
  <2>3. CASE pc' = "error" /\ UNCHANGED parts
    BY <1>1, <1>3, <2>1, <2>3 DEF DocInv, AttestorInv, FreshInv, CandidateInv, PartsInv, Reads
  <2>4. ASSUME node.kind = "file", pc' = loop.good, parts' = parts \cup {node.content}
        PROVE  DocInv'
    <3>1. pc' \in {"ok", "pick", "image"} /\ (pc' = "pick" => attestor = "docker")
      BY <1>4, <2>4, LoopFacts
    <3>2. attestor # "docker" => parts \subseteq reading.partial
      BY <2>1 DEF DocInv, PartsInv
    <3> HIDE DEF node, loop
    <3>3. PartsInv'
      BY <1>1, <2>1, <2>2, <2>4, <3>1, <3>2 DEF PartsInv
    <3>4. CandidateInv'
      BY <1>1, <1>2, <2>1, <2>2, <3>1 DEF CandidateInv, node
    <3>5. AttestorInv' /\ FreshInv'
      BY <1>1, <1>3, <2>1, <3>1 DEF DocInv, AttestorInv, FreshInv
    <3> QED
      BY <3>3, <3>4, <3>5 DEF DocInv
  <2>5. ASSUME pc' = loop.bad,
               parts' = parts \cup (IF loop.keeps THEN {node.content} \cap reading.partial
                                                  ELSE {})
        PROVE  DocInv'
    <3>1. pc' \in {"error", "pick"}
      BY <1>4, <2>5, LoopFacts
    <3>2. attestor # "docker" => parts \subseteq reading.partial
      BY <2>1 DEF DocInv, PartsInv
    <3> HIDE DEF node, loop
    <3>3. PartsInv'
      BY <1>1, <2>1, <2>5, <3>1, <3>2 DEF PartsInv
    <3>4. AttestorInv' /\ FreshInv' /\ CandidateInv'
      BY <1>1, <1>3, <2>1, <3>1 DEF DocInv, AttestorInv, FreshInv, CandidateInv, Reads
    <3> QED
      BY <3>3, <3>4 DEF DocInv
  <2> QED
    BY <1>9, <2>3, <2>4, <2>5 DEF Open
<1>10. CASE ReadImage \/ ReadLayers
  <2> DEFINE node == Opened(candidate)
  <2>1. /\ pc \in {"image", "layers"} /\ UNCHANGED <<candidate, fresh, claim>>
        /\ \/ pc' = "error" /\ UNCHANGED parts
           \/ /\ pc' \in {"layers", "ok"} /\ node.kind = "file"
              /\ parts' = parts \cup {node.content}
    BY <1>10 DEF ReadImage, ReadLayers, ReadTar, Looking
  <2>2. /\ claim = products[candidate]
        /\ fresh /\ node.kind = "file" => CalculateDigestSet(node.content) = claim
    BY <2>1 DEF DocInv, CandidateInv, Reads
  <2>3. attestor # "docker" /\ fresh =>
          \A c \in parts \ reading.partial : CalculateDigestSet(c) = claim
    BY <2>1 DEF DocInv, PartsInv
  <2> HIDE DEF node
  <2>4. PartsInv'
    BY <1>1, <2>1, <2>2, <2>3 DEF PartsInv
  <2>5. CandidateInv'
    BY <1>1, <1>2, <2>1, <2>2 DEF CandidateInv, node
  <2>6. AttestorInv' /\ FreshInv'
    BY <1>1, <1>3, <2>1 DEF DocInv, AttestorInv, FreshInv
  <2> QED
    BY <2>4, <2>5, <2>6 DEF DocInv
<1> QED
  BY <1>5, <1>6, <1>7, <1>8, <1>9, <1>10 DEF Attest

\* The inductive invariant of the attestors that read a product again, while other
\* processes may write (getCandidate of sarif, vex, sbom, docker and oci).
THEOREM DocumentInvariant == PostSpec => []DocInv
<1>1. PostInit => DocInv
  BY PostAttestorsAssumption
     DEF PostInit, RecorderInit, DocInv, AttestorInv, FreshInv, CandidateInv, PartsInv, Reads
<1>2. RecInv /\ ThereInv /\ DocInv /\ [PostNext]_postVars => DocInv'
  <2> SUFFICES ASSUME RecInv, ThereInv, DocInv, UNCHANGED postVars PROVE DocInv'
    BY DocRecording, DocAttest DEF PostNext
  <2> QED
    BY DEF DocInv, AttestorInv, FreshInv, CandidateInv, PartsInv, Opened, Checks, postVars,
           recVars, attVars
<1> QED
  BY <1>1, <1>2, RecorderInvariant, ThereInvariant, PTL DEF PostSpec

\* The digest that sarif, vex, sbom and oci publish is that of what they read, for
\* any contents, unless the file was written after its digest was checked or, for
\* sbom, after the products were recorded.
THEOREM ReportsMatchDigests == PostSpec => []ReportMatchesItsDigest
<1>1. DocInv => ReportMatchesItsDigest
  BY DEF DocInv, PartsInv, ReportMatchesItsDigest
<1> QED
  BY <1>1, DocumentInvariant, PTL

-----------------------------------------------------------------------------
(* The secret scan                                                         *)

\* processedInThisScan is what each layer passes on to the next one.
LEMMA ProcessedFacts ==
  ASSUME NEW content
  PROVE  /\ processedInThisScan(content)[0] = {}
         /\ \A d \in 0..3 : processedInThisScan(content)[d + 1]
                              = PassedOn(content, d, processedInThisScan(content)[d])
<1> DEFINE G(h) == [depth \in 0..3 + 1 |->
                      IF depth = 0 THEN {} ELSE PassedOn(content, depth - 1, h[depth - 1])]
           p == CHOOSE h : h = G(h)
           p1 == PassedOn(content, 0, {})
           p2 == PassedOn(content, 1, p1)
           p3 == PassedOn(content, 2, p2)
           p4 == PassedOn(content, 3, p3)
           e == [depth \in 0..3 + 1 |-> CASE depth = 0 -> {}
                                          [] depth = 1 -> p1
                                          [] depth = 2 -> p2
                                          [] depth = 3 -> p3
                                          [] depth = 4 -> p4]
<1>1. e = G(e)
  <2>1. ASSUME NEW d \in 0..3 + 1
        PROVE  e[d] = IF d = 0 THEN {} ELSE PassedOn(content, d - 1, e[d - 1])
    <3>1. d = 0 \/ d = 1 \/ d = 2 \/ d = 3 \/ d = 4
      OBVIOUS
    <3>2. e[0] = {} /\ e[1] = p1 /\ e[2] = p2 /\ e[3] = p3 /\ e[4] = p4
      <4> HIDE DEF p1, p2, p3, p4
      <4> QED
        OBVIOUS
    <3> HIDE DEF e
    <3> QED
      BY <3>1, <3>2
  <2> HIDE DEF p1, p2, p3, p4
  <2> QED
    BY <2>1
<1>2. p = G(p)
  <2> HIDE DEF e, G
  <2> QED
    BY <1>1
<1>3. processedInThisScan(content) = p
  BY DEF processedInThisScan, maxScanRecursionDepth
<1> HIDE DEF p
<1>4. ASSUME NEW d \in 0..4
      PROVE  p[d] = IF d = 0 THEN {} ELSE PassedOn(content, d - 1, p[d - 1])
  <2>1. G(p)[d] = IF d = 0 THEN {} ELSE PassedOn(content, d - 1, p[d - 1])
    OBVIOUS
  <2> HIDE DEF G
  <2> QED
    BY <1>2, <2>1
<1>5. p[0] = {}
  BY <1>4
<1>6. ASSUME NEW d \in 0..3 PROVE p[d + 1] = PassedOn(content, d, p[d])
  <2>1. d + 1 \in 0..4 /\ d + 1 # 0 /\ d + 1 - 1 = d
    OBVIOUS
  <2> QED
    BY <1>4, <2>1
<1> QED
  BY <1>3, <1>5, <1>6

\* The findings of a layer are made of those of the layer below it.
LEMMA FoundFacts ==
  ASSUME NEW content
  PROVE  /\ scanBytes(content)[4] = {}
         /\ \A d \in 0..3 :
              scanBytes(content)[d] =
                FindingsAt(content, d, processedInThisScan(content)[d], scanBytes(content)[d + 1])
<1> DEFINE P(d) == processedInThisScan(content)[d]
           G(h) == [depth \in 0..3 + 1 |-> FindingsAt(content, depth, P(depth), h[depth + 1])]
           s == CHOOSE h : h = G(h)
           s3 == FindingsAt(content, 3, P(3), {})
           s2 == FindingsAt(content, 2, P(2), s3)
           s1 == FindingsAt(content, 1, P(1), s2)
           s0 == FindingsAt(content, 0, P(0), s1)
           e == [depth \in 0..3 + 1 |-> CASE depth = 0 -> s0
                                          [] depth = 1 -> s1
                                          [] depth = 2 -> s2
                                          [] depth = 3 -> s3
                                          [] depth = 4 -> {}]
<1>1. ASSUME NEW below PROVE FindingsAt(content, 4, P(4), below) = {}
  BY DEF FindingsAt, maxScanRecursionDepth
<1> HIDE DEF P
<1>2. e = G(e)
  <2>1. ASSUME NEW d \in 0..3 + 1
        PROVE  e[d] = FindingsAt(content, d, P(d), e[d + 1])
    <3>1. d = 0 \/ d = 1 \/ d = 2 \/ d = 3 \/ d = 4
      OBVIOUS
    <3>2. e[0] = s0 /\ e[1] = s1 /\ e[2] = s2 /\ e[3] = s3 /\ e[4] = {}
      <4> HIDE DEF s0, s1, s2, s3
      <4> QED
        OBVIOUS
    <3>3. CASE d \in 0..3
      <4>1. 0 + 1 = 1 /\ 1 + 1 = 2 /\ 2 + 1 = 3 /\ 3 + 1 = 4
        OBVIOUS
      <4> HIDE DEF e
      <4> QED
        BY <3>1, <3>2, <3>3, <4>1
    <3>4. CASE d = 4
      <4> HIDE DEF e
      <4> QED
        BY <1>1, <3>2, <3>4
    <3> QED
      BY <3>1, <3>3, <3>4
  <2> HIDE DEF s0, s1, s2, s3
  <2> QED
    BY <2>1
<1>3. s = G(s)
  <2> HIDE DEF e, G
  <2> QED
    BY <1>2
<1>4. scanBytes(content) = s
  BY DEF scanBytes, maxScanRecursionDepth, P
<1> HIDE DEF s
<1>5. ASSUME NEW d \in 0..4 PROVE s[d] = FindingsAt(content, d, P(d), s[d + 1])
  <2>1. G(s)[d] = FindingsAt(content, d, P(d), s[d + 1])
    OBVIOUS
  <2> HIDE DEF G
  <2> QED
    BY <1>3, <2>1
<1> QED
  BY <1>1, <1>4, <1>5 DEF P


\* What a content may say of the encoding of its layers.
Encodings == defaultEncodingScanners \cup {"none"}

LEMMA EncodingFacts ==
  ASSUME NEW content, IsContent(content), NEW i \in 1..Len(content)
  PROVE  content[i].encoding \in Encodings /\ Len(content) \in Nat
<1> DEFINE Layers == [secrets : SUBSET STRING, env : SUBSET STRING, allowed : BOOLEAN,
                      encoding : defaultEncodingScanners \cup {"none"}]
<1>1. content \in Seq(Layers)
  BY DEF IsContent
<1>2. content[i] \in Layers /\ Len(content) \in Nat
  <2> HIDE DEF Layers
  <2> QED
    BY <1>1, ElementOfSeq
<1>3. content[i].encoding \in defaultEncodingScanners \cup {"none"}
  BY <1>2
<1> QED
  BY <1>2, <1>3 DEF Encodings

\* What Cons puts in front.
LEMMA ConsFacts ==
  ASSUME NEW S, NEW x \in S, NEW p \in Seq(S)
  PROVE  /\ Cons(x, p) \in Seq(S)
         /\ Len(Cons(x, p)) = Len(p) + 1
         /\ Cons(x, p)[1] = x
         /\ \A i \in 2..Len(p) + 1 : Cons(x, p)[i] = p[i - 1]
<1>1. <<x>> \in Seq(S) /\ Len(<<x>>) = 1 /\ <<x>>[1] = x
  OBVIOUS
<1> DEFINE q == <<x>> \o p
<1>2. q \in Seq(S) /\ Len(q) = 1 + Len(p)
      /\ \A i \in 1..1 + Len(p) : q[i] = IF i <= 1 THEN <<x>>[i] ELSE p[i - 1]
  BY <1>1, ConcatProperties
<1>3. Len(p) \in Nat
  OBVIOUS
<1>4. Cons(x, p) = q
  BY DEF Cons
<1> HIDE DEF q
<1> QED
  BY <1>1, <1>2, <1>3, <1>4

\* A finding of the layer at depth d leads to the layer that holds it.
LeadsFrom(content, d, f) ==
  /\ f = Found(f.what, f.path)
  /\ f.path \in Seq(Encodings)
  /\ d + Len(f.path) + 1 \in 1..Len(content)
  /\ f.path = [i \in 1..Len(f.path) |-> content[d + i].encoding]
  /\ f.what \in content[d + Len(f.path) + 1].secrets \cup content[d + Len(f.path) + 1].env

LEMMA LeadsHere ==
  ASSUME NEW content, IsContent(content), NEW d \in Nat, d + 1 <= Len(content),
         NEW x \in content[d + 1].secrets \cup content[d + 1].env
  PROVE  LeadsFrom(content, d, Found(x, <<>>))
<1> DEFINE f == Found(x, <<>>)
<1>1. f.what = x /\ f.path = <<>> /\ Len(f.path) = 0 /\ f = Found(f.what, f.path)
  BY DEF Found
<1>2. d + Len(f.path) + 1 = d + 1 /\ d + 1 \in 1..Len(content)
  BY <1>1 DEF IsContent
<1>3. <<>> = [i \in 1..0 |-> content[d + i].encoding]
  OBVIOUS
<1> HIDE DEF f
<1>4. LeadsFrom(content, d, f)
  BY <1>1, <1>2, <1>3 DEF LeadsFrom
<1> QED
  BY <1>4 DEF f

\* With the encoding in front, it leads there from the layer above.
LEMMA LeadsUnder ==
  ASSUME NEW content, IsContent(content), NEW d \in Nat, d + 1 < Len(content),
         NEW f, LeadsFrom(content, d + 1, f)
  PROVE  LeadsFrom(content, d, [f EXCEPT !.path = Cons(content[d + 1].encoding, @)])
<1> DEFINE enc == content[d + 1].encoding
           p == f.path
           q == Cons(enc, p)
           g == [f EXCEPT !.path = Cons(content[d + 1].encoding, @)]
<1>1. enc \in Encodings
  <2>1. d + 1 \in 1..Len(content)
    BY DEF IsContent
  <2> QED
    BY <2>1, EncodingFacts
<1>2. p \in Seq(Encodings) /\ Len(p) \in Nat
  BY DEF LeadsFrom
<1>3. q \in Seq(Encodings) /\ Len(q) = Len(p) + 1 /\ q[1] = enc
      /\ \A i \in 2..Len(p) + 1 : q[i] = p[i - 1]
  <2> HIDE DEF p, enc
  <2> QED
    BY <1>1, <1>2, ConsFacts
<1>4. g = Found(f.what, q) /\ g.path = q /\ g.what = f.what
  <2>1. f = Found(f.what, p)
    BY DEF LeadsFrom
  <2> HIDE DEF q, p
  <2>2. [Found(f.what, p) EXCEPT !.path = q] = Found(f.what, q)
    BY DEF Found
  <2>3. g = [f EXCEPT !.path = q]
    BY DEF q, p
  <2> HIDE DEF g
  <2> QED
    BY <2>1, <2>2, <2>3 DEF Found
<1>5. d + Len(q) + 1 = d + 1 + Len(p) + 1
  <2> HIDE DEF p, q
  <2> QED
    BY <1>2, <1>3
<1>6. \A i \in 1..Len(q) : q[i] = content[d + i].encoding
  <2> SUFFICES ASSUME NEW i \in 1..Len(q) PROVE q[i] = content[d + i].encoding
    OBVIOUS
  <2>1. CASE i = 1
    BY <1>3, <2>1
  <2>2. CASE i # 1
    <3>1. i \in 2..Len(p) + 1 /\ i - 1 \in 1..Len(p) /\ d + 1 + (i - 1) = d + i
      <4> HIDE DEF p, q
      <4> QED
        BY <1>2, <1>3, <2>2
    <3>2. p[i - 1] = content[d + 1 + (i - 1)].encoding
      BY <3>1 DEF LeadsFrom
    <3> QED
      BY <1>3, <3>1, <3>2
  <2> QED
    BY <2>1, <2>2
<1>7. q = [i \in 1..Len(q) |-> content[d + i].encoding]
  <2> HIDE DEF q
  <2>1. q = [i \in 1..Len(q) |-> q[i]]
    BY <1>3
  <2> QED
    BY <1>6, <2>1
<1>8. f.what \in content[d + Len(q) + 1].secrets \cup content[d + Len(q) + 1].env
      /\ d + Len(q) + 1 \in 1..Len(content)
  BY <1>5 DEF LeadsFrom
<1> HIDE DEF q, g
<1>9. LeadsFrom(content, d, g)
  BY <1>3, <1>4, <1>7, <1>8 DEF LeadsFrom
<1> QED
  BY <1>9 DEF g

\* So does every finding of a layer, if those of the layer below it do.
LEMMA LeadsAt ==
  ASSUME NEW content, IsContent(content), NEW d \in 0..3, d < Len(content),
         NEW processed, NEW below,
         d + 1 < Len(content) => \A f \in below : LeadsFrom(content, d + 1, f)
  PROVE  \A f \in FindingsAt(content, d, processed, below) : LeadsFrom(content, d, f)
<1> DEFINE layer == content[d + 1]
<1> SUFFICES ASSUME NEW f \in FindingsAt(content, d, processed, below)
             PROVE  LeadsFrom(content, d, f)
  OBVIOUS
<1>1. d \in Nat /\ Len(content) \in Nat /\ d + 1 \in 1..Len(content)
  BY DEF IsContent
<1>2. \/ \E x \in Unprocessed(layer, processed) \cup ScanForEnvVarValues(layer, d) :
           f = Found(x, <<>>)
      \/ /\ layer.encoding \in defaultEncodingScanners
         /\ \/ \E k \in ValuesBelow(content, d, processed) : f = Found(k, <<layer.encoding>>)
            \/ f \in Under(layer.encoding, below)
  <2> HIDE DEF layer
  <2> QED
    BY DEF FindingsAt, layer
<1>3. CASE \E x \in Unprocessed(layer, processed) \cup ScanForEnvVarValues(layer, d) :
             f = Found(x, <<>>)
  <2>1. PICK x \in layer.secrets \cup layer.env : f = Found(x, <<>>)
    BY <1>3 DEF Unprocessed, ScanForEnvVarValues
  <2>2. d + 1 <= Len(content)
    BY <1>1
  <2> QED
    BY <1>1, <2>1, <2>2, LeadsHere
<1>4. ASSUME layer.encoding \in defaultEncodingScanners PROVE d + 1 < Len(content)
  BY <1>1, <1>4 DEF IsContent
<1>5. ASSUME layer.encoding \in defaultEncodingScanners,
             NEW k \in ValuesBelow(content, d, processed), f = Found(k, <<layer.encoding>>)
      PROVE  LeadsFrom(content, d, f)
  <2>1. k \in content[d + 2].env /\ d + 1 + 1 = d + 2 /\ d + 1 \in Nat
    BY <1>1 DEF ValuesBelow, DecodedValues
  <2>2. LeadsFrom(content, d + 1, Found(k, <<>>))
    BY <1>1, <1>4, <1>5, <2>1, LeadsHere
  <2>3. [Found(k, <<>>) EXCEPT !.path = Cons(content[d + 1].encoding, @)]
          = Found(k, <<layer.encoding>>)
    <3>1. Cons(layer.encoding, <<>>) = <<layer.encoding>>
      BY DEF Cons
    <3> QED
      BY <3>1 DEF Found
  <2> QED
    BY <1>1, <1>4, <1>5, <2>2, <2>3, LeadsUnder
<1>6. ASSUME layer.encoding \in defaultEncodingScanners, f \in Under(layer.encoding, below)
      PROVE  LeadsFrom(content, d, f)
  <2>1. PICK g \in below : f = [g EXCEPT !.path = Cons(content[d + 1].encoding, @)]
    BY <1>6 DEF Under
  <2>2. LeadsFrom(content, d + 1, g)
    BY <1>4, <1>6, <2>1
  <2> QED
    BY <1>1, <1>4, <1>6, <2>1, <2>2, LeadsUnder
<1> QED
  BY <1>2, <1>3, <1>5, <1>6

\* Every finding's path leads to what was found.
LEMMA FindingsLead ==
  ASSUME NEW content, IsContent(content)
  PROVE  \A d \in 0..3 : d < Len(content) =>
           \A f \in scanBytes(content)[d] : LeadsFrom(content, d, f)
<1> DEFINE F == scanBytes(content)
           Leads(d) == d < Len(content) => \A f \in F[d] : LeadsFrom(content, d, f)
<1>1. Leads(4)
  BY FoundFacts
<1>2. ASSUME NEW d \in 0..3, Leads(d + 1) PROVE Leads(d)
  <2> SUFFICES ASSUME d < Len(content) PROVE \A f \in F[d] : LeadsFrom(content, d, f)
    OBVIOUS
  <2>1. F[d] = FindingsAt(content, d, processedInThisScan(content)[d], F[d + 1])
    BY FoundFacts
  <2> QED
    BY <1>2, <2>1, LeadsAt
<1> HIDE DEF Leads
<1>3. Leads(3)
  BY <1>1, <1>2
<1>4. Leads(2)
  BY <1>2, <1>3
<1>5. Leads(1)
  BY <1>2, <1>4
<1>6. Leads(0)
  BY <1>2, <1>5
<1>7. \A d \in 0..3 : d = 0 \/ d = 1 \/ d = 2 \/ d = 3
  OBVIOUS
<1> QED
  BY <1>3, <1>4, <1>5, <1>6, <1>7 DEF Leads


\* The scan gets to the layer at depth d, and may decode all those around it.
Decoded(content, d) ==
  /\ d \in 0..3
  /\ d < Len(content)
  /\ d <= scan.maxDecodeLayers
  /\ Reachable(content, d)

\* The call for the layer at depth d finds x.
Finds(content, d, x) == \E f \in scanBytes(content)[d] : f.what = x

LEMMA OpenAbove ==
  ASSUME NEW content, IsContent(content), scan.maxDecodeLayers \in Nat,
         NEW d \in 0..2, Decoded(content, d + 1)
  PROVE  /\ Decoded(content, d)
         /\ ~ Allowed(content[d + 1])
         /\ DecodesAt(d)
         /\ content[d + 1].encoding \in defaultEncodingScanners
<1>1. d + 1 \in 0..3 /\ d + 1 < Len(content) /\ d + 1 <= scan.maxDecodeLayers
  BY DEF Decoded
<1>2. Len(content) \in Nat /\ d \in Nat /\ d + 1 \in 1..Len(content)
  BY <1>1 DEF IsContent
<1>3. \A i \in 1..d + 1 + 1 : ~ Allowed(content[i])
  BY DEF Decoded, Reachable
<1>4. \A i \in 1..d + 1 : ~ Allowed(content[i])
  BY <1>2, <1>3
<1>5. content[d + 1].encoding \in defaultEncodingScanners
  BY <1>1, <1>2 DEF IsContent
<1>6. DecodesAt(d) /\ Decoded(content, d)
  BY <1>1, <1>2, <1>4 DEF DecodesAt, Decoded, Reachable
<1> QED
  BY <1>2, <1>4, <1>5, <1>6

LEMMA FoundHere ==
  ASSUME NEW content, IsContent(content), NEW d, Decoded(content, d),
         NEW x \in Unprocessed(content[d + 1], processedInThisScan(content)[d])
                     \cup ScanForEnvVarValues(content[d + 1], d)
  PROVE  Finds(content, d, x)
<1>1. d \in 0..3 /\ ~ (d > maxScanRecursionDepth) /\ ~ Allowed(content[d + 1])
  BY DEF Decoded, Reachable, maxScanRecursionDepth
<1>2. scanBytes(content)[d] =
        FindingsAt(content, d, processedInThisScan(content)[d], scanBytes(content)[d + 1])
  BY <1>1, FoundFacts
<1>3. Found(x, <<>>) \in scanBytes(content)[d]
  BY <1>1, <1>2 DEF FindingsAt
<1>4. Found(x, <<>>).what = x
  BY DEF Found
<1> QED
  BY <1>3, <1>4 DEF Finds

LEMMA FoundBelow ==
  ASSUME NEW content, IsContent(content), scan.maxDecodeLayers \in Nat,
         NEW d \in 0..2, Decoded(content, d + 1), NEW x,
         \/ x \in ValuesBelow(content, d, processedInThisScan(content)[d])
         \/ Finds(content, d + 1, x)
  PROVE  Finds(content, d, x)
<1> DEFINE enc == content[d + 1].encoding
           p == processedInThisScan(content)[d]
<1>1. d \in 0..3 /\ ~ (d > maxScanRecursionDepth)
  BY DEF maxScanRecursionDepth
<1>2. scanBytes(content)[d] = FindingsAt(content, d, p, scanBytes(content)[d + 1])
  BY <1>1, FoundFacts
<1>3. ~ Allowed(content[d + 1]) /\ DecodesAt(d) /\ enc \in defaultEncodingScanners
  BY OpenAbove
<1>4. {Found(k, <<enc>>) : k \in ValuesBelow(content, d, p)}
        \cup Under(enc, scanBytes(content)[d + 1]) \subseteq scanBytes(content)[d]
  <2> HIDE DEF p
  <2> QED
    BY <1>1, <1>2, <1>3 DEF FindingsAt
<1>5. CASE x \in ValuesBelow(content, d, p)
  <2>1. Found(x, <<enc>>) \in scanBytes(content)[d] /\ Found(x, <<enc>>).what = x
    BY <1>4, <1>5 DEF Found
  <2> QED
    BY <2>1 DEF Finds
<1>6. CASE Finds(content, d + 1, x)
  <2>1. PICK f \in scanBytes(content)[d + 1] : f.what = x
    BY <1>6 DEF Finds
  <2> DEFINE g == [f EXCEPT !.path = Cons(enc, @)]
  <2>2. g \in scanBytes(content)[d]
    BY <1>4, <2>1 DEF Under
  <2>3. LeadsFrom(content, d + 1, f)
    BY <2>1, FindingsLead DEF Decoded
  <2>4. f = Found(f.what, f.path)
    BY <2>3 DEF LeadsFrom
  <2>5. g.what = f.what
    BY <2>4 DEF Found
  <2> QED
    BY <2>1, <2>2, <2>5 DEF Finds
<1> QED
  BY <1>5, <1>6

\* What any call finds, the first one returns.
LEMMA FoundAtAll ==
  ASSUME NEW content, IsContent(content), scan.maxDecodeLayers \in Nat,
         NEW d, Decoded(content, d), NEW x, Finds(content, d, x)
  PROVE  Finds(content, 0, x)
<1>1. d \in {0, 1, 2, 3}
  BY DEF Decoded
<1>2. ASSUME NEW e \in 0..2, Decoded(content, e + 1), Finds(content, e + 1, x)
      PROVE  Decoded(content, e) /\ Finds(content, e, x)
  BY <1>2, OpenAbove, FoundBelow
<1>3. 0 + 1 = 1 /\ 1 + 1 = 2 /\ 2 + 1 = 3 /\ 0 \in 0..2 /\ 1 \in 0..2 /\ 2 \in 0..2
  OBVIOUS
<1>4. CASE d = 0
  BY <1>4
<1>5. CASE d = 1
  BY <1>2, <1>3, <1>5
<1>6. CASE d = 2
  BY <1>2, <1>3, <1>6
<1>7. CASE d = 3
  BY <1>2, <1>3, <1>7
<1> QED
  BY <1>1, <1>4, <1>5, <1>6, <1>7

\* What was seen before has been found.
LEMMA ProcessedIsFound ==
  ASSUME NEW content, IsContent(content), scan.maxDecodeLayers \in Nat,
         NEW d, Decoded(content, d)
  PROVE  \A m \in processedInThisScan(content)[d] : Finds(content, 0, m[1])
<1> DEFINE P == processedInThisScan(content)
           Seen(e) == Decoded(content, e) => \A m \in P[e] : Finds(content, 0, m[1])
<1>1. Seen(0)
  BY ProcessedFacts
<1>2. ASSUME NEW e \in 0..2, Seen(e) PROVE Seen(e + 1)
  <2> DEFINE layer == content[e + 1]
  <2> SUFFICES ASSUME Decoded(content, e + 1), NEW m \in P[e + 1] PROVE Finds(content, 0, m[1])
    OBVIOUS
  <2>1. Decoded(content, e)
    BY OpenAbove
  <2>2. P[e + 1] = PassedOn(content, e, P[e])
    BY ProcessedFacts
  <2>3. \/ m \in P[e]
        \/ \E s \in Unprocessed(layer, P[e]) : m = <<s, "">>
        \/ \E k \in ValuesBelow(content, e, P[e]) : m = <<k, layer.encoding>>
    <3> HIDE DEF P
    <3> QED
      BY <2>2 DEF PassedOn, Processed
  <2>4. CASE m \in P[e]
    BY <1>2, <2>1, <2>4
  <2>5. ASSUME NEW s \in Unprocessed(layer, P[e]), m = <<s, "">> PROVE Finds(content, 0, m[1])
    <3>1. Finds(content, e, s)
      BY <2>1, FoundHere
    <3> QED
      BY <2>1, <2>5, <3>1, FoundAtAll
  <2>6. ASSUME NEW k \in ValuesBelow(content, e, P[e]), m = <<k, layer.encoding>>
        PROVE  Finds(content, 0, m[1])
    <3>1. Finds(content, e, k)
      BY FoundBelow
    <3> QED
      BY <2>1, <2>6, <3>1, FoundAtAll
  <2> QED
    BY <2>3, <2>4, <2>5, <2>6
<1> HIDE DEF Seen
<1>3. 0 + 1 = 1 /\ 1 + 1 = 2 /\ 2 + 1 = 3 /\ 0 \in 0..2 /\ 1 \in 0..2 /\ 2 \in 0..2
  OBVIOUS
<1>4. Seen(0) /\ Seen(1) /\ Seen(2) /\ Seen(3)
  BY <1>1, <1>2, <1>3
<1>5. d \in {0, 1, 2, 3}
  BY DEF Decoded
<1> QED
  BY <1>4, <1>5 DEF Seen

\* A Capture that filters leaves out the keys that its options declare sensitive.
LEMMA KeysAreLookedFor == KeysToFind \subseteq SensitiveEnvVars
<1> DEFINE list == (IF options.disableDefault THEN {} ELSE DefaultKeys) \cup options.add
           D == UNION {Matches[e] : e \in DefaultKeys}
<1>1. ASSUME options.filter PROVE DOMAIN Hide(list) = Variables \ Sensitive
  <2>1. Sensitive = ActedOn(list)
    BY DEF Sensitive
  <2> HIDE DEF list
  <2> QED
    BY <1>1, <2>1 DEF Hide
<1>2. SensitiveEnvVars = D \cup (Variables \ DOMAIN Hide(list))
  BY DEF SensitiveEnvVars
<1>3. KeysToFind = D \cup {k \in Variables : options.filter /\ k \in Sensitive}
  BY DEF KeysToFind
<1> HIDE DEF D, list
<1> QED
  BY <1>1, <1>2, <1>3

\* All that lies within reach is found.
LEMMA FindableIsFound ==
  ASSUME NEW content, IsContent(content), scan.maxDecodeLayers \in Nat,
         NEW x \in Findable(content)
  PROVE  Finds(content, 0, x)
<1> DEFINE P == processedInThisScan(content)
<1>1. Len(content) \in Nat
  BY DEF IsContent
<1>2. PICK n \in 0..Len(content) - 1 :
        /\ n <= scan.maxDecodeLayers
        /\ n <= maxScanRecursionDepth
        /\ Reachable(content, n)
        /\ x \in content[n + 1].secrets \cup (content[n + 1].env \cap SensitiveEnvVars)
  <2> DEFINE secretsTo == {n \in 0..Len(content) - 1 :
                             n <= scan.maxDecodeLayers /\ n <= maxScanRecursionDepth}
             T == {m \in secretsTo : Reachable(content, m)}
             A == UNION {content[n + 1].secrets : n \in T}
             B == UNION {content[n + 1].env \cap KeysToFind : n \in T}
  <2>1. x \in A \/ x \in B
    <3>1. Findable(content) = A \cup B
      BY DEF Findable
    <3> HIDE DEF A, B
    <3> QED
      BY <3>1
  <2>2. PICK n \in T : x \in content[n + 1].secrets
                            \cup (content[n + 1].env \cap KeysToFind)
    <3> HIDE DEF T
    <3>1. CASE x \in A
      BY <3>1, Zenon
    <3>2. CASE x \in B
      BY <3>2, Zenon
    <3> QED
      BY <2>1, <3>1, <3>2
  <2> QED
    BY <2>2, KeysAreLookedFor
<1>3. Decoded(content, n)
  BY <1>1, <1>2 DEF Decoded, maxScanRecursionDepth
<1>4. CASE x \in content[n + 1].secrets
  <2>1. CASE <<x, "">> \in P[n]
    <3>1. <<x, "">>[1] = x
      OBVIOUS
    <3> QED
      BY <1>3, <2>1, <3>1, ProcessedIsFound
  <2>2. CASE <<x, "">> \notin P[n]
    <3>1. Finds(content, n, x)
      BY <1>3, <1>4, <2>2, FoundHere DEF Unprocessed
    <3> QED
      BY <1>3, <3>1, FoundAtAll
  <2> QED
    BY <2>1, <2>2
<1>5. CASE x \in content[n + 1].env \cap SensitiveEnvVars
  <2>1. CASE n = 0
    <3>1. Finds(content, n, x)
      BY <1>3, <1>5, <2>1, FoundHere DEF ScanForEnvVarValues
    <3> QED
      BY <2>1, <3>1
  <2>2. CASE n # 0
    <3> DEFINE d == n - 1
               layer == content[d + 1]
               done == Processed(layer, P[d])
    <3>1. d \in 0..2 /\ d + 1 = n /\ d + 2 = n + 1
      BY <1>1, <1>2, <2>2 DEF maxScanRecursionDepth
    <3> HIDE DEF d
    <3>2. Decoded(content, d + 1) /\ Decoded(content, d)
      BY <1>3, <3>1, OpenAbove
    <3>3. CASE <<x, layer.encoding>> \notin done
      <4>1. x \in ValuesBelow(content, d, P[d])
        BY <1>5, <3>1, <3>3 DEF ValuesBelow, DecodedValues
      <4>2. Finds(content, d, x)
        BY <3>1, <3>2, <4>1, FoundBelow
      <4> QED
        BY <3>2, <4>2, FoundAtAll
    <3>4. CASE <<x, layer.encoding>> \in P[d]
      <4>1. <<x, layer.encoding>>[1] = x
        OBVIOUS
      <4> QED
        BY <3>2, <3>4, <4>1, ProcessedIsFound
    <3>5. CASE <<x, layer.encoding>> \in {<<s, "">> : s \in Unprocessed(layer, P[d])}
      <4>1. x \in Unprocessed(layer, P[d])
        BY <3>5
      <4>2. Finds(content, d, x)
        BY <3>2, <4>1, FoundHere
      <4> QED
        BY <3>2, <4>2, FoundAtAll
    <3> QED
      BY <3>3, <3>4, <3>5 DEF Processed
  <2> QED
    BY <2>1, <2>2
<1> QED
  BY <1>2, <1>4, <1>5


\* A finding and the source it was made from.
ComesFrom(f, place, content) ==
  /\ f.place = place
  /\ LET n == Len(f.path) + 1
     IN  /\ n \in DOMAIN content
         /\ f.path = PathTo(content, n)
         /\ f.what \in content[n].secrets \cup content[n].env

\* What a scan of a source adds to the findings.
LEMMA ScanFacts ==
  ASSUME NEW content, IsContent(content), scan.maxDecodeLayers \in Nat, NEW place
  PROVE  /\ \A f \in ScanOf(place, content) : ComesFrom(f, place, content)
         /\ \A x \in Findable(content) :
              \E f \in ScanOf(place, content) : f.place = place /\ f.what = x
<1> DEFINE Placed(f) == [place |-> place, what |-> f.what, path |-> f.path]
<1>1. ScanOf(place, content) = {Placed(f) : f \in scanBytes(content)[0]}
  BY DEF ScanOf
<1>2. ASSUME NEW f \in scanBytes(content)[0]
      PROVE  Placed(f).place = place /\ Placed(f).what = f.what /\ Placed(f).path = f.path
  OBVIOUS
<1> HIDE DEF Placed
<1>3. ASSUME NEW f \in scanBytes(content)[0] PROVE ComesFrom(Placed(f), place, content)
  <2>1. 0 \in 0..3 /\ 0 < Len(content) /\ DOMAIN content = 1..Len(content)
    BY DEF IsContent
  <2>2. LeadsFrom(content, 0, f)
    BY <2>1, FindingsLead
  <2> DEFINE l == Len(f.path)
  <2>3. f.path \in Seq(Encodings) /\ 0 + l + 1 \in 1..Len(content)
        /\ f.path = [i \in 1..l |-> content[0 + i].encoding]
        /\ f.what \in content[0 + l + 1].secrets \cup content[0 + l + 1].env
    BY <2>2 DEF LeadsFrom
  <2>4. l \in Nat
    BY <2>3
  <2> HIDE DEF l
  <2>5. 0 + l + 1 = l + 1 /\ (l + 1) - 1 = l /\ \A i \in 1..l : 0 + i = i
    BY <2>4
  <2>6. [i \in 1..l |-> content[0 + i].encoding] = PathTo(content, l + 1)
    <3>1. PathTo(content, l + 1) = [i \in 1..l |-> content[i].encoding]
      <4> DEFINE m == (l + 1) - 1
      <4>1. PathTo(content, l + 1) = [i \in 1..m |-> content[i].encoding]
        BY DEF PathTo
      <4>2. m = l
        BY <2>5
      <4> HIDE DEF m
      <4> QED
        BY <4>1, <4>2
    <3>2. \A i \in 1..l : content[0 + i].encoding = content[i].encoding
      BY <2>5
    <3> QED
      BY <3>1, <3>2
  <2> QED
    BY <1>2, <2>1, <2>3, <2>5, <2>6 DEF ComesFrom, l
<1>4. ASSUME NEW x \in Findable(content)
      PROVE  \E f \in ScanOf(place, content) : f.place = place /\ f.what = x
  <2>1. PICK f \in scanBytes(content)[0] : f.what = x
    BY FindableIsFound DEF Finds
  <2> QED
    BY <1>1, <1>2, <2>1
<1> QED
  BY <1>1, <1>3, <1>4

\* Everything findable in a content is reported for its place.
Reports(place, content) ==
  \A x \in Findable(content) : \E f \in findings : f.place = place /\ f.what = x

\* The two properties of the scan, source by source.
FindingsHaveSources ==
  \A f \in findings : \E s \in Sources : ComesFrom(f, s.place, s.content)

AttestorsAreReported ==
  \A s \in AttestorSources \ passedOver : Reports(s.place, s.content)

\* The product was looked at and its scan did not fail.
IsScanned(p) ==
  /\ ~ shouldSkipProduct(p)
  /\ ~ corpus.products[p].big
  /\ ProductSource(p) \notin passedOver

ProductsAreReported ==
  \A p \in DOMAIN corpus.products \ pending :
    IsScanned(p) => Reports(p, corpus.products[p].content)

\* They are inductive: no product is looked at before the attestors have been.
ScanInv ==
  /\ corpus \in Corpora
  /\ scan \in ScanOptions
  /\ pending \subseteq DOMAIN corpus.products
  /\ at \in {"init", "attestors"} => pending = DOMAIN corpus.products
  /\ FindingsHaveSources
  /\ at \notin {"init", "attestors", "error"} => AttestorsAreReported
  /\ ProductsAreReported

LEMMA ReportedFacts ==
  NothingFindableIsMissed <=>
    /\ at \notin {"init", "attestors", "error"} => AttestorsAreReported
    /\ ProductsAreReported
<1>1. ASSUME NEW place, NEW content
      PROVE  Findable(content) \subseteq Reported(place) <=> Reports(place, content)
  <2>1. \A x : x \in Reported(place) <=> \E f \in findings : f.place = place /\ f.what = x
    BY DEF Reported
  <2> QED
    BY <2>1 DEF Reports
<1> QED
  BY <1>1 DEF NothingFindableIsMissed, AttestorsAreReported, ProductsAreReported, IsScanned

\* What can be found depends on the options alone.
LEMMA SameFindable ==
  ASSUME scan' = scan, options' = options, NEW content
  PROVE  Findable(content)' = Findable(content)
<1>1. KeysToFind' = KeysToFind
  BY DEF KeysToFind, Sensitive, ActedOn
<1>2. ASSUME NEW n PROVE Reachable(content, n)' <=> Reachable(content, n)
  BY DEF Reachable, Allowed
<1> QED
  BY <1>1, <1>2 DEF Findable

\* What was reported stays reported.
LEMMA StillReported ==
  ASSUME scan' = scan, options' = options, findings \subseteq findings',
         NEW place, NEW content, Reports(place, content)
  PROVE  Reports(place, content)'
BY SameFindable DEF Reports

\* Every source is a content that the scan can undo.
LEMMA ContentsFacts ==
  ASSUME ScanInv
  PROVE  /\ \A s \in AttestorSources : IsContent(s.content)
         /\ \A p \in DOMAIN corpus.products : IsContent(corpus.products[p].content)
         /\ scan.maxDecodeLayers \in Nat
<1> DEFINE As == {a \in corpus.attestors : ~ shouldSkipAttestor(a)}
           Of(a) == {Source(a.name, c) : c \in a.contents}
<1>1. AttestorSources = UNION {Of(a) : a \in As}
  BY DEF AttestorSources
<1>2. ASSUME NEW a \in As, NEW s \in Of(a) PROVE IsContent(s.content)
  <2>1. PICK c \in a.contents : s = Source(a.name, c)
    BY <1>2
  <2>2. s.content = c
    BY <2>1 DEF Source
  <2> QED
    BY <2>2, CorporaAssumption DEF ScanInv
<1>3. ASSUME NEW s \in AttestorSources PROVE IsContent(s.content)
  <2> HIDE DEF As, Of
  <2>1. PICK a \in As : s \in Of(a)
    BY <1>1, <1>3, Zenon
  <2> QED
    BY <1>2, <2>1
<1> QED
  BY <1>3, CorporaAssumption, ScanOptionsAssumption DEF ScanInv

\* The sources are those of the corpus.
LEMMA SameSources ==
  ASSUME corpus' = corpus
  PROVE  /\ AttestorSources' = AttestorSources
         /\ Sources' = Sources
         /\ \A p : ProductSource(p)' = ProductSource(p)
         /\ \A p : shouldSkipProduct(p)' <=> shouldSkipProduct(p)
<1>1. AttestorSources' = AttestorSources
  BY DEF AttestorSources, shouldSkipAttestor
<1>2. \A p : ProductSource(p)' = ProductSource(p)
  BY DEF ProductSource
<1>3. Sources' = Sources
  BY <1>1, <1>2 DEF Sources
<1> QED
  BY <1>1, <1>2, <1>3 DEF shouldSkipProduct

\* A step that scans nothing; a product it comes to is not to be scanned, or its
\* scan fails.
LEMMA QuietStep ==
  ASSUME ScanInv, UNCHANGED <<corpus, scan, options, findings>>,
         passedOver \subseteq passedOver',
         pending' \subseteq pending,
         \A p \in pending \ pending' :
           shouldSkipProduct(p) \/ ProductSource(p) \in passedOver',
         at' \in {"init", "attestors"} => at \in {"init", "attestors"} /\ pending' = pending,
         at' \notin {"init", "attestors", "error"} => at \notin {"init", "attestors", "error"}
  PROVE  ScanInv'
<1>1. \A place, content : Reports(place, content) => Reports(place, content)'
  BY StillReported
<1>2. FindingsHaveSources'
  BY SameSources DEF ScanInv, FindingsHaveSources
<1>3. AttestorsAreReported => AttestorsAreReported'
  BY <1>1, SameSources DEF AttestorsAreReported
<1>4. ASSUME NEW p \in DOMAIN corpus.products, p \notin pending', IsScanned(p)'
      PROVE  Reports(p, corpus.products[p].content)'
  <2>1. ~ shouldSkipProduct(p) /\ ~ corpus.products[p].big /\ ProductSource(p) \notin passedOver'
    BY <1>4, SameSources DEF IsScanned
  <2>2. p \notin pending /\ IsScanned(p)
    BY <1>4, <2>1 DEF IsScanned
  <2>3. Reports(p, corpus.products[p].content)
    BY <2>2 DEF ScanInv, ProductsAreReported
  <2> QED
    BY <1>1, <2>3
<1>5. ProductsAreReported'
  BY <1>4 DEF ProductsAreReported
<1> QED
  BY <1>2, <1>3, <1>5 DEF ScanInv

LEMMA ScanAttestationsStep == ScanInv /\ ScanAttestations => ScanInv'
<1> SUFFICES ASSUME ScanInv, ScanAttestations PROVE ScanInv'
  OBVIOUS
<1>1. /\ corpus' = corpus /\ scan' = scan /\ options' = options
      /\ pending' = pending /\ pending = DOMAIN corpus.products /\ at' = "products"
  BY DEF ScanAttestations, ScanInv, envVars
<1>2. PICK failing \in SUBSET AttestorSources :
        /\ passedOver' = failing
        /\ findings' = UNION {ScanOf(s.place, s.content) : s \in AttestorSources \ failing}
  BY DEF ScanAttestations
<1>3. \A f : f \in findings' <=>
        \E s \in AttestorSources \ failing : f \in ScanOf(s.place, s.content)
  BY <1>2
<1>4. \A s \in AttestorSources :
        /\ \A f \in ScanOf(s.place, s.content) : ComesFrom(f, s.place, s.content)
        /\ \A x \in Findable(s.content) :
             \E f \in ScanOf(s.place, s.content) : f.place = s.place /\ f.what = x
  BY ContentsFacts, ScanFacts
<1>5. FindingsHaveSources'
  <2>1. AttestorSources \subseteq Sources
    BY DEF Sources
  <2> QED
    BY <1>1, <1>3, <1>4, <2>1, SameSources DEF FindingsHaveSources
<1>6. ASSUME NEW s \in AttestorSources \ failing
      PROVE  Reports(s.place, s.content)'
  <2>1. \A x \in Findable(s.content) : \E f \in findings' : f.place = s.place /\ f.what = x
    BY <1>3, <1>4, <1>6
  <2>2. Findable(s.content)' = Findable(s.content)
    BY <1>1, SameFindable
  <2> QED
    BY <2>1, <2>2 DEF Reports
<1>7. AttestorsAreReported'
  BY <1>1, <1>2, <1>6, SameSources DEF AttestorsAreReported
<1>8. ProductsAreReported'
  BY <1>1 DEF ProductsAreReported
<1> QED
  BY <1>1, <1>5, <1>7, <1>8 DEF ScanInv

LEMMA ScanProductStep ==
  ASSUME ScanInv, NEW p \in pending, ScanProduct(p)
  PROVE  ScanInv'
<1> DEFINE content == corpus.products[p].content
<1>1. /\ corpus' = corpus /\ scan' = scan /\ options' = options /\ at' = at
      /\ pending' = pending \ {p} /\ passedOver' = passedOver
      /\ at = "products" /\ p \in DOMAIN corpus.products
  BY DEF ScanProduct, ScanInv, envVars
<1>2. findings' = findings \cup (IF corpus.products[p].big THEN {} ELSE ScanOf(p, content))
  BY DEF ScanProduct, FileFindings
<1>3. /\ \A f \in ScanOf(p, content) : ComesFrom(f, p, content)
      /\ \A x \in Findable(content) :
           \E f \in ScanOf(p, content) : f.place = p /\ f.what = x
  BY <1>1, ContentsFacts, ScanFacts
<1>4. PICK s \in Sources : s.place = p /\ s.content = content
  <2>1. ProductSource(p) \in Sources
    BY <1>1 DEF Sources
  <2> QED
    BY <2>1 DEF ProductSource, Source
<1> HIDE DEF content
<1>5. FindingsHaveSources'
  <2>1. \A f \in findings' : f \in findings \/ ComesFrom(f, p, content)
    BY <1>2, <1>3
  <2> QED
    BY <1>1, <1>4, <2>1, SameSources DEF ScanInv, FindingsHaveSources
<1>6. \A place, c : Reports(place, c) => Reports(place, c)'
  <2>1. findings \subseteq findings'
    BY <1>2
  <2> QED
    BY <1>1, <2>1, StillReported
<1>7. AttestorsAreReported'
  BY <1>1, <1>6, SameSources DEF ScanInv, AttestorsAreReported
<1>8. ~ corpus.products[p].big => Reports(p, content)'
  <2> SUFFICES ASSUME ~ corpus.products[p].big PROVE Reports(p, content)'
    OBVIOUS
  <2>1. ScanOf(p, content) \subseteq findings'
    BY <1>2
  <2>2. \A x \in Findable(content) : \E f \in findings' : f.place = p /\ f.what = x
    BY <1>3, <2>1
  <2>3. content' = content
    BY <1>1 DEF content
  <2>4. Findable(content') = Findable(content)
    BY <2>3
  <2> QED
    BY <1>1, <2>2, <2>3, SameFindable DEF Reports
<1>9. ASSUME NEW q \in DOMAIN corpus.products, q \notin pending', IsScanned(q)'
      PROVE  Reports(q, corpus.products[q].content)'
  <2>1. IsScanned(q) /\ ~ corpus.products[q].big
    BY <1>1, <1>9, SameSources DEF IsScanned
  <2>2. CASE q = p
    BY <1>8, <2>1, <2>2 DEF content
  <2>3. CASE q # p
    <3>1. Reports(q, corpus.products[q].content)
      BY <1>1, <1>9, <2>1, <2>3 DEF ScanInv, ProductsAreReported
    <3> QED
      BY <1>1, <1>6, <3>1
  <2> QED
    BY <2>2, <2>3
<1>10. ProductsAreReported'
  BY <1>1, <1>9 DEF ProductsAreReported
<1> QED
  BY <1>1, <1>5, <1>7, <1>10 DEF ScanInv

\* ScanInv holds throughout, whatever there is to scan and whatever the options.
THEOREM ScanInvariant == ScanSpec => []ScanInv
<1>1. ScanInit => ScanInv
  BY DEF ScanInit, ScanInv, FindingsHaveSources, ProductsAreReported
<1>2. ScanInv /\ [ScanNext]_<<scanVars, options>> => ScanInv'
  <2> SUFFICES ASSUME ScanInv, [ScanNext]_<<scanVars, options>> PROVE ScanInv'
    OBVIOUS
  <2>1. CASE InitDetector
    BY <2>1, QuietStep DEF InitDetector, envVars
  <2>2. CASE ScanAttestations
    BY <2>2, ScanAttestationsStep
  <2>3. CASE Verdict
    BY <2>3, QuietStep DEF Verdict, envVars
  <2>4. ASSUME NEW p \in pending, SkipProduct(p) \/ FailProduct(p) PROVE ScanInv'
    <3>1. /\ UNCHANGED <<corpus, scan, options, findings, at>> /\ at = "products"
          /\ pending' = pending \ {p} /\ passedOver \subseteq passedOver'
          /\ shouldSkipProduct(p) \/ ProductSource(p) \in passedOver'
      BY <2>4 DEF SkipProduct, FailProduct, envVars
    <3> QED
      BY <3>1, QuietStep
  <2>5. ASSUME NEW p \in pending, ScanProduct(p) PROVE ScanInv'
    BY <2>5, ScanProductStep
  <2>6. CASE UNCHANGED <<scanVars, options>>
    BY <2>6, QuietStep DEF scanVars
  <2> QED
    BY <2>1, <2>2, <2>3, <2>4, <2>5, <2>6 DEF ScanNext
<1> QED
  BY <1>1, <1>2, PTL DEF ScanSpec

\* The path of every finding leads to a layer that holds the secret or the value,
\* however deep it lies: scanBytes puts each encoding in front as it returns.
THEOREM PathsLeadToSecrets == ScanSpec => []EncodingPathsLeadToSecrets
<1>1. ScanInv => EncodingPathsLeadToSecrets
  BY DEF ScanInv, FindingsHaveSources, EncodingPathsLeadToSecrets, ComesFrom
<1> QED
  BY <1>1, ScanInvariant, PTL

\* Nothing within reach goes unreported, unless the scan of its source failed: what
\* processedInThisScan keeps from being reported again was reported for a layer
\* further out, and the keys that a filtering Capture leaves out are looked for.
THEOREM FindableIsReported == ScanSpec => []NothingFindableIsMissed
<1>1. ScanInv => NothingFindableIsMissed
  BY ReportedFacts DEF ScanInv
<1> QED
  BY <1>1, ScanInvariant, PTL

-----------------------------------------------------------------------------
(* Attestors, together                                                     *)

\* Whichever attestor GetAttestor returned, the composition does what each of
\* them does by itself: a step of one leaves the others as they are.
THEOREM AttestorsImplementParts ==
  AttestorsSpec => PostSpec /\ EnvSpec /\ ScanSpec /\ K8sSpec
<1>1. AttestorsInit => PostInit /\ EnvInit /\ ScanInit /\ K8sInit
  BY DEF AttestorsInit
<1>2. [AttestorsNext]_attestorsVars =>
        [PostNext]_postVars /\ [EnvNext]_envVars
          /\ [ScanNext]_<<scanVars, options>> /\ [K8sNext]_k8sVars
  <2> SUFFICES ASSUME [AttestorsNext]_attestorsVars
               PROVE  [PostNext]_postVars /\ [EnvNext]_envVars
                        /\ [ScanNext]_<<scanVars, options>> /\ [K8sNext]_k8sVars
    OBVIOUS
  <2>1. ASSUME EnvNext PROVE options' = options
    BY <2>1 DEF EnvNext, ResetList, AliasList, AddKey, AddedKeys, Apply
  <2>2. ASSUME ScanNext PROVE UNCHANGED envVars
    BY <2>2 DEF ScanNext, InitDetector, ScanAttestations, Verdict, SkipProduct,
                FailProduct, ScanProduct
  <2>3. UNCHANGED envVars => options' = options
    BY DEF envVars
  <2>4. CASE UseProducts
    BY <2>3, <2>4 DEF UseProducts
  <2>5. CASE UseEnvironment
    BY <2>1, <2>5 DEF UseEnvironment
  <2>6. CASE UseSecretScan
    BY <2>2, <2>6 DEF UseSecretScan
  <2>7. CASE UseK8sManifest
    BY <2>3, <2>7 DEF UseK8sManifest
  <2>8. CASE UNCHANGED attestorsVars
    BY <2>3, <2>8 DEF attestorsVars
  <2> QED
    BY <2>4, <2>5, <2>6, <2>7, <2>8 DEF AttestorsNext
<1> QED
  BY <1>1, <1>2, PTL DEF AttestorsSpec, PostSpec, EnvSpec, ScanSpec, K8sSpec

\* So in the composition, too, the products are the changed files and lead to
\* them, no target is walked twice, reports have their digests, sensitive values
\* are hidden, findings lead to secrets and miss none in the sources that could be
\* scanned, and manifests are stable up to the server's defaults.
THEOREM AttestorsAreSound ==
  AttestorsSpec => [](/\ ProductsAreTheChanges
                      /\ ProductsAreThere
                      /\ NoTargetIsWalkedTwice
                      /\ ReportMatchesItsDigest
                      /\ CaptureHidesSensitiveValues
                      /\ EncodingPathsLeadToSecrets
                      /\ NothingFindableIsMissed
                      /\ RecordedDataIsStable)
BY AttestorsImplementParts, ProductsAreChanges, ProductsLeadToFiles, TargetsWalkedOnce,
   ReportsMatchDigests, SensitiveValuesAreHidden, PathsLeadToSecrets, FindableIsReported,
   DataIsStable, PTL
=============================================================================
