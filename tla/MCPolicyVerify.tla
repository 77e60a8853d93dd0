---------------------------- MODULE MCPolicyVerify ----------------------------
(***************************************************************************)
(* Instances of PolicyVerify.  Discovery: collections of two steps chained *)
(* by back references in every way, one of them bad in every way.          *)
(* Integrity: three steps, two collections for the middle one, and every   *)
(* assignment of contents to what they consume and produce.                *)
(***************************************************************************)
EXTENDS PolicyVerify

CONSTANTS build, test, release,  \* the steps
          c1, c2, c3, c4         \* the collections

ASSUME Step = {build, test, release} /\ Coll = {c1, c2, c3, c4}

Nothing == [p \in Path |-> NoContent]

Good == [step |-> build, subjects |-> {1}, backRefs |-> {}, signed |-> TRUE,
         functionary |-> TRUE, predicate |-> TRUE, valid |-> TRUE,
         materials |-> Nothing, artifacts |-> Nothing]

\* The ways in which the checks of a collection can go.
Flawed(e) == {e, [e EXCEPT !.signed = FALSE], [e EXCEPT !.functionary = FALSE],
              [e EXCEPT !.valid = FALSE], [e EXCEPT !.predicate = FALSE]}

Linked(s, subs) ==
  {[Good EXCEPT !.step = s, !.subjects = {d}, !.backRefs = b] :
     d \in subs, b \in {{}, {2}, {3}, {2, 3}}}

Chains ==
  {(c1 :> e1) @@ (c2 :> e2) @@ (c3 :> e3) @@ (c4 :> [Good EXCEPT !.step = release]) :
     e1 \in Linked(build, {1}), e3 \in Linked(test, {2, 3}),
     e2 \in UNION {Flawed(e) : e \in Linked(test, 1..3)}}

Alone == [s \in Step |-> {}]

\* Collection c4 is of a step the policy does not have.
DiscoveryCase ==
  [steps : {{build, test}}, coll : Chains, subjects : {{1}}, searchDepth : {3},
   expired : {FALSE}, archivista : BOOLEAN, artifactsFrom : {Alone}]
  \cup [steps : {{build}}, coll : {[c \in Coll |-> Good]}, subjects : {{}, {1}},
        searchDepth : 0..1, expired : BOOLEAN, archivista : {FALSE},
        artifactsFrom : {Alone}]

Flow(s, m, a) == [Good EXCEPT !.step = s, !.materials = m, !.artifacts = a]

Flows ==
  {(c1 :> Flow(build, Nothing, a1)) @@ (c2 :> Flow(test, m2, a2))
     @@ (c3 :> Flow(test, m3, a3)) @@ (c4 :> Flow(release, m4, Nothing)) :
     a1 \in Artifacts, m2 \in Artifacts, a2 \in Artifacts, m3 \in Artifacts,
     a3 \in Artifacts, m4 \in Artifacts}

IntegrityCase ==
  [steps : {Step}, coll : Flows, subjects : {{1}}, searchDepth : {1},
   expired : {FALSE}, archivista : {FALSE},
   artifactsFrom : {(build :> {}) @@ (test :> {build}) @@ (release :> from) :
                      from \in {{test}, {build, test}}}]

MCCase == DiscoveryCase \cup IntegrityCase
=============================================================================
