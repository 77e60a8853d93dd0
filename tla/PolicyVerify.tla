----------------------------- MODULE PolicyVerify -----------------------------
(***************************************************************************)
(* policy/policy.go: Policy.Verify.  For searchDepth passes over the steps *)
(* of the policy, in the random order of a Go map, the collections of the  *)
(* step that carry one of the known subject digests are fetched, checked   *)
(* against the step's functionaries and attestations, and the back         *)
(* references of those that pass widen the set of known digests.  Then the *)
(* artifacts of the steps are compared, again in random order, and the     *)
(* verdict is the conjunction over the steps.                              *)
(*                                                                         *)
(* A collection is abstracted to what Verify asks of it: the step it names,*)
(* its subjects and back references, its materials and artifacts (path to  *)
(* digest), and the outcome of the checks on the collection alone: the     *)
(* signature, the functionary, the predicate type, attestations and rego.  *)
(***************************************************************************)
EXTENDS Naturals, Sequences, FiniteSets, SequencesExt

CONSTANTS Step,         \* steps of policies
          Coll,         \* the collections the source holds
          Digest,       \* subject digests
          Path,         \* artifact paths
          Content,      \* digests of artifacts
          Case          \* the policies and evidence of an instance

NoContent == "absent"

Artifacts == [Path -> Content \cup {NoContent}]

Evidence == [step : Step, subjects : SUBSET Digest, backRefs : SUBSET Digest,
             signed : BOOLEAN, functionary : BOOLEAN, predicate : BOOLEAN,
             valid : BOOLEAN, materials : Artifacts, artifacts : Artifacts]

ASSUME CollIsFinite == IsFiniteSet(Coll)

ASSUME CaseAssumption ==
  Case \subseteq [steps : SUBSET Step, coll : [Coll -> Evidence],
                  subjects : SUBSET Digest, searchDepth : Nat,
                  expired : BOOLEAN, archivista : BOOLEAN,
                  artifactsFrom : [Step -> SUBSET Step]]

VARIABLES case,      \* the policy and the evidence; never change
          phase,     \* where Verify is
          depth,     \* passes begun
          todo,      \* steps left in the current loop over p.Steps
          digests,   \* vo.subjectDigests, as a set
          seen,      \* ArchivistaSource.seenGitoids
          found,     \* collections every search of a step returned so far
          passed,    \* resultsByStep[s].Passed
          rejected,  \* resultsByStep[s].Rejected
          searched,  \* passed when the search ended (a history variable)
          verdict    \* the boolean Verify returns

vars == <<case, phase, depth, todo, digests, seen, found, passed, rejected,
          searched, verdict>>

-----------------------------------------------------------------------------

Init ==
  /\ case \in Case
  /\ phase = "options"
  /\ depth = 0
  /\ todo = {}
  /\ digests = case.subjects
  /\ seen = {}
  /\ found = [s \in Step |-> {}]
  /\ passed = [s \in Step |-> <<>>]
  /\ rejected = [s \in Step |-> {}]
  /\ searched = passed
  /\ verdict = FALSE

\* checkVerifyOpts, then the expiry of the policy; roots that do not parse are
\* an error like expiry.
CheckOptions ==
  /\ phase = "options"
  /\ IF case.subjects = {} \/ case.searchDepth < 1 \/ case.expired
       THEN phase' = "error" /\ UNCHANGED <<depth, todo>>
       ELSE phase' = "search" /\ depth' = 1 /\ todo' = case.steps
  /\ UNCHANGED <<case, digests, seen, found, passed, rejected, searched, verdict>>

\* ArchivistaSource excludes what it downloaded before.
Excluded == IF case.archivista THEN seen ELSE {}

\* Mutant of Search: the digests of the first pass are kept.
SearchFirstDigests(s) ==
  {c \in Coll : /\ case.coll[c].step = s
                /\ case.coll[c].subjects \cap case.subjects # {}
                /\ c \notin Excluded}

\* What the source holds for a step: MemorySource.Search, and Archivista's
\* answer, which leaves out what was downloaded before.  Collections without
\* the attestations the step expects are not returned and not in Coll.
Search(s) ==
  {c \in Coll : /\ case.coll[c].step = s
                /\ case.coll[c].subjects \cap digests # {}
                /\ c \notin Excluded}

\* VerifiedSource.Search leaves no verifiers on an envelope whose signature
\* does not verify.
HasVerifiers(c) == case.coll[c].signed

\* checkFunctionaries wants a verifier that is a functionary of the step.
checkFunctionaries(c) == HasVerifiers(c) /\ case.coll[c].functionary

\* validateAttestations, given a collection that passed checkFunctionaries.
validateAttestations(c) == case.coll[c].valid

Accepted(c) == checkFunctionaries(c) /\ validateAttestations(c)

\* The entries a search of s adds to Rejected: a wrong predicate type is one,
\* but does not end the check of the collection.
Rejections(s, cs) ==
  {<<c, "predicate">> : c \in {c \in cs : ~ case.coll[c].predicate}}
    \cup {<<c, "functionary">> : c \in {c \in cs : ~ checkFunctionaries(c)}}
    \cup {<<c, "attestations">> : c \in {c \in cs :
            checkFunctionaries(c) /\ ~ validateAttestations(c)}}
    \cup (IF cs = {} THEN {<<s, "no collections">>} ELSE {})

\* Mutant of BackRefs: those of every collection found are followed.
BackRefsOfFound(cs) == UNION {case.coll[c].backRefs : c \in cs}

\* The digests the collections of a search lead to.
BackRefs(cs) == UNION {case.coll[c].backRefs : c \in {c \in cs : Accepted(c)}}

\* result.Passed of several searches of a step.  The policy files a step under its
\* name: a step without a name would have its last search only (policy.go:258), and
\* one under another key ends verifyArtifacts with an error (policy.go:338-340).
Merge(old, new) == old \o new

\* One step of one pass: search, check, merge, and follow the back references.
\* The source may return its collections in any order.
SearchStep(s) ==
  /\ phase = "search"
  /\ s \in todo
  /\ LET cs == Search(s)
         ok == {c \in cs : Accepted(c)}
     IN  /\ \E q \in SetToSeqs(ok) :
              passed' = [passed EXCEPT ![s] = Merge(@, q)]
         /\ rejected' = [rejected EXCEPT ![s] = @ \cup Rejections(s, cs)]
         /\ digests' = digests \cup BackRefs(cs)
         /\ found' = [found EXCEPT ![s] = @ \cup cs]
         /\ seen' = seen \cup cs
  /\ todo' = todo \ {s}
  /\ UNCHANGED <<case, phase, depth, searched, verdict>>

\* The source fails: Verify returns the error.
SearchFails ==
  /\ phase = "search"
  /\ todo # {}
  /\ phase' = "error"
  /\ UNCHANGED <<case, depth, todo, digests, seen, found, passed, rejected,
                 searched, verdict>>

\* The next pass, or verifyArtifacts after the last one.
EndPass ==
  /\ phase = "search"
  /\ todo = {}
  /\ todo' = case.steps
  /\ IF depth < case.searchDepth
       THEN depth' = depth + 1 /\ UNCHANGED <<phase, searched>>
       ELSE phase' = "artifacts" /\ searched' = passed /\ UNCHANGED depth
  /\ UNCHANGED <<case, digests, seen, found, passed, rejected, verdict>>

\* compareArtifacts: the materials of c agree with the artifacts of d on the
\* paths both have.
compareArtifacts(c, d) ==
  LET mats == case.coll[c].materials
      arts == case.coll[d].artifacts
  IN  \A p \in Path :
        mats[p] # NoContent /\ arts[p] # NoContent => mats[p] = arts[p]

\* verifyCollectionArtifacts: the loop over the Passed collections of a source
\* step stops at the first mismatch, so that the first collection decides.
verifyCollectionArtifacts(s, c, results) ==
  \A a \in case.artifactsFrom[s] :
    results[a] # <<>> /\ compareArtifacts(c, Head(results[a]))

\* Mutant of ArtifactStep: the collections that do not verify are removed one
\* by one.
ArtifactStepFilters(s) ==
  /\ phase = "artifacts"
  /\ s \in todo
  /\ passed' = [passed EXCEPT ![s] =
       SelectSeq(@, LAMBDA c : verifyCollectionArtifacts(s, c, passed))]
  /\ todo' = todo \ {s}
  /\ UNCHANGED <<case, phase, depth, digests, seen, found, rejected, searched,
                 verdict>>

\* verifyArtifacts, one step of the policy: Passed is emptied when none of its
\* collections verifies, and is otherwise left as it was.
ArtifactStep(s) ==
  /\ phase = "artifacts"
  /\ s \in todo
  /\ LET ok == \E c \in ToSet(passed[s]) : verifyCollectionArtifacts(s, c, passed)
     IN  /\ passed' = IF ok THEN passed ELSE [passed EXCEPT ![s] = <<>>]
         /\ rejected' = IF ok THEN rejected
                        ELSE [rejected EXCEPT ![s] = @ \cup {<<s, "artifacts">>}]
  /\ todo' = todo \ {s}
  /\ UNCHANGED <<case, phase, depth, digests, seen, found, searched, verdict>>

\* StepResult.Analyze; the errors of a passed collection are empty, as
\* validateAttestations let none through.
Analyze(s) == passed[s] # <<>>

Conclude ==
  /\ phase = "artifacts"
  /\ todo = {}
  /\ verdict' = \A s \in case.steps : Analyze(s)
  /\ phase' = "done"
  /\ UNCHANGED <<case, depth, todo, digests, seen, found, passed, rejected,
                 searched>>

Next ==
  \/ CheckOptions \/ SearchFails \/ EndPass \/ Conclude
  \/ \E s \in Step : SearchStep(s) \/ ArtifactStep(s)

Spec == Init /\ [][Next]_vars

-----------------------------------------------------------------------------
(* Properties                                                              *)

InPolicy(c) == case.coll[c].step \in case.steps

\* A set of digests that holds the subjects asked for and, with a digest of an
\* accepted collection, that collection's back references.
Closed(D) ==
  /\ case.subjects \subseteq D
  /\ \A c \in Coll :
       InPolicy(c) /\ Accepted(c) /\ case.coll[c].subjects \cap D # {}
         => case.coll[c].backRefs \subseteq D

\* The digests connected to the subjects: the least closed set.
Reachable ==
  {d \in Digest : \A D \in SUBSET Digest : Closed(D) => d \in D}

\* The search never leaves the evidence connected to the subject: every known
\* digest is in every closed set, so that a rejected or unrelated collection
\* cannot pull in others, and every passed collection is signed by a
\* functionary of its own step, valid, and connected to the subject.
SearchIsSound ==
  /\ digests \subseteq Reachable
  /\ \A s \in Step : \A c \in ToSet(passed[s]) :
       /\ Accepted(c)
       /\ case.coll[c].step = s
       /\ case.coll[c].subjects \cap Reachable # {}

\* When there are as many passes as collections the search is complete, and
\* what it finds does not depend on the order of the steps in the map or of
\* the collections in the source.
SearchIsComplete ==
  /\ phase \in {"artifacts", "done"}
  /\ case.searchDepth >= Cardinality({c \in Coll : InPolicy(c)})
  =>
    /\ digests = Reachable
    /\ \A s \in case.steps :
         ToSet(searched[s]) = {c \in Coll : /\ case.coll[c].step = s
                                            /\ Accepted(c)
                                            /\ case.coll[c].subjects \cap Reachable # {}}

\* The verdict as a function of what the search left, with no loop over steps.
ReferenceVerdict ==
  \A s \in case.steps : \E c \in ToSet(searched[s]) :
    verifyCollectionArtifacts(s, c, searched)

\* verifyArtifacts empties Passed of a step while other steps still compare
\* with it; the verdict does not depend on the order in which it goes through
\* the steps.
VerdictIgnoresStepOrder == phase = "done" => verdict = ReferenceVerdict

\* policy.go:299, "Check that the statement contains a predicate type that we
\* accept": no collection passes with another predicate type.
PredicateTypeIsChecked ==
  \A s \in Step : \A c \in ToSet(passed[s]) : case.coll[c].predicate
=============================================================================
