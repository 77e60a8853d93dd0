------------------------------ MODULE WitnessRun ------------------------------
(***************************************************************************)
(* run.go: run() executes the attestors of a step in an AttestationContext *)
(* and turns the completed ones into signed envelopes: one per exported    *)
(* attestor, one per attestation of a MultiExporter, and the collection of *)
(* the others.  An envelope is abstracted to what it says (its result      *)
(* record) and to whether it was signed.                                   *)
(***************************************************************************)
EXTENDS AttestationContext, SequencesExt

CONSTANTS RunOptions,  \* the runOptions and attestor kinds of a run
          Runs,        \* the pairs of a configuration and options that are run
          NExported    \* how many attestors ExportedAttestations() returns

ASSUME NExportedAssumption == NExported \in Nat

\* exporters and multiExporters implement the interface of that name;
\* Export() of an exporter returns TRUE iff it is in exporting.
ASSUME RunOptionsAssumption ==
  RunOptions \subseteq [stepName : BOOLEAN, signers : BOOLEAN,
                        insecure : BOOLEAN, ignoreErrors : BOOLEAN,
                        exporters : SUBSET Attestor,
                        exporting : SUBSET Attestor,
                        multiExporters : SUBSET Attestor]

ASSUME RunsAssumption == Runs \subseteq Configuration \X RunOptions

VARIABLES ro,       \* the options of this run; never change
          phase,    \* where run() is
          cursor,   \* next entry of CompletedAttestors() to look at
          item,     \* next exported attestation of a MultiExporter
          errs,     \* the attestors whose error was collected
          members,  \* attestorsForCollection
          result    \* the []RunResult under construction

runVars == <<ro, phase, cursor, item, errs, members, result>>
allVars == <<vars, runVars>>

-----------------------------------------------------------------------------

RunInit ==
  /\ \E r \in Runs : config = r[1] /\ ro = r[2]
  /\ Init
  /\ phase = "validate"
  /\ cursor = 1
  /\ item = 1
  /\ errs = {}
  /\ members = <<>>
  /\ result = <<>>

\* RunResult for an attestor's own attestation; i is the position in
\* ExportedAttestations(), 0 for an Exporter.
ExportResult(a, i) ==
  [kind |-> "export", of |-> <<a>>, item |-> i, signed |-> ~ ro.insecure]

CollectionResult(list) ==
  [kind |-> "collection", of |-> list, item |-> 0, signed |-> ~ ro.insecure]

\* validateRunOpts, then NewContext, which fails when Getwd does.
Start ==
  /\ phase = "validate"
  /\ IF ~ ro.stepName \/ (~ ro.signers /\ ~ ro.insecure)
       THEN phase' = "error"
       ELSE phase' \in {"attest", "error"}
  /\ UNCHANGED <<vars, ro, cursor, item, errs, members, result>>

\* RunAttestors, step by step.
Attesting ==
  /\ phase = "attest"
  /\ Next
  /\ UNCHANGED runVars

\* RunAttestors has returned.
Attested ==
  /\ phase = "attest"
  /\ main \in {"nil", "error"}
  /\ phase' = IF main = "nil" THEN "export" ELSE "error"
  /\ UNCHANGED <<vars, ro, cursor, item, errs, members, result>>

Current == completed[cursor].attestor

Advance == cursor' = cursor + 1 /\ item' = 1

\* The loop over the completed attestors: a failed one.
CollectError ==
  /\ phase = "export"
  /\ cursor <= Len(completed)
  /\ completed[cursor].error
  /\ errs' = errs \cup {Current}
  /\ Advance
  /\ UNCHANGED <<vars, ro, phase, members, result>>

\* createAndSignEnvelope for res, which may fail unless run insecurely; the
\* results so far are returned with the error.
SignOrFail(res) ==
  \/ result' = Append(result, res) /\ UNCHANGED phase
  \/ ~ ro.insecure /\ phase' = "error" /\ UNCHANGED result

\* One attestation of a MultiExporter (asked for before Exporter is).
ExportItem ==
  /\ phase = "export"
  /\ cursor <= Len(completed)
  /\ ~ completed[cursor].error
  /\ Current \in ro.multiExporters
  /\ IF item <= NExported
       THEN /\ SignOrFail(ExportResult(Current, item))
            /\ item' = item + 1
            /\ UNCHANGED cursor
       ELSE Advance /\ UNCHANGED <<phase, result>>
  /\ UNCHANGED <<vars, ro, errs, members>>

\* An Exporter (every one is a Subjecter), exported when Export() says so; any
\* other attestor.
ExportOne ==
  /\ phase = "export"
  /\ cursor <= Len(completed)
  /\ ~ completed[cursor].error
  /\ Current \notin ro.multiExporters
  /\ IF Current \in ro.exporters \cap ro.exporting
       THEN SignOrFail(ExportResult(Current, 0))
       ELSE UNCHANGED <<phase, result>>
  /\ Advance
  /\ UNCHANGED <<vars, ro, errs, members>>

\* The loop is over: errors end the run unless they are ignored.
CheckErrors ==
  /\ phase = "export"
  /\ cursor = Len(completed) + 1
  /\ phase' = IF errs # {} /\ ~ ro.ignoreErrors THEN "error" ELSE "collect"
  /\ cursor' = 1
  /\ UNCHANGED <<vars, ro, item, errs, members, result>>

\* Mutants of ForCollection: MultiExporters are not left out; failed attestors
\* are not.
ForCollectionWithMulti(c) ==
  /\ ~ c.error
  /\ c.attestor \notin ro.exporters \cap ro.exporting

ForCollectionWithFailed(c) ==
  /\ c.attestor \notin ro.multiExporters
  /\ c.attestor \notin ro.exporters \cap ro.exporting

\* The filter in front of NewCollection.
ForCollection(c) ==
  /\ ~ c.error
  /\ c.attestor \notin ro.multiExporters
  /\ c.attestor \notin ro.exporters \cap ro.exporting

\* Mutant of Filter: the latest completed attestor comes first.
FilterReversed ==
  /\ phase = "collect"
  /\ cursor <= Len(completed)
  /\ members' = IF ForCollection(completed[cursor]) THEN <<Current>> \o members
                                                   ELSE members
  /\ cursor' = cursor + 1
  /\ UNCHANGED <<vars, ro, phase, item, errs, result>>

\* The loop over the completed attestors that fills attestorsForCollection.
Filter ==
  /\ phase = "collect"
  /\ cursor <= Len(completed)
  /\ members' = IF ForCollection(completed[cursor]) THEN Append(members, Current)
                                                   ELSE members
  /\ cursor' = cursor + 1
  /\ UNCHANGED <<vars, ro, phase, item, errs, result>>

\* NewCollection keeps the order; sign it and return.
Collect ==
  /\ phase = "collect"
  /\ cursor = Len(completed) + 1
  /\ \/ /\ result' = Append(result, CollectionResult(members))
        /\ phase' = "nil"
     \/ /\ ~ ro.insecure
        /\ phase' = "error"
        /\ UNCHANGED result
  /\ UNCHANGED <<vars, ro, cursor, item, errs, members>>

RunStep == \/ Start \/ Attested \/ CollectError \/ ExportItem \/ ExportOne
           \/ CheckErrors \/ Filter \/ Collect

RunNext == Attesting \/ RunStep

\* The Go scheduler runs every goroutine, every Attest returns, and so does
\* every call that run() makes.
RunFairness ==
  /\ WF_allVars(RunStep)
  /\ WF_allVars(phase = "attest" /\ RunAttestors /\ UNCHANGED runVars)
  /\ \A a \in Attestor :
       WF_allVars(phase = "attest" /\ runAttestor(a) /\ UNCHANGED runVars)

RunSpec == RunInit /\ [][RunNext]_allVars /\ RunFairness

\* Collection.Materials(): for each path, the member that wrote it last.
CollectionMaterials(list, p) ==
  LET offering == {i \in DOMAIN list : p \in config.materials[list[i]]}
  IN  IF offering = {} THEN None ELSE list[Max(offering)]

-----------------------------------------------------------------------------
(* Properties                                                              *)

Collections == {r \in ToSet(result) : r.kind = "collection"}
Exports(a) == {i \in DOMAIN result :
                 result[i].kind = "export" /\ result[i].of = <<a>>}
InCollection(a) == \E c \in Collections : a \in ToSet(c.of)

\* A nil return accounts for every attestor that ran (run.go, the export loop
\* and the collection filter, which test the same interfaces in two different
\* places).  A failed one is nowhere.  A successful one is exported, or is in
\* the collection, never both and never twice.  An attestor with both interfaces
\* is exported as a MultiExporter and is not in the collection whatever its
\* Export() says (run.go:199); the comment at factory.go:70-71 says that it can
\* ask for the collection in this way.  The property states what the code does.
ExactlyOnePlace ==
  phase = "nil" =>
    \A a \in Attestor :
      LET exports == CASE a \in ro.multiExporters -> NExported
                       [] a \in (ro.exporters \cap ro.exporting)
                                  \ ro.multiExporters -> 1
                       [] OTHER -> 0
      IN  IF Succeeded(completed, a)
            THEN /\ Cardinality(Exports(a)) = exports
                 /\ InCollection(a) <=>
                      a \notin ro.multiExporters \cup (ro.exporters \cap ro.exporting)
            ELSE Exports(a) = {} /\ ~ InCollection(a)

\* Whatever is returned, with or without an error, speaks for attestors that
\* succeeded, in the order in which they completed, and is signed unless the
\* run is insecure, also when a later envelope fails to sign.
PartialResultsAreSound ==
  /\ \A i \in DOMAIN result :
       /\ result[i].signed \/ ro.insecure
       /\ \A a \in ToSet(result[i].of) : Succeeded(completed, a)
  /\ phase = "error" => Collections = {}
  /\ \A i, j \in DOMAIN result :
       i < j /\ result[j].kind = "export" =>
         /\ result[i].kind = "export"
         /\ ~ Before(result[j].of[1], result[i].of[1])

\* The collection and the context agree on a path when one attestor of its run
\* type alone observed it: Collection.Materials() replays the writes in order
\* of completion, the context applied them in the order of the later critical
\* sections, and the two orders differ only within a run type.
CollectionAgreesWithContext ==
  \A c \in Collections, p \in Path :
    LET a == materials[p]
    IN  a # None /\ a \in ToSet(c.of)
          /\ (\A b \in Of(config.runType[a]) \ {a} : p \notin config.materials[b])
        => CollectionMaterials(c.of, p) = a

\* run() returns: RunAttestors comes back from every mix of run types, and the
\* loops over what it completed end.
RunReturns == <>(phase \in {"nil", "error"})
=============================================================================
