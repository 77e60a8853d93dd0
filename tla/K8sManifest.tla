---------------------------- MODULE K8sManifest ----------------------------
(***************************************************************************)
(* attestation/k8smanifest: the post-product attestor that records the     *)
(* Kubernetes objects in the .json and .yaml products, without the fields  *)
(* that change from one apply to the next, and the nodes of the cluster.   *)
(*                                                                         *)
(* A document is its kind, its name, the fields it has, the items of a     *)
(* List, and whether the text parses at all and decodes into an object.    *)
(***************************************************************************)
EXTENDS Naturals, Sequences, SequencesExt, FiniteSets

CONSTANTS Manifests,      \* the products there may be, a function from paths
          K8sOptions,     \* the options of the attestor
          ServerDefaults  \* the fields, not among the ephemeral ones, that the
                          \* server adds to an object of a kind when they are missing

ASSUME K8sOptionsAssumption ==
  K8sOptions \subseteq [dryRun : BOOLEAN, recordCluster : BOOLEAN,
                        ignore : SUBSET STRING]

VARIABLES manifests,  \* the products; never change
          kopt,       \* the options; never change
          kpc,        \* where Attest is
          files,      \* the products it has not come to
          queue,      \* the documents of the product it is at
          recorded,   \* a.RecordedDocs
          nodes       \* a.ClusterInfo.RecordedNodes

k8sVars == <<manifests, kopt, kpc, files, queue, recorded, nodes>>

\* defaultEphemeralFields: status, and fields such as metadata.uid.
defaultEphemeralFields == {"status", "uid"}

isJSONorYAML(f) == manifests[f].ext \in {"json", "yaml"}

\* runRecordClusterInfo: the context of the kubeconfig may be unknown.
K8sBegin ==
  /\ kpc = "begin"
  /\ LET candidates == {f \in DOMAIN manifests : isJSONorYAML(f)}
     IN  \/ /\ kpc' = IF candidates = {} THEN "nil" ELSE "file"
            /\ files' = candidates
         \/ /\ DOMAIN manifests # {}
            /\ kopt.recordCluster
            /\ kpc' = "error"
            /\ UNCHANGED files
  /\ UNCHANGED <<manifests, kopt, queue, recorded, nodes>>

\* The documents of a file: a JSON file that does not parse has none, a YAML
\* file those before the first that does not.
docsOf(m) ==
  LET broken == {i \in DOMAIN m.docs : ~ m.docs[i].parses}
  IN  IF broken = {} THEN m.docs
      ELSE IF m.ext = "json" THEN <<>>
      ELSE SubSeq(m.docs, 1, (CHOOSE i \in broken : \A j \in broken : i <= j) - 1)

\* The next product, in the order of a map; one that cannot be read is skipped.
ReadManifest ==
  /\ kpc = "file"
  /\ queue = <<>>
  /\ \E f \in files :
       /\ files' = files \ {f}
       /\ \E readable \in BOOLEAN :
            queue' = IF readable
                       THEN [i \in DOMAIN docsOf(manifests[f]) |->
                               [file |-> f, doc |-> docsOf(manifests[f])[i]]]
                       ELSE <<>>
  /\ UNCHANGED <<manifests, kopt, kpc, recorded, nodes>>

\* removeEphemeralFields, of the document itself, not of a List's items.
Clean(fields) == fields \ (defaultEphemeralFields \cup kopt.ignore)

\* runDryRun: the object as the server would store it, with the fields that
\* belong to the server and with defaults for those that were left out.
DryRun(kind, fields) ==
  fields \cup defaultEphemeralFields \cup ServerDefaults[kind]

\* Mutant of FinalFields: the dry run comes after the removal.
FinalFieldsCleanedFirst(kind, fields, served) ==
  IF served THEN DryRun(kind, Clean(fields)) ELSE Clean(fields)

\* What is recorded: the fields that the server's dry run returned, or, when it
\* fails, those of the file, without the ephemeral ones.
FinalFields(kind, fields, served) ==
  Clean(IF served THEN DryRun(kind, fields) ELSE fields)

\* recordNode: a node is filed under the machine id in its status.
NodeKey(name, fields) == IF "status" \in fields THEN name ELSE ""

\* The nodes that processDoc files before it returns or fails: those of a List
\* up to the first item that does not decode.  The items of a List that was
\* served are the server's, and keep their status.  recordNode does not fail:
\* *corev1.Node is the only type that the client-go scheme has for the kind Node.
NodesOf(d, fields, served) ==
  IF ~ kopt.recordCluster THEN {}
  ELSE IF d.kind = "Node" THEN {NodeKey(d.name, fields)}
  ELSE LET bad == {i \in DOMAIN d.items : ~ d.items[i].decodes}
           upTo == IF bad = {} THEN Len(d.items)
                   ELSE (CHOOSE i \in bad : \A j \in bad : i <= j) - 1
           fieldsOf(i) == IF served THEN DryRun("Node", d.items[i].fields)
                                    ELSE d.items[i].fields
       IN  {NodeKey(d.items[i].name, fieldsOf(i)) :
              i \in {j \in 1..upTo : d.items[j].kind = "Node"}}

\* processDoc.  A dry run that fails is noted in the log and the document of the
\* file is used.  The subject key gets a suffix when subjectDigests holds it, but
\* nothing is ever stored there.  Two fields are history: the document, and
\* whether its dry run succeeded.
processDoc ==
  /\ kpc = "file"
  /\ queue # <<>>
  /\ LET d == Head(queue).doc
     IN  \E served \in {FALSE, kopt.dryRun} :
           LET fields == FinalFields(d.kind, d.fields, served)
           IN  /\ recorded' =
                    IF d.decodes /\ \A i \in DOMAIN d.items : d.items[i].decodes
                      THEN Append(recorded, [file |-> Head(queue).file,
                                             kind |-> d.kind, name |-> d.name,
                                             data |-> fields, of |-> d,
                                             served |-> served])
                      ELSE recorded
               /\ nodes' = IF d.decodes THEN nodes \cup NodesOf(d, fields, served)
                                         ELSE nodes
  /\ queue' = Tail(queue)
  /\ UNCHANGED <<manifests, kopt, kpc, files>>

K8sEnd ==
  /\ kpc = "file"
  /\ files = {}
  /\ queue = <<>>
  /\ kpc' = "nil"
  /\ UNCHANGED <<manifests, kopt, files, queue, recorded, nodes>>

K8sInit ==
  /\ manifests \in Manifests
  /\ kopt \in K8sOptions
  /\ kpc = "begin"
  /\ files = {}
  /\ queue = <<>>
  /\ recorded = <<>>
  /\ nodes = {}

K8sNext == K8sBegin \/ ReadManifest \/ processDoc \/ K8sEnd

K8sSpec == K8sInit /\ [][K8sNext]_k8sVars

-----------------------------------------------------------------------------
(* Properties                                                              *)

\* What is recorded of an object depends on nothing that changes from one apply to
\* the next: objects of a kind that differ only in fields that belong to the server,
\* or that are ignored, are recorded with the same data when the dry run of both
\* succeeded or that of neither did, and else with data that differ in the server's
\* defaults alone (k8s.go, "ephemeral-cleaned").  Those do differ: k8s.go:402-407
\* only logs a dry run that fails, although the option is said to "normalize
\* resource defaults before hashing" (k8s.go:128).
RecordedDataIsStable ==
  \A i, j \in DOMAIN recorded :
    LET r == recorded[i]
        s == recorded[j]
    IN  r.kind = s.kind /\ Clean(r.of.fields) = Clean(s.of.fields)
        => /\ r.served = s.served => r.data = s.data
           /\ r.data \ ServerDefaults[r.kind] = s.data \ ServerDefaults[r.kind]
=============================================================================
