------------------------------ MODULE Attestors ------------------------------
(***************************************************************************)
(* attestation/factory.go and registry/: GetAttestor makes an attestor by  *)
(* name or type and the context runs it.  The file recorder and the        *)
(* attestors of documents, the environment capture, the secret scan and    *)
(* the manifest attestor do not write to each other's state: one of them   *)
(* is in use, the others stay as they were initialised.                    *)
(***************************************************************************)
EXTENDS ProductAttestors, SecretScan, K8sManifest

CONSTANTS RegisteredAttestors,
          ScanCaptures  \* the options of the Capture the scan is run with

VARIABLE inUse \* the attestor that GetAttestor returned

attestorsVars == <<inUse, postVars, envVars, scanVars, k8sVars>>

\* The state of an attestor that is not in use.
IdleTree == CHOOSE t \in Trees : TRUE
IdleCapture == CHOOSE o \in CaptureOptions : TRUE
IdleCorpus == CHOOSE c \in Corpora : TRUE
IdleScan == CHOOSE o \in ScanOptions : TRUE
IdleManifests == CHOOSE m \in Manifests : TRUE
IdleK8s == CHOOSE o \in K8sOptions : TRUE

AttestorsInit ==
  /\ inUse \in RegisteredAttestors \cup {"unknown"}
  /\ inUse # "products" => /\ tree = IdleTree
                           /\ dirHashGlob = {}
                           /\ tracing = FALSE
                           /\ attestor = None
  /\ PostInit
  /\ options \in CASE inUse = "environment" -> CaptureOptions
                   [] inUse = "secretscan" -> ScanCaptures
                   [] OTHER -> {IdleCapture}
  /\ EnvInit
  /\ inUse # "secretscan" => corpus = IdleCorpus /\ scan = IdleScan
  /\ ScanInit
  /\ inUse # "k8smanifest" => manifests = IdleManifests /\ kopt = IdleK8s
  /\ K8sInit

UseProducts ==
  inUse = "products" /\ PostNext /\ UNCHANGED <<inUse, envVars, scanVars, k8sVars>>
UseEnvironment ==
  inUse = "environment" /\ EnvNext /\ UNCHANGED <<inUse, postVars, scanVars, k8sVars>>
UseSecretScan ==
  inUse = "secretscan" /\ ScanNext /\ UNCHANGED <<inUse, postVars, k8sVars>>
UseK8sManifest ==
  inUse = "k8smanifest" /\ K8sNext /\ UNCHANGED <<inUse, postVars, envVars, scanVars>>

AttestorsNext == UseProducts \/ UseEnvironment \/ UseSecretScan \/ UseK8sManifest

AttestorsSpec == AttestorsInit /\ [][AttestorsNext]_attestorsVars
=============================================================================
