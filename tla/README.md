# A verification project for go-witness

go-witness produces and verifies in-toto attestations: `witness run` executes a
build step under a set of *attestors*, signs what they observed, and `witness
verify` decides from signed evidence whether an artifact meets a policy. This
directory holds TLA+ models of the parts of the library that carry that promise,
the TLC configurations that check them and the TLAPS proofs about the parts where
an argument for every size of the system is worth having.

Paths below are relative to `src/`.

## 1. Inventory

| Component | State it keeps | Operations | What is hard about it |
|---|---|---|---|
| attestation context, `attestation/context.go` | attestors, completed list, materials and products, hooks | `RunAttestors`, `runAttestor`, getters | one goroutine per attestor of a run type; list and maps written in separate critical sections; a stage can fail midway |
| run, `run.go` | results so far, collected errors | `Run`, `RunWithExports`, `createAndSignEnvelope` | partial results on failure; "exported or collected" decided in two places |
| execute hooks, `attestation/execute_hooks.go` | declarations, hooks, ready channels | `Declare`, `RegisterHook`, `WaitForDeclaredHooks`, `RunHooks`, `HasHooks` | rendezvous of goroutines with a timeout |
| command-run, `attestation/commandrun` | the process, exit code, flags | `runCmd`, `runTrace`, `waitForExitOnly` | ptrace stops in any order, hand-decoded status, every call may fail |
| network-trace, `attestation/networktrace` | proxy, listeners, connections, wait group, channel | `Attest`, `initProxies`, hooks, `waitAndCleanup`, `TCPProxy` | orderly shutdown of many goroutines with deadlines |
| file recorder, `attestation/file`, `attestation/material`, `attestation/product` | what was recorded, what was opened | `RecordArtifacts`, `Attest` | links, cycles of links, files that change between the two walks |
| document attestors, `attestation/sarif`, `vex`, `sbom`, `docker`, `oci` | report, digests | `Attest` | a file is opened several times and may change in between |
| environment capture, `environment` | list of sensitive keys, shared | `Capture` | calls of one stage overlap on one map |
| secret scan, `attestation/secretscan` | findings, what was seen | `Attest` and its recursion through encodings | limits, a record of what was decoded, values of the environment |
| k8smanifest, `attestation/k8smanifest` | recorded documents | `Attest`, `processDoc` | a dry run that may fail, documents that fail midway |
| signers, `signer/fulcio`, `signer/kms`, `signer/file`, `signer/vault`, `signer/spiffe` | keys, tokens, key caches, a lease | `Signer`, `Sign`, `Verify`, renewal | remote services that fail, keys that are rotated under a cache, contexts that end |
| policy, `policy` | known digests, results by step | `Verify`, `checkFunctionaries`, `validateAttestations`, `verifyArtifacts` | map order, a fixpoint search with a depth, results changed while read |
| sources, `source` | indexes, seen gitoids | `Search` | concurrent search, one-time download |
| dsse, `dsse` | signatures | `Sign`, `Verify` | certificates, timestamps and keys share one count |
| policy signature, `internal/policy/policy.go` | - | `VerifyPolicySignature` | uses checked verifiers with and without errors |
| registry, `registry`, `signer/registry.go`, `attestation/factory.go` | entries, options | `NewEntity`, `GetAttestor` | defaults and options in order |
| git, CI, identity and other artifact attestors; timestamp, archivista, intoto, log, schemagen | little or none | | |

How they meet: `run` creates a context and calls `RunAttestors`; material and
product attestors walk the working directory before and after the execute stage,
in which the goroutine of command-run and those of the attestors with hooks meet
in `ExecuteHooks`; network-trace drives its proxy from the hooks it registered.
Attestors that read products come after, the secret scan also over what the
others attested. All of them share one environment capture. The completed
attestors become a collection, signed by `dsse.Sign` with the signers the registry
made. On the other side, `VerifyPolicySignature` accepts the policy's own
envelope, and `Policy.Verify` asks a (verified, possibly multiple) source for
collections and judges them.

The hazards this code is exposed to, each at its line and with the properties
that would catch it, are listed in `PROJECT.json`.

## 2. Modules

| Module | Models | State and actions |
|---|---|---|
| `AttestationContext` | `context.go` | `main`, `order`, `stage` are where `RunAttestors` is; `routine[a]` where the goroutine of attestor `a` is; `completed`, `materials`, `products` the context. One action per critical section of `runAttestor`; `seen` is the copy `Attest` took of the context |
| `WitnessRun` | `run.go`, `collection.go` | extends `AttestationContext`: its steps are those of phase "attest". Then one action per entry of the export loop, the error check, one action per entry of the loop that selects the collection's members (`Filter`), and the collection |
| `ExecuteHooks` | `execute_hooks.go` | one operator per critical section of `h.mu` |
| `ExecuteStage` | the execute stage: `context.go`, `commandrun`, hooks of `networktrace` | extends `ExecuteHooks`: goroutines of command-run and of the attestors with hooks, the traced process and the kernel |
| `NetworkTrace` | `networktrace.go`, `proxy/tcp.go` | the attestor, `TCPProxy.Start`, two accept loops, handler and recorder of each connection, collector |
| `FileRecorder` | `file.go`, `material.go`, `product.go`, digests of `cryptoutil`, opened files of `tracing_linux.go` | a file system with links; `frames` is the stack of calls of `RecordArtifacts`, one action per path a walk comes to; the command writes, links and removes between the two walks |
| `ProductAttestors` | `sarif`, `vex`, `sbom`, `docker`, `oci` | extends `FileRecorder`: one action per opening of a product while another process may still write |
| `Environment` | `environment/` | one action per access of the shared map in `Capture`; maps are references into a heap, and a data race may end the program |
| `SecretScan` | `secretscan/` | extends `Environment`: a content is a tower of layers, the recursion through them a function of the depth; the attestors are scanned in one action, the sources that fail chosen, and one action per product; `passedOver` are the sources whose scan failed |
| `K8sManifest` | `k8smanifest/k8s.go` | one action per product and per document, with the outcome of the dry run chosen; `ServerDefaults` is what the server adds to an object of a kind besides the fields that are removed again |
| `Attestors` | `factory.go`, `registry` | the attestor `GetAttestor` returned and its steps |
| `FulcioSigner` | `signer/fulcio` | the URL, the token, `getCert` with its backoff under a context, `getCertHTTP`, the chain |
| `KmsSigner` | `signer/kms` | a provider with the version in its reference (`version`) and the option `KeyVersion` (`keyVersion`), which only Vault's client reads; the clients of four services with their caches, a service that rotates and disables keys, the goroutine that renews a Vault token |
| `LocalSigners` | `signer/file`, `signer/vault`, `signer/spiffe`, parsing of keys in `cryptoutil` | each `Signer` is a function of its configuration and what it reads |
| `SignerProviders` | `signer/registry.go`, `registry` | the provider the registry made and its steps |
| `PolicyVerify` | `policy.go`, `step.go`, sources | one action per step of a pass and per step of `verifyArtifacts` |
| `MultiSource`, `SearchAll` | `source/multi.go` and what it promises | the goroutines and rendezvous; `RefinesSearchAll` is the refinement |
| `Dsse` | `dsse/*.go`, `internal/policy/policy.go` | one action per signer; of `Verify`, one per certificate, timestamp and verifier tried for a signature (`next`, `at` and `stamp` are the loop variables); one per checked verifier of a policy |
| `MC*` | | the sets of configurations TLC enumerates |
| `*Proofs` | | theorems (section 4) |

Abstractions. An attestor is its index and a digest is the attestor that
recorded it, so that "whose digest is in the map" can be asked. `Attest` of an
ordinary attestor takes one copy of the context at any time and then succeeds or
fails. Keys, certificates, tokens, chains and timestamps are records of what is
asked of them (does it chain, does it meet the constraints, who vouches for it).
A collection is a record of the outcome of the checks on it alone, its subjects,
back references and artifacts. Cryptography is perfect: a signature verifies under
the key and for the payload it was made with, and a digest is its content. Of the
traced process only the stops, the end and the files it opens are modelled, and of
a connection how its copy ends. In the file system a path is a sequence of names
and the walk order a constant. An entry of a list of environment keys is the set
of keys it matches. A text that is scanned is a sequence of layers, each with the
encoding that hides the next.

`Attestors` and `SignerProviders` compose components that share the registry and
no other state: the one in use moves and the others keep their initial state.

Operators whose comment says "Mutant of" are plausible mistakes in the code next
to them; they occur in no specification. Each property has one that breaks it.

## 3. Runs

| Run | Instance | What it shows |
|---|---|---|
| `run` | 3 attestors, every mix of 6 run types with and without a hook declarer, one path; and 3 attestors in 2 run types with every combination of export interfaces (one attestor may implement both `MultiExporter` and `Exporter`) and options | stages are barriers; readers see all earlier stages; later stages win in the maps; nothing recorded is lost; a nil return leaves nobody out; every successful attestor is in the one place that `run.go` assigns to its interfaces; partial results are sound; the collection and the context agree on materials; run returns |
| `execute_stage` | network-trace and a second attestor with hooks, with and without tracing and command-run, no fault or 9 kinds of faults at once, 2 signals | no user code before PreExec; hooks once, when ready and in order; signals given back; command-run returns, unless a process stays stopped that ptrace did not resume; without faults the stage ends |
| `network_trace` | 2 connections, one per listener, a channel of capacity 1 | counted connections are recorded once; shutdown is no connection error and completes |
| `attestors` | a working directory with a file, a directory and a link, which may lead to itself or to a path with a file on the way, a directory outside it, 2 contents and 2 changes by the command; 2 overlapping captures of 5 variables; contents of 5 layers and decode limits 0 to 4; 2 manifests of up to 2 documents | products are what the command changed and are there; no target of a link is walked twice; a report and its digest are of one content; captures hide sensitive values however they overlap; the scan misses nothing within its limits in the sources it did not pass over, and its encoding paths lead to a secret; recorded manifests do not depend on fields that belong to the server, and on whether the dry run succeeded in the server's defaults alone |
| `signers` | every provider with 3 URLs, 2 tokens, 5 chains, 2 key versions, 3 algorithms, 6 kinds of key files, a lease of 2 ticks | requests are retried only after a failure that may pass, at most three times and at most once after the context has ended; the configured identity and key are used; the key version that decides (of the reference, or with Vault the option) holds; a rotated key is noticed; Signer returns unless an answer without a time limit never comes; the renewal goroutine stops |
| `policy` | chains: 2 steps, 3 collections, 3 digests, 3 passes; flows: 3 steps, 4 collections, 2 contents | the search finds exactly what is accepted and connected to the subject, in every order; the verdict is independent of the order of the artifact check |
| `multi_source` | 3 sources | the concurrent search implements `SearchAll` and leaves no goroutine |
| `dsse` | 2 signers, 2 verifiers, thresholds 0 to 2, a trusted and an untrusted time stamping authority | `Verify` agrees with its definition over pairs of signature and verifier; accepted policies are signed |

Four runs state what a comment or message of the code says and show that the code
does otherwise (`findings` in `PROJECT.json`):

| Run | The code says | What happens |
|---|---|---|
| `execute_no_start` | network-trace cleans up irrespective of the process exiting | if the command cannot be started, nothing releases it |
| `policy_predicate` | the predicate type is checked | the check records a rejection and lets the collection pass |
| `dsse_policy` | a policy verifier passed verification | the constraints may be met by a verifier that failed |
| `linked_changes` | artifacts behind a link are recorded relative to the base path | the walk of the link's target compares its paths with materials of the same relative name elsewhere, and leaves out a changed file |

Two facts of the code to read the passing runs by: `VerifyMatchesDefinition`
counts pairs of a signature and what it verifies under, as the code does, so one
key can count more than once towards a threshold; and `VerdictIgnoresStepOrder`
compares each step with the sources of its artifacts on its own, as
`verifyArtifacts` does, so it does not say that one consistent choice of a
collection per step exists.

### Observed divergences

The models follow the code in these places too, where two lines of it disagree or
a line does not do what its neighbour suggests; they are not runs of their own:

- `attestation/commandrun/tracing_linux.go:260`: without tracing, the code of a
  command that a signal ended is taken from the upper bits of the event message
  and is 0, where lines 232-235 report 128 plus the signal.
- `attestation/networktrace/proxy/tcp.go:164`: a connection between `Accept` and
  `recordWg.Go` is not waited for, although the comment at 162-163 says that all
  sends are done.
- `signer/kms/gcp/client.go:490`: the second attempt of a verification reads a
  message that the first has consumed.
- `attestation/secretscan/types.go:75` says of the subjects "Products that were
  scanned"; a product over the size limit is a subject without having been scanned.
- `attestation/k8smanifest/k8s.go`: the digests for subjects are computed and
  not stored, so `Subjects` returns none.
- `attestation/factory.go:70-71` says that an attestor which implements both
  `MultiExporter` and `Exporter` controls whether it is in the collection;
  `run.go:199` leaves every `MultiExporter` out. `ExactlyOnePlace` follows `run.go`.
- `attestation/commandrun/tracing_linux.go:203-205` and `263-266`: a stopped process
  that ptrace does not resume is only logged, and the tracer waits for it again. In
  the model the process is then held (`held`, `heldexit`), and `CommandRunReturns`
  names it as the one thing that keeps command-run for ever.
- `signer/fulcio/fulcio.go:479` and `590-591`: the gRPC call has no time limit but the
  caller's context, and the `http.Client` has no `Timeout`. `SignerReturns` allows
  the wait for that answer, and for the user at the terminal (`AwaitsAnswer`).
- `signer/kms/signerprovider.go:60` offers to every backend an option `key-version`,
  "The key version to use for signing"; only `hashivault/signer.go:61` reads it. With
  AWS, GCP and Azure the version in the reference decides, and without one the newest
  version signs. `PinnedVersionHolds` is about the version that decides.
- `attestation/secretscan/envscan.go:54-55` and `secretscan/README.md:15`, `87` and
  `177` say that the user's configuration of sensitive keys is respected. The scan
  learns the added keys from those missing in what `Capture` returns, and none is
  missing when the capture obfuscates: values of added keys are then not looked for.
  `KeysToFind` requires them only of a capture that filters.
- `attestation/secretscan/scanner.go:250-254`, `322-350` and `380-384`: an attestor, a
  part of command-run or a product that cannot be marshalled or scanned is passed
  over, with a line in the log and no trace in the attestation.
  `NothingFindableIsMissed` exempts these sources (`passedOver`).
- `attestation/k8smanifest/k8s.go:128` says that the dry run serves to "normalize
  resource defaults before hashing"; when it fails, lines 402-407 only log it and
  record the object without the defaults. `RecordedDataIsStable` allows this difference
  and no other.
- `attestation/networktrace/networktrace.go:213`: when a listener cannot be opened
  `proxyReady` is never closed, and `initProxies`, which waits for nothing else,
  does not return.

### Bounds

Three attestors are the least number that gives two of one run type and one of
another; one path is enough since the maps treat paths independently. Two hook
attestors reach every order of registration and readiness. Two connections and
capacity one give a full channel, a late connection and a drained one together.
The chains of `policy` have as many passes as collections, the least depth for
which completeness can hold: a chain of back references needs one pass per link when
the map order is against it. The flows have two collections for the middle step,
without which `verifyArtifacts` has nothing to confuse. The file system has one
link into the working directory and one out of it, which may lead back: the least
with a cycle, a file with two names and two files of one relative name; two
changes can create a file and replace it, or turn a link. Three links are as many
as one name of it can go through without a circle. Five layers are one more
than the largest decode limit can undo. Two versions of a key give one rotation,
two ticks a lease that is renewed and one that runs out. Constants that bound the
environment are named: `MaxSignals`, `MaxWrites`, `MaxLinks`, `MaxVersion`, `TTL`, `Cap`,
`searchDepth`, `NExported`. Runs do not check for deadlock since a finished run
may stop; that nobody waits for ever is stated by the liveness properties.

### Fairness

Weak fairness of each goroutine: the Go scheduler is fair to runnable goroutines
and the locks are held for a few statements.

- `RunSpec` (`WitnessRun`): the step of `run`, the loop of `RunAttestors` and each
  attestor's goroutine. `Attest` of an ordinary attestor is assumed to return.
- `ExecuteStage`: the process, once it runs, ends; nothing makes the caller cancel,
  and no fault is ever forced. In particular a `Wait4` that fails is not a step of
  command-run that fairness could call for, so it rescues nobody from a process that
  is held.
- `NetworkTrace`: a copy is fair only once a deadline is set, as a peer may be
  silent for ever, and nothing forces a connection or a shutdown.
- `SignersSpec`: the call of `Signer` takes the steps that depend on nobody else
  (`FulcioOwnStep`; fetching a token is one, its clients have a `Timeout`), time
  passes, and the renewal goroutine is scheduled when its context has ended or its
  login is due. Nothing forces Fulcio, a key service or the user to answer, a context
  to end, a key to be rotated or a renewal to fail; a request is only freed by a
  context that has ended. `RenewalStops` is stated from the moment the context has
  ended.
- `MultiSource` and `SearchAll`: some step that can be taken is taken; a source is
  assumed to answer.

## 4. Proofs

Every theorem holds for every value of the constants under the named assumptions
of its model, which only give the constants their types and their finiteness. Each
rests on an inductive invariant, the conjunction of the parts named below, with one
lemma per action or per part. In all of them the property alone is not preserved:
it speaks of what happened earlier, and the invariant adds where everybody can be
by then.

**`WitnessRunProofs`**, for every number of attestors, every set of paths, every
configuration and options (`NAssumption`, `ConfigurationAssumption`,
`NExportedAssumption`, `RunOptionsAssumption`, `RunsAssumption`). About
`AttestationContext`:

- `TypeCorrect`, `StagesOrdered`, `EarlierStagesAreSeen`, `LatestStageHolds`,
  `SuccessfulPublish`, `VerifyIsAlone`, `AllAccountedFor` (invariants),
  `UpdatesAreKept` (the action property `NoLostUpdate`);
- `Invariance`, the inductive invariant `Inv`: the order matches the grouping
  (`OrderInv`); who has started is of a run type the loop has reached
  (`StartedInv`); who is busy is of the current one and `RunAttestors` waits
  (`BusyInv`); the run types behind the loop are done (`BehindInv`); the list
  records exactly those past `Attest` (`RecordInv`); the maps hold digests of
  attestors that succeeded and have written them (`WriteInv`). A goroutine that
  appends or writes is therefore of the latest stage started (`BusyIsLatest`),
  which is what ordering, visibility and "latest stage wins" come down to.

About `WitnessRun`:

- `OnePlaceEach` (`ExactlyOnePlace`), `ResultsAreSound` (`PartialResultsAreSound`),
  `CollectionAgrees` (`CollectionAgreesWithContext`), and the context's properties
  once more of the composed specification (`ContextInRun`, `UpdatesAreKeptInRun`);
- `RunInvariant`, the inductive invariant `RInv`: `Inv`, and what the two loops over
  the completed list have made is a function of the part behind the cursor, counted
  by attestor (`ExportsAreCounted`), in order (`ExportsAreOrdered`), signed
  (`ExportsAreSound`) and selected (`MembersAreSound`).

**`ExecuteStageProofs`**, for every set of attestors with hooks and every setup of
faults (`SetupAssumption`, `CodeAssumption`):

- `PreExecComesFirst` (`NoUserCodeBeforePreExec`), `HooksFollowTheProtocol`
  (`HookProtocol`), `EverySignalIsGivenBack` (`SignalsAreGivenBack`);
- `StageInvariant`, the inductive invariant `SInv`: command-run gets past
  `WaitForDeclaredHooks` only when every declared hook is registered
  (`Rendezvous`), so the hooks `RunHooks` still has to call are exactly those of the
  stage that were not called (`Batches`), and the process is where command-run's
  place says (`Positions`), held ones included.

**`NetworkTraceProofs`**, for every finite set of connections and every capacity
(`ConnAssumption`, `FamilyAssumption`, `CapAssumption`):

- `RecordedOnce` (`CountedAreRecordedOnce`), `NoErrorByShutdown`
  (`ShutdownIsNotAnError`);
- `TraceInvariant`, the inductive invariant `NInv`: `recordWg` is the number of
  running handlers plus that of running recorders (`Counted`), which is why nobody
  but late connections is left after `Wait` (`Settled`) and the channel is closed
  after that (`Closing`); recorded and buffered connections together are the sent
  ones, each once (`EachIsDeliveredOnce`).

**`PolicyVerifyProofs`**, for every policy, set of steps and finite set of
collections (`CollIsFinite`, `CaseAssumption`):

- `SearchSound` (`SearchIsSound`), `SearchComplete` (`SearchIsComplete`),
  `VerdictOrder` (`VerdictIgnoresStepOrder`);
- `PolicyInvariant`, the inductive invariant `PInv`. Completeness is a counting
  argument: in pass `depth` as many collections were found before and one more in
  this pass, unless the steps it has been through have nothing to add (`Progress`),
  so as many passes as collections suffice (`EnoughPasses`). Results are only ever
  emptied by `verifyArtifacts`, and none if all steps hold (`Comparing`).

**`MultiSourceProofs`**, for every finite set of sources (`SourceIsFinite`):

- `SearchInvariant`, the inductive invariant `MInv`: where the caller is tells
  which channels are closed and which readers are gone (`Control`), and what was
  sent on a channel is what its reader holds or has appended, once (`GatheredOnce`);
- `NothingLeft` (`NoGoroutineLeft`);
- `SearchRefines`: every step of the search is a step of `SearchAll` under the
  refinement mapping, or leaves its state unchanged. The step that matters is the
  last: with no error gathered and all answers delivered, what the result reader
  appended is an arrangement of all sources (`AllGathered`). The fairness half of
  `RefinesSearchAll` stays with TLC.

**`DsseProofs`**, for every list of signers and verifiers, every threshold and any
timestamps (`InstanceAssumption`, `AbsentAssumption`):

- `VerifyIsAsDefined` (`VerifyMatchesDefinition`), `PolicyIsSigned`
  (`AcceptedPolicyIsSigned`);
- `VerifyInvariant`, the inductive invariant `DInv`: the counter is the number of
  matching pairs behind the loops (`CountInv`), what the timestamps tried so far
  gave is on record (`TriesInv`), and a checked verifier without an error stands
  for a matching pair (`StandsInv`).

**`SignersProofs`**, for every set of URLs, tokens, chains, PEM files and messages,
every number of key versions and lease:

- `RetriesHaveCause` (`RetriesAreJustified`), `IdentityIsConfigured`
  (`ConfiguredIdentityIsUsed`), `PinnedVersionSigns` (`PinnedVersionHolds`),
  `LocalSignerIsConfigured` (`LocalSignerIsAsConfigured`), all of the composition
  `SignersSpec`;
- `SignersInvariant`, the inductive invariant `SignersInv`, one conjunct per
  provider: `FInv` (a request after the context has ended is the last one; where the
  token came from), `LInv`, and `KInv` (a client is made for the version that decides,
  that of the reference or, with Vault, the option, `ClientInv`; what a GCP or Azure client has cached is the pinned
  version, `CacheInv`).

The proof of `KInv` needed a case TLC's first instance did not have: an Azure key is
rotated, or expires from the cache, between the moment `Sign` chooses the hash and
the moment the service signs. The service refuses a digest that does not fit the
algorithm, so the hash of a signature still is the one its key requires; the model
says so now, and the instance has two versions of different algorithms.

**`AttestorsProofs`**. About `Environment` and `K8sManifest`, for every set of
overlapping calls, lists and options, and for every list of manifests
(`MatchesAssumption`, `CaptureOptionsAssumption`, `K8sOptionsAssumption`):

- `SensitiveValuesAreHidden` (`CaptureHidesSensitiveValues`), from
  `CaptureInvariant` with the inductive invariant `EnvInv`: every map a call may
  still read lies between the default keys, unless they are disabled, and those
  with the additional ones (`MapsAreBounded`), and a call reads its map after having
  added what it adds (`CallIsSound`). No key is ever taken away from a map, so the
  data race between calls costs at most the program, never a value;
- `DataIsStable` (`RecordedDataIsStable`), from `ManifestInvariant` with `K8sInv`:
  what is recorded of a document is a function of its kind, its own fields and whether
  its dry run succeeded (`DataOf`), and for whatever `ServerDefaults` are, of what a
  dry run adds nothing else is left after the removal.

About `FileRecorder` and `ProductAttestors`, for every file system, order of a walk,
number of changes and limit on links (`WalkOrderAssumption`: paths are sequences of
names, reported once and after the directories they are in; `TreesAssumption` and
`TargetsAssumption`: what is there is in a directory, and links lead to paths;
`HashesAssumption`: a file is hashed, and not the way a directory is;
`BoundsAssumption`, `PostAttestorsAssumption`):

- `ProductsAreChanges` (`ProductsAreTheChanges`) and `TargetsWalkedOnce`
  (`NoTargetIsWalkedTwice`), from `RecorderInvariant` with the inductive invariant
  `RecInv`: links may be turned but stay links (`TreeInv`), each call is a walk below
  its base and the second one is for a link in the working directory (`FramesInv`),
  the targets of the calls are among the visited ones (`VisitedInv`), the outermost
  call has recorded a file exactly if it has come to it and `shouldRecord` says so
  (`WalkInv`), and the materials and products are what that gives at the end of a
  walk (`MaterialsInv`, `ProductsInv`). What comes back from a call for a link has
  the link's path as a prefix (`JoinFacts`), so it never replaces a file of the walk
  itself (`LongerPath`);
- `ProductsLeadToFiles` (`ProductsAreThere`), from `ThereInvariant` with `ThereInv`:
  every call's artifacts lead to their files from its base, and a call's base is where
  its link leads. The step that matters is the return of a call, which needs that
  names can be followed part by part (`FollowInParts`: `EvalSymlinks` of a path is
  `EvalSymlinks` of what its beginning leads to and the rest). The names that
  `EvalSymlinks` comes to are a recursive function over `0..MaxLinks`; what is said of
  them for every number is proved from the least counterexample, which `FirstPosition`
  provides;
- `ReportsMatchDigests` (`ReportMatchesItsDigest`), from `DocumentInvariant` with
  `DocInv`: an attestor that checks digests has an equal digest before it reads, one
  that does not relies on an untouched tree (`FreshInv`), so what a candidate's path
  leads to has the claimed digest (`CandidateInv`), and so has what was read
  (`PartsInv`).

The proof of `ThereInv` corrected the property: the recorder resolves one link per
call, so a product may lie behind more links than can be followed when its path is
resolved as a whole (TLC shows it with `MaxLinks = 1`). `ProductsAreThere` leaves out
such paths; in the instance of the run there are none.

About `SecretScan`, for every content and every limit on decoding
(`CorporaAssumption`: a content has a layer, and a layer is encoded unless it is the
innermost one; `ScanOptionsAssumption`: the limit is not negative, as
`WithMaxDecodeLayers` sees to):

- `PathsLeadToSecrets` (`EncodingPathsLeadToSecrets`) and `FindableIsReported`
  (`NothingFindableIsMissed`), from `ScanInvariant` with the inductive invariant
  `ScanInv`. What is hard is `scanBytes`, a recursive function of the depth, which
  `maxScanRecursionDepth` bounds: its equations are proved from a value for each
  depth (`ProcessedFacts`, `FoundFacts`). From the innermost call outwards, every
  finding leads from the layer of the call to what was found (`FindingsLead`); from
  the outermost inwards, whatever `processedInThisScan` holds has been found by then
  (`ProcessedIsFound`), so that passing over it misses nothing (`FindableIsFound`).
  The keys to be found are defined by the options, not by the list the scan makes;
  that a filtering capture gives them all away is `KeysAreLookedFor`.

About `Attestors`: its specification implements that of each of its parts
(`AttestorsImplementParts`), so all eight invariants of the run hold in the
composition (`AttestorsAreSound`).

Only model-checked: every liveness property and the fairness half of the refinement
(fairness and `ENABLED` are out of the prover's reach). Every invariant that a
passing run checks is proved.

## 5. Not modelled

`components` in `PROJECT.json` lists every part with the reason. In short:

- the connection recorder and the BPF maps of network-trace: computations on one
  connection; the BPF programs are C and generated code;
- the top-level `verify.go` and the policyverify attestor: the calls modelled by
  `Dsse` and `PolicyVerify` one after the other, and a summary;
- timestamp and the Archivista client: requests of a library; the models use their
  answers;
- git, CI and identity attestors, slsa, link, maven, lockfiles, omnitrail,
  system-packages and the like: each copies variables, one file or one answer into
  a predicate and keeps no state;
- the evaluation of rego, the comparison of lists in a certificate constraint, the
  signature algorithms, JSON (un)marshalling;
- what a traced process's system calls record besides the files it opens, the
  copying of its output, the contents of connections;
- in-toto types, logging, schema generation and the fakes of the tests.

## 6. Plan

Done: `AttestationContext`, `WitnessRun`, `ExecuteHooks`, `ExecuteStage`,
`NetworkTrace`, `PolicyVerify`, `MultiSource` over `SearchAll`, `Dsse`, the
signers (`FulcioSigner`, `KmsSigner`, `LocalSigners`, `SignerProviders`) and the
attestors of files, documents, environment, secrets and manifests
(`FileRecorder`, `ProductAttestors`, `Environment`, `SecretScan`, `K8sManifest`,
`Attestors`), with the proofs of section 4.

Next, in order:

1. `Verify`: `verify.go` and the policyverify attestor, composing `Dsse` and
   `PolicyVerify`, with an abstract specification of "accepted only with signed,
   connected evidence".
2. `MemorySource` and `CertConstraint`: indexes and the comparison of lists as
   operators checked against reference definitions.
3. The copying of output in command-run, and the connection recorder.
