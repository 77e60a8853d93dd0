----------------------------- MODULE SecretScan -----------------------------
(***************************************************************************)
(* attestation/secretscan: the post-product attestor that looks for secrets*)
(* in the other attestors and in the products, under layers of encoding.   *)
(*                                                                         *)
(* A content is the sequence of its layers, from the outside in.  A layer  *)
(* is what the scanner can tell of it: the secrets that a Gitleaks rule    *)
(* finds in it, the environment keys whose values (or, in a decoded layer, *)
(* a prefix of them) it holds, whether the allow list matches it, and the  *)
(* encoding of the next layer, if its finder and its decoder take it.      *)
(* The contents of an attestor are its JSON and, for command-run, what was *)
(* written to stdout and to stderr; each is scanned by itself.             *)
(***************************************************************************)
EXTENDS Environment, SequencesExt

CONSTANTS Corpora,      \* what there is to scan: [attestors, products]
          ScanOptions   \* the options of the attestor

defaultEncodingScanners == {"base64", "hex", "url"}

\* A layer is encoded unless it is the innermost one.
IsContent(content) ==
  /\ content \in Seq([secrets : SUBSET STRING, env : SUBSET STRING,
                      allowed : BOOLEAN, encoding : defaultEncodingScanners \cup {"none"}])
  /\ content # <<>>
  /\ \A i \in 1..Len(content) :
       content[i].encoding \in defaultEncodingScanners <=> i < Len(content)

ASSUME CorporaAssumption ==
  \A c \in Corpora : /\ \A a \in c.attestors : \A d \in a.contents : IsContent(d)
                     /\ \A p \in DOMAIN c.products : IsContent(c.products[p].content)

ASSUME ScanOptionsAssumption == \A o \in ScanOptions : o.maxDecodeLayers \in Nat

\* const maxScanRecursionDepth
maxScanRecursionDepth == 3

VARIABLES corpus,    \* what there is to scan; never changes
          scan,      \* the options; never change
          at,        \* where Attest is
          pending,   \* the products it has not come to
          passedOver, \* the sources whose scan ended with an error
          findings,  \* a.Findings
          subjects   \* a.subjects

scanVars == <<corpus, scan, at, pending, passedOver, findings, subjects>>

-----------------------------------------------------------------------------
(* scanBytes                                                               *)

\* isEnvironmentVariableSensitive over getSensitiveEnvVarsList: the default keys,
\* and those missing from what Capture() returns, none unless it filters.
SensitiveEnvVars ==
  (UNION {Matches[e] : e \in DefaultKeys})
    \cup (Variables \ DOMAIN Hide((IF options.disableDefault THEN {} ELSE DefaultKeys)
                                    \cup options.add))

\* createSecureFinding: what was found, and the encodings around it.
Found(what, path) == [what |-> what, path |-> path]

Allowed(layer) == ~ scan.configPath /\ layer.allowed

\* The secrets of a layer that processGitleaksFindings has not seen before.
Unprocessed(layer, processed) ==
  {s \in layer.secrets : <<s, "">> \notin processed}

\* ScanForEnvVarValues, which is asked for the outermost layer only.
ScanForEnvVarValues(layer, depth) ==
  IF depth = 0 THEN layer.env \cap SensitiveEnvVars ELSE {}

\* checkDecodedContentForSensitiveValues: a key is left out when it was reported
\* under the same encoding before.
DecodedValues(layer, encoding, processed) ==
  {k \in layer.env \cap SensitiveEnvVars : <<k, encoding>> \notin processed}

\* Mutant of Under: the encoding is put behind the path.
UnderLast(enc, fs) == {[f EXCEPT !.path = Append(@, enc)] : f \in fs}

\* The encoding is put in front of the path of what was found below it.
Under(enc, fs) == {[f EXCEPT !.path = Cons(enc, @)] : f \in fs}

\* Mutant of DecodesAt: the last layer that may be decoded is not.
DecodesBefore(depth) == depth + 1 < scan.maxDecodeLayers

DecodesAt(depth) == depth < scan.maxDecodeLayers

\* processedInThisScan once the secrets of a layer were taken up.
Processed(layer, processed) ==
  processed \cup {<<s, "">> : s \in Unprocessed(layer, processed)}

\* The keys whose values are found as the layer at depth is decoded.
ValuesBelow(content, depth, processed) ==
  LET layer == content[depth + 1]
  IN  DecodedValues(content[depth + 2], layer.encoding, Processed(layer, processed))

\* processedInThisScan as scanBytes is called for the layer below the one at depth.
PassedOn(content, depth, processed) ==
  LET layer == content[depth + 1]
  IN  Processed(layer, processed)
        \cup {<<k, layer.encoding>> : k \in ValuesBelow(content, depth, processed)}

\* processedInThisScan as scanBytes is called for the layer at each depth: it keeps
\* a secret from being reported for more than one layer.
processedInThisScan(content) ==
  LET processed[depth \in 0..maxScanRecursionDepth + 1] ==
        IF depth = 0 THEN {} ELSE PassedOn(content, depth - 1, processed[depth - 1])
  IN  processed

\* What a call for the layer at depth finds, below being what the recursive call does.
FindingsAt(content, depth, processed, below) ==
  LET layer == content[depth + 1]
      here == {Found(s, <<>>) : s \in Unprocessed(layer, processed)
                                        \cup ScanForEnvVarValues(layer, depth)}
      decoded == {Found(k, <<layer.encoding>>) :
                    k \in ValuesBelow(content, depth, processed)}
  IN  IF depth > maxScanRecursionDepth \/ Allowed(layer)
        THEN {}
        ELSE here \cup IF DecodesAt(depth) /\ layer.encoding \in defaultEncodingScanners
                         THEN decoded \cup Under(layer.encoding, below)
                         ELSE {}

\* The findings of the call for the layer at each depth.
scanBytes(content) ==
  LET found[depth \in 0..maxScanRecursionDepth + 1] ==
        FindingsAt(content, depth, processedInThisScan(content)[depth], found[depth + 1])
  IN  found

\* The findings in a source, with the place they are reported for.
ScanOf(place, content) ==
  {[place |-> place, what |-> f.what, path |-> f.path] :
     f \in scanBytes(content)[0]}

-----------------------------------------------------------------------------
(* Attest                                                                  *)

\* A temporary directory and the detector; either may not be had.
InitDetector ==
  /\ at = "init"
  /\ at' \in {"attestors", "error"}
  /\ UNCHANGED <<corpus, scan, pending, passedOver, findings, subjects, envVars>>

\* shouldSkipAttestor: secretscan itself and the others of its run type.
shouldSkipAttestor(a) == a.name = "secretscan" \/ a.runType = "postproduct"

\* What is scanned by itself: a content and the place it is reported for.
Source(place, content) == [place |-> place, content |-> content]

\* scanSingleAttestor, and scanCommandRunAttestor for stdout, stderr and the JSON.
AttestorSources ==
  UNION {{Source(a.name, c) : c \in a.contents} :
           a \in {a \in corpus.attestors : ~ shouldSkipAttestor(a)}}

ProductSource(p) == Source(p, corpus.products[p].content)

\* scanAttestations, over the list of completed attestors.  A source that cannot
\* be marshalled or scanned is passed over, with a line in the log.
ScanAttestations ==
  /\ at = "attestors"
  /\ at' = "products"
  /\ \E failing \in SUBSET AttestorSources :
       /\ passedOver' = failing
       /\ findings' = UNION {ScanOf(s.place, s.content) : s \in AttestorSources \ failing}
  /\ UNCHANGED <<corpus, scan, pending, subjects, envVars>>

\* Directories and binaries, by the MIME type of the product.
shouldSkipProduct(p) == corpus.products[p].type # "text"

SkipProduct(p) ==
  /\ at = "products"
  /\ p \in pending
  /\ shouldSkipProduct(p)
  /\ pending' = pending \ {p}
  /\ UNCHANGED <<corpus, scan, at, passedOver, findings, subjects, envVars>>

\* ScanFile fails: the product is passed over, too.
FailProduct(p) ==
  /\ at = "products"
  /\ p \in pending
  /\ ~ shouldSkipProduct(p)
  /\ pending' = pending \ {p}
  /\ passedOver' = passedOver \cup {ProductSource(p)}
  /\ UNCHANGED <<corpus, scan, at, findings, subjects, envVars>>

\* ScanFile; a file that exceeds the limit yields nothing, and no error.
FileFindings(p) ==
  findings \cup
    (IF corpus.products[p].big THEN {} ELSE ScanOf(p, corpus.products[p].content))

\* A product that was scanned, or was too large, becomes a subject.
ScanProduct(p) ==
  /\ at = "products"
  /\ p \in pending
  /\ ~ shouldSkipProduct(p)
  /\ pending' = pending \ {p}
  /\ findings' = FileFindings(p)
  /\ subjects' = subjects \cup {p}
  /\ UNCHANGED <<corpus, scan, at, passedOver, envVars>>

Verdict ==
  /\ at = "products"
  /\ pending = {}
  /\ at' = IF scan.failOnDetection /\ findings # {} THEN "error" ELSE "nil"
  /\ UNCHANGED <<corpus, scan, pending, passedOver, findings, subjects, envVars>>

ScanInit ==
  /\ corpus \in Corpora
  /\ scan \in ScanOptions
  /\ at = "init"
  /\ pending = DOMAIN corpus.products
  /\ passedOver = {}
  /\ findings = {}
  /\ subjects = {}

ScanNext ==
  \/ InitDetector \/ ScanAttestations \/ Verdict
  \/ \E p \in pending : SkipProduct(p) \/ FailProduct(p) \/ ScanProduct(p)

ScanSpec == ScanInit /\ [][ScanNext]_<<scanVars, options>>

-----------------------------------------------------------------------------
(* Properties                                                              *)

Sources == AttestorSources \cup {ProductSource(p) : p \in DOMAIN corpus.products}

\* The encodings around the n-th layer, outermost first.
PathTo(content, n) == [i \in 1..n - 1 |-> content[i].encoding]

\* A finding's encoding path leads to it: undoing the encodings in that order
\* uncovers a layer that holds the secret or the value (scanner.go, "outermost
\* to innermost layer").
EncodingPathsLeadToSecrets ==
  \A f \in findings : \E s \in Sources :
    /\ s.place = f.place
    /\ LET n == Len(f.path) + 1
       IN  /\ n \in DOMAIN s.content
           /\ f.path = PathTo(s.content, n)
           /\ f.what \in s.content[n].secrets \cup s.content[n].env

\* The keys whose values are to be looked for: those of the default list and
\* those the user's options declare sensitive (Environment).  A Capture that
\* obfuscates returns every key, so that the scan cannot tell which keys the user
\* added, although envscan.go:54-55 and secretscan/README.md:15, 87 and 177 say
\* that the user's configuration is respected.
KeysToFind ==
  (UNION {Matches[e] : e \in DefaultKeys})
    \cup {k \in Variables : options.filter /\ k \in Sensitive}

\* What lies under n encodings, none of them allowed, is findable.
Reachable(content, n) == \A i \in 1..n + 1 : ~ Allowed(content[i])

Findable(content) ==
  LET depths == 0..Len(content) - 1
      secretsTo == {n \in depths : n <= scan.maxDecodeLayers /\ n <= maxScanRecursionDepth}
  IN  (UNION {content[n + 1].secrets : n \in {m \in secretsTo : Reachable(content, m)}})
      \cup (UNION {content[n + 1].env \cap KeysToFind :
                     n \in {m \in secretsTo : Reachable(content, m)}})

Reported(place) == {f.what : f \in {g \in findings : g.place = place}}

\* Nothing within reach goes unreported: every secret and every value to be found
\* under at most as many encodings as may be undone is reported for the source
\* that holds it, although a layer is left out when it was seen before.  Sources
\* whose scan failed are exempt: scanner.go:250-254 and 380-384, and for the parts
\* of command-run 322-323, 334-335 and 343-350, pass them over without a trace in
\* the attestation.
NothingFindableIsMissed ==
  /\ at \notin {"init", "attestors", "error"} =>
       \A s \in AttestorSources \ passedOver : Findable(s.content) \subseteq Reported(s.place)
  /\ \A p \in DOMAIN corpus.products \ pending :
       ~ shouldSkipProduct(p) /\ ~ corpus.products[p].big
         /\ ProductSource(p) \notin passedOver =>
           Findable(corpus.products[p].content) \subseteq Reported(p)
=============================================================================
