-------------------------- MODULE ProductAttestors --------------------------
(***************************************************************************)
(* The post-product attestors that look for a document of their kind among *)
(* ctx.Products(): sarif, vex, sbom, docker and oci.  Each goes through    *)
(* the products in the order of a map, that is in any order, and reads the *)
(* file again, in one or several steps, while a process that the command   *)
(* left behind may still be writing.                                       *)
(***************************************************************************)
EXTENDS FileRecorder

CONSTANTS PostAttestors,  \* the attestors of the instance
          PostTrees,      \* the trees on which they are run
          Readings        \* what the contents may be to an attestor

\* wanted: the contents of a MIME type the attestor accepts; parses: those that
\* it can unmarshal (for docker, and that name an image by its digest); partial:
\* those of another shape, which json.Unmarshal turns down after it has set some
\* fields.
ASSUME ReadingsAssumption ==
  Readings \subseteq [wanted : SUBSET Content, parses : SUBSET Content,
                      partial : SUBSET Content]

ASSUME PostAttestorsAssumption ==
  PostAttestors \subseteq {"sarif", "vex", "sbom", "docker", "oci"}

VARIABLES attestor,  \* the attestor that runs, or None
          reading,   \* what the contents are to it
          inWorkdir, \* the process runs in ctx.WorkingDir()
          pc,        \* where Attest is
          left,      \* the products it has not looked at
          candidate, \* the product it is looking at
          fresh,     \* no write since the digest check, or since the products
          parts,     \* the contents that the document was read from
          claim      \* the digest it is reported with

attVars == <<attestor, reading, inWorkdir, pc, left, candidate, fresh, parts, claim>>
postVars == <<recVars, attVars>>

None == "none"

\* The loop of getCandidate over the products: whether it passes over those of
\* another MIME type; whether it compares the file's digest with the product's
\* (those that do name the file by its path alone, the others join it with the
\* working directory); where it goes from a document that does not parse, and
\* from one that does.  sarif and vex unmarshal into the report itself and keep
\* the fields that a failed attempt has set.
Loop(filters, checks, bad, good) ==
  [filters |-> filters, checks |-> checks, bad |-> bad, good |-> good,
   keeps |-> good = "ok" /\ bad = "pick"]

\* The continue of its test on the MIME type is the one of the inner loop.
sarif == Loop(FALSE, TRUE, "pick", "ok")
vex == Loop(FALSE, TRUE, "pick", "ok")
sbom == Loop(TRUE, FALSE, "error", "ok")
docker == Loop(TRUE, FALSE, "pick", "pick")
oci == Loop(TRUE, TRUE, "error", "image")

LoopOf == [sarif |-> sarif, vex |-> vex, sbom |-> sbom, docker |-> docker, oci |-> oci]

Filters == LoopOf[attestor].filters
Checks == LoopOf[attestor].checks

-----------------------------------------------------------------------------

\* The file that the attestor opens for product p, now.
Opened(p) ==
  IF Checks /\ ~ inWorkdir THEN Absent
  ELSE Lookup(tree, WorkingDir \o p)

\* getFileContentType: the MIME type is told from what a file holds.
IsWanted(c) == c \in reading.wanted

\* fromDigestMap; the MIME type of a directory is none that is looked for.
HasWantedType(p) ==
  \E c \in Content : IsWanted(c) /\ products[p] = CalculateDigestSet(c)

Looking(at) == stage = "post" /\ attestor # None /\ pc = at

Stay == UNCHANGED <<recVars, attestor, reading, inWorkdir>>

\* getCandidate: no products to attest, or the loop begins.
Begin ==
  /\ Looking("idle")
  /\ pc' = IF products = Nothing THEN "error" ELSE "pick"
  /\ left' = DOMAIN products
  /\ UNCHANGED <<candidate, fresh, parts, claim>>
  /\ Stay

\* The loop ends without a document, or, for docker, with those it found, which
\* setDockerCandidate keeps when they name an image by its digest.
Exhausted ==
  /\ Looking("pick")
  /\ left = {}
  /\ pc' = IF attestor = "docker" /\ parts # {} THEN "ok" ELSE "error"
  /\ UNCHANGED <<left, candidate, fresh, parts, claim>>
  /\ Stay

Skip(p) ==
  /\ Looking("pick")
  /\ p \in left
  /\ Filters
  /\ ~ HasWantedType(p)
  /\ left' = left \ {p}
  /\ UNCHANGED <<pc, candidate, fresh, parts, claim>>
  /\ Stay

\* Mutant of DigestHolds: any file that can be hashed will do.
DigestHoldsIfThere(p) == Opened(p).kind = "file"

\* CalculateDigestSetFromFile(path).Equal(product.Digest).
DigestHolds(p) ==
  /\ Opened(p).kind = "file"
  /\ Equal(CalculateDigestSet(Opened(p).content), products[p])

\* A candidate; the check of its digest decides whether it is looked into.
Take(p) ==
  /\ Looking("pick")
  /\ p \in left
  /\ Filters => HasWantedType(p)
  /\ left' = left \ {p}
  /\ IF Checks /\ ~ DigestHolds(p)
       THEN pc' = "error" /\ UNCHANGED <<candidate, fresh, claim>>
       ELSE /\ pc' = "open"
            /\ candidate' = p
            /\ fresh' = (fresh \/ Checks)
            /\ claim' = products[p]
  /\ UNCHANGED parts
  /\ Stay

\* os.Open, io.ReadAll and json.Unmarshal; for oci, parseMaifest.
Open ==
  /\ Looking("open")
  /\ LET node == Opened(candidate)
     IN  IF node.kind # "file"
           THEN pc' = "error" /\ UNCHANGED parts
           ELSE IF node.content \in reading.parses
           THEN /\ pc' = LoopOf[attestor].good
                /\ parts' = parts \cup {node.content}
           ELSE /\ pc' = LoopOf[attestor].bad
                /\ parts' = parts \cup (IF LoopOf[attestor].keeps
                                          THEN {node.content} \cap reading.partial
                                          ELSE {})
  /\ UNCHANGED <<left, candidate, fresh, claim>>
  /\ Stay

\* getImageID and getLayerDIFFIDs open the tar file again.
ReadTar(from, to) ==
  /\ Looking(from)
  /\ LET node == Opened(candidate)
     IN  IF node.kind = "file" /\ node.content \in reading.parses
           THEN pc' = to /\ parts' = parts \cup {node.content}
           ELSE pc' = "error" /\ UNCHANGED parts
  /\ UNCHANGED <<left, candidate, fresh, claim>>
  /\ Stay

ReadImage == ReadTar("image", "layers")
ReadLayers == ReadTar("layers", "ok")

Attest ==
  \/ Begin \/ Exhausted \/ Open \/ ReadImage \/ ReadLayers
  \/ \E p \in DOMAIN products : Skip(p) \/ Take(p)

\* A step of the recorder, or of the command and what it left behind.
Recording ==
  /\ RecorderNext
  /\ stage = "post" => attestor # None
  /\ fresh' = (tree' = tree /\ (fresh \/ stage' # stage))
  /\ UNCHANGED <<attestor, reading, inWorkdir, pc, left, candidate, parts, claim>>

PostInit ==
  /\ RecorderInit
  /\ attestor \in PostAttestors \cup {None}
  /\ IF attestor = None
       THEN reading = [wanted |-> {}, parses |-> {}, partial |-> {}] /\ inWorkdir = TRUE
       ELSE /\ tree \in PostTrees
            /\ dirHashGlob = {}
            /\ ~ tracing
            /\ reading \in Readings
            /\ inWorkdir \in BOOLEAN
  /\ pc = "idle"
  /\ left = {}
  /\ candidate = <<>>
  /\ fresh = TRUE
  /\ parts = {}
  /\ claim = Nothing

PostNext == Recording \/ Attest

PostSpec == PostInit /\ [][PostNext]_postVars

-----------------------------------------------------------------------------
(* Properties                                                              *)

\* A report and the digest it is published with belong together: a successful
\* sarif, vex or oci attestor read what it reports from a file with the digest
\* it claims, unless the file was written after the digest was checked, even if
\* it was written between the product and the post-product stage; an sbom, which
\* is not checked, unless it was written after the products.  The one exception
\* are fields that an earlier product of another shape left in the report.
ReportMatchesItsDigest ==
  pc = "ok" /\ fresh /\ attestor # "docker" =>
    \A c \in parts \ reading.partial : CalculateDigestSet(c) = claim
=============================================================================
