----------------------------- MODULE LocalSigners -----------------------------
(***************************************************************************)
(* signer/file, signer/vault (PKI) and signer/spiffe build a signer from a *)
(* private key and a certificate chain they read or are handed, through    *)
(* the parsers and NewSigner of cryptoutil.  A file or a PEM string is a   *)
(* record of what the parsers tell apart: its kind, how it is encrypted    *)
(* and under which passphrase.                                             *)
(***************************************************************************)
EXTENDS Naturals, Sequences, SequencesExt

CONSTANTS PemFiles,    \* the PEM texts keys and certificates may be
          Passphrases  \* passphrases, the empty one included

VARIABLES lpc, \* where the call of Signer is
          lin, \* the provider's fields and what it is handed
          lresult

localVars == <<lpc, lin, lresult>>

Pem(kind, enc, pass) == [kind |-> kind, enc |-> enc, pass |-> pass]
NoPem == Pem("absent", "none", "")
NoPass == "nil"

NoLocalSigner == [status |-> "none", key |-> "", cert |-> NoPem, intermediates |-> <<>>]
LocalError == [NoLocalSigner EXCEPT !.status = "error"]

\* The options of the file signer: paths, and an optional passphrase.
FileOptions == [provider |-> "file", key |-> NoPem, cert |-> NoPem, chain |-> <<>>,
                passphrase |-> NoPass, passFile |-> NoPass, env |-> NoPass,
                opt |-> <<>>, reply |-> "ok"]

\* The options of the Vault PKI signer, and of the SPIFFE signer.
PkiOptions == [url |-> "", path |-> "pki", token |-> "", namespace |-> "", role |-> "",
               commonName |-> "", altNames |-> <<>>, ttl |-> 0]
SpiffeOptions == [socketPath |-> ""]

PkiProviders == {[PkiOptions EXCEPT !.url = u, !.token = t, !.role = r] :
                   u, t, r \in {"", "set"}}
SpiffeProviders == {[SpiffeOptions EXCEPT !.socketPath = p] : p \in {"", "set"}}

LocalInit == lpc = "idle" /\ lin = FileOptions /\ lresult = NoLocalSigner

-----------------------------------------------------------------------------
(* cryptoutil                                                              *)

PrivateKinds == {"rsa", "ecdsa", "ed25519"}

\* TryParseKeyFromReaderWithPassword: an encrypted text needs its passphrase; a
\* passphrase given for a text that is not encrypted is not used.  An empty
\* passphrase is a passphrase.
ParsedKind(f, password) ==
  IF f.kind \in {"absent", "garbage"} THEN "error"
  ELSE IF f.enc = "none" \/ password = f.pass THEN f.kind ELSE "error"

TryParseCertificate(f) == ParsedKind(f, NoPass) = "certificate"

NewX509Signer(kind, cert, chain) ==
  [status |-> "signer", key |-> kind, cert |-> cert, intermediates |-> chain]

\* NewSigner: the certificate makes it an X.509 signer, and without one the
\* intermediates are dropped.
NewSigner(kind, cert, chain) ==
  IF kind \notin PrivateKinds THEN LocalError
  ELSE IF cert = NoPem THEN [NoLocalSigner EXCEPT !.status = "signer", !.key = kind]
  ELSE NewX509Signer(kind, cert, chain)

-----------------------------------------------------------------------------
(* The providers                                                           *)

\* Mutant of Passphrase: the environment comes first.
EnvironmentFirst(o) ==
  IF o.env # NoPass THEN o.env
  ELSE IF o.passphrase # NoPass THEN o.passphrase ELSE o.passFile

\* Explicit passphrase, then the file, then WITNESS_KEY_PASSPHRASE.
Passphrase(o) ==
  IF o.passphrase # NoPass THEN o.passphrase
  ELSE IF o.passFile # NoPass THEN o.passFile ELSE o.env

\* The file exists, parses and is a certificate.
loadCert(f) == f.kind # "absent" /\ TryParseCertificate(f)

\* FileSignerProvider.Signer: "lines" is a passphrase file of several lines.
FileSigner(o) ==
  IF o.key.kind = "absent" \/ (o.passphrase = NoPass /\ o.passFile = "lines") THEN LocalError
  ELSE LET kind == ParsedKind(o.key, Passphrase(o))
       IN  IF \/ kind = "error"
              \/ (o.cert # NoPem /\ ~loadCert(o.cert))
              \/ \E i \in DOMAIN o.chain : ~loadCert(o.chain[i])
             THEN LocalError
             ELSE NewSigner(kind, o.cert, o.chain)

\* The request may fail, the status may not be 200, the body may not be JSON.
requestCertificate(o) == o.reply = "ok"

\* VaultSignerProvider.Signer: url, token and role are required, the answer
\* holds the key, the certificate and its chain.
VaultSigner(o) ==
  IF \/ "" \in {o.opt.url, o.opt.token, o.opt.role}
     \/ ~requestCertificate(o)
     \/ ~TryParseCertificate(o.cert)
     \/ \E i \in DOMAIN o.chain : ~TryParseCertificate(o.chain[i])
     \/ ParsedKind(o.key, NoPass) = "error"
    THEN LocalError
    ELSE NewSigner(ParsedKind(o.key, NoPass), o.cert, o.chain)

\* SpiffeSignerProvider.Signer: the default SVID has a certificate and a key.
SpiffeSigner(o) ==
  IF o.opt.socketPath = "" \/ o.reply # "ok" \/ o.cert = NoPem \/ o.key = NoPem THEN LocalError
  ELSE NewSigner(o.key.kind, o.cert, o.chain)

\* The key and the certificates a provider may find or be handed.
LocalInputs(p) ==
  [provider : {p}, key : PemFiles \cup {NoPem},
   cert : {f \in PemFiles : f.enc = "none"} \cup {NoPem},
   chain : SeqOf({f \in PemFiles : f.kind \in {"certificate", "garbage"}}, 1),
   passphrase : {NoPass}, passFile : {NoPass}, env : {NoPass},
   opt : CASE p = "file" -> {<<>>} [] p = "vault" -> PkiProviders [] p = "spiffe" -> SpiffeProviders,
   reply : {"ok"} \cup (IF p = "file" THEN {} ELSE {"failed"})]

PassphraseInputs ==
  [provider : {"file"}, key : PemFiles, cert : {NoPem}, chain : {<<>>},
   passphrase : Passphrases \cup {NoPass},
   passFile : Passphrases \cup {NoPass, "lines"},
   env : Passphrases \cup {NoPass}, opt : {<<>>}, reply : {"ok"}]

LocalStart ==
  /\ lpc = "idle"
  /\ \/ \E p \in {"file", "vault", "spiffe"} : lin' \in LocalInputs(p)
     \/ lin' \in PassphraseInputs
  /\ lpc' = "call"
  /\ UNCHANGED lresult

LocalSigner ==
  /\ lpc = "call"
  /\ lresult' = CASE lin.provider = "file"   -> FileSigner(lin)
                  [] lin.provider = "vault"  -> VaultSigner(lin)
                  [] lin.provider = "spiffe" -> SpiffeSigner(lin)
  /\ lpc' = "done"
  /\ UNCHANGED lin

LocalNext == LocalStart \/ LocalSigner

-----------------------------------------------------------------------------
(* Properties                                                              *)

\* A signer holds exactly what was configured: the key is decrypted with the
\* passphrase of the strongest source that is set, never with a weaker one, and
\* a configured certificate and its chain are kept in order.
LocalSignerIsAsConfigured ==
  lresult.status = "signer" =>
    /\ lresult.key = lin.key.kind
    /\ lin.key.enc # "none" =>
         /\ lin.passphrase # NoPass => lin.passphrase = lin.key.pass
         /\ lin.passphrase = NoPass /\ lin.passFile # NoPass => lin.passFile = lin.key.pass
    /\ lresult.cert = lin.cert
    /\ lin.cert # NoPem => lresult.intermediates = lin.chain
=============================================================================
