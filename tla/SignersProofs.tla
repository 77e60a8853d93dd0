----------------------------- MODULE SignersProofs -----------------------------
(***************************************************************************)
(* Proofs about the signer providers, for every set of URLs, tokens,       *)
(* chains, PEM files and messages and every number of key versions: a      *)
(* request for a certificate is repeated for cause and asks for the        *)
(* configured identity, a pinned key version is the one that signs, and a  *)
(* signer read from files is the one configured.                           *)
(*                                                                         *)
(* Each provider has an invariant over its own variables; the registry     *)
(* runs one of them and leaves the others alone.                           *)
(***************************************************************************)
EXTENDS SignerProviders, TLAPS

-----------------------------------------------------------------------------
(* Fulcio                                                                  *)

Reply == ReplyErrors \cup {"ok", "transport", "status", "body"}
Fetch == {"failed", "http11Failed", "ok", "http11Ok"}

\* A request after the context has ended is the last one: the loop looks at the
\* context before it sends another.
RequestsInv ==
  /\ fpc \in {"idle", "token", "fetch", "client", "send", "retry", "http",
              "chain", "done"}
  /\ ctx \in {"live", "cancelled", "expired"}
  /\ replies \in Seq(Reply)
  /\ late \in {0, 1}
  /\ fpc \notin {"retry", "chain", "done"} \/ ctx = "live" => late = 0
  /\ fpc \in {"idle", "token", "fetch", "client", "http"} => replies = <<>>
  /\ fpc \in {"send", "retry"} =>
       /\ Len(replies) < maxRetries
       /\ ~ fopt.useHTTP
       /\ \A i \in 1..Len(replies) : IsRetryable(replies[i])
  /\ RetriesAreJustified

\* Where the token came from, from the moment there is one.
TokenIsConfigured ==
  /\ fopt.token # "" => raw = fopt.token /\ fopt.tokenPath = ""
  /\ fopt.tokenPath # "" => fetches = <<>> /\ fopt.tokenPath # "missing"
  /\ fetches # <<>> => /\ fopt.token = "" /\ fopt.tokenPath = ""
                       /\ Last(fetches) \in {"ok", "http11Ok"}

IdentityInv ==
  /\ fetches \in Seq(Fetch)
  /\ fpc \in {"idle", "token"} => fetches = <<>>
  /\ fpc = "fetch" => fopt.token = "" /\ fopt.tokenPath = ""
  /\ fpc \in {"client", "send", "retry", "http", "chain"} \/ replies # <<>> =>
       TokenIsConfigured
  /\ fpc \in {"send", "retry", "http", "chain"} \/ replies # <<>> =>
       TokenHasSubject(raw)

FInv == RequestsInv /\ IdentityInv

LEMMA FulcioInitially == FulcioInit => FInv
<1> SUFFICES ASSUME FulcioInit PROVE FInv
  OBVIOUS
<1>1. /\ fpc = "idle" /\ replies = <<>> /\ fetches = <<>> /\ late = 0
      /\ ctx = "live"
  BY DEF FulcioInit
<1>2. /\ replies \in Seq(Reply) /\ Len(replies) = 0 /\ fetches \in Seq(Fetch)
  BY <1>1
<1>3. RetriesAreJustified
  BY <1>1, <1>2 DEF RetriesAreJustified, maxRetries
<1> QED
  BY <1>1, <1>2, <1>3 DEF FInv, RequestsInv, IdentityInv

\* One more request, of a loop that may still send one.
LEMMA AnotherReply ==
  ASSUME RequestsInv, NEW r \in Reply, replies' = Append(replies, r),
         Len(replies) < maxRetries,
         \A i \in 1..Len(replies) : IsRetryable(replies[i])
  PROVE  /\ replies' \in Seq(Reply) /\ replies' # <<>>
         /\ Len(replies) \in Nat /\ Len(replies') = Len(replies) + 1
         /\ Len(replies') <= maxRetries
         /\ \A i \in 1..(Len(replies') - 1) :
              replies'[i] \in {"Unavailable", "DeadlineExceeded", "plain"}
         /\ IsRetryable(r) => \A i \in 1..Len(replies') : IsRetryable(replies'[i])
<1>1. replies \in Seq(Reply) /\ Len(replies) \in Nat
  BY DEF RequestsInv
<1>2. /\ replies' \in Seq(Reply) /\ Len(replies') = Len(replies) + 1
      /\ \A i \in 1..Len(replies) : replies'[i] = replies[i]
      /\ replies'[Len(replies) + 1] = r
  BY <1>1
<1>3. Len(replies') <= maxRetries
  BY <1>1, <1>2 DEF maxRetries
<1>4. replies' # <<>>
  BY <1>1, <1>2
<1>5. /\ \A i \in 1..(Len(replies') - 1) : i \in 1..Len(replies)
      /\ \A i \in 1..Len(replies') : i \in 1..Len(replies) \/ i = Len(replies) + 1
  BY <1>1, <1>2
<1>6. \A i \in 1..(Len(replies') - 1) :
        replies'[i] \in {"Unavailable", "DeadlineExceeded", "plain"}
  BY <1>2, <1>5 DEF IsRetryable
<1>7. IsRetryable(r) => \A i \in 1..Len(replies') : IsRetryable(replies'[i])
  BY <1>2, <1>5
<1> QED
  BY <1>1, <1>2, <1>3, <1>4, <1>6, <1>7

\* The loop of getCert and the one request of getCertHTTP.
LEMMA RequestsStep == RequestsInv /\ (FulcioNext \/ UNCHANGED fulcioVars) => RequestsInv'
<1> SUFFICES ASSUME RequestsInv, FulcioNext \/ UNCHANGED fulcioVars
             PROVE  RequestsInv'
  OBVIOUS
<1>1. CASE FulcioStart
  BY <1>1 DEF FulcioStart, RequestsInv, RetriesAreJustified, maxRetries
<1>2. CASE FindToken
  BY <1>2 DEF FindToken, FulcioFail, RequestsInv, RetriesAreJustified
<1>3. CASE FetchToken
  BY <1>3 DEF FetchToken, FulcioFail, RequestsInv, RetriesAreJustified
<1>4. CASE PrepareRequest
  <2>1. /\ fpc = "client" /\ replies = <<>> /\ late = 0
        /\ UNCHANGED <<fopt, ctx, replies, late>>
        /\ fpc' \in {"http", "send", "done"}
        /\ fpc' = "send" => ~ fopt.useHTTP
    BY <1>4 DEF PrepareRequest, FulcioFail, RequestsInv
  <2>2. Len(replies) = 0
    BY <2>1
  <2> QED
    BY <2>1, <2>2 DEF RequestsInv, RetriesAreJustified, maxRetries
<1>5. CASE SendRequest
  <2>1. /\ fpc = "send" /\ late = 0 /\ ~ fopt.useHTTP
        /\ UNCHANGED <<fopt, ctx>>
        /\ Len(replies) < maxRetries
        /\ \A i \in 1..Len(replies) : IsRetryable(replies[i])
        /\ late' = IF ctx = "live" THEN 0 ELSE late + 1
    BY <1>5 DEF SendRequest, RequestsInv
  <2>2. PICK r \in PossibleReplies :
          /\ replies' = Append(replies, r)
          /\ \/ r = "ok" /\ fpc' = "chain"
             \/ /\ IsRetryable(r) /\ Len(replies') < maxRetries
                /\ fpc' = "retry"
             \/ fpc' = "done"
    BY <1>5 DEF SendRequest, FulcioFail
  <2>3. r \in Reply
    BY DEF RequestsInv, PossibleReplies, Reply, ReplyErrors
  <2>4. /\ replies' \in Seq(Reply) /\ replies' # <<>>
        /\ Len(replies') <= maxRetries
        /\ \A i \in 1..(Len(replies') - 1) :
             replies'[i] \in {"Unavailable", "DeadlineExceeded", "plain"}
        /\ IsRetryable(r) => \A i \in 1..Len(replies') : IsRetryable(replies'[i])
    BY <2>1, <2>2, <2>3, AnotherReply
  <2>5. late' \in {0, 1} /\ (ctx' = "live" => late' = 0)
    BY <2>1
  <2>6. RetriesAreJustified'
    BY <2>1, <2>4, <2>5 DEF RetriesAreJustified
  <2> QED
    BY <2>1, <2>2, <2>4, <2>5, <2>6 DEF RequestsInv
<1>6. CASE BeforeBackoff
  BY <1>6 DEF BeforeBackoff, FulcioFail, RequestsInv, RetriesAreJustified
<1>7. CASE SendHTTP
  <2>1. /\ fpc = "http" /\ late = 0 /\ replies = <<>>
        /\ UNCHANGED <<fopt, ctx>> /\ fpc' \in {"chain", "done"}
        /\ late' = IF ctx = "live" THEN 0 ELSE late + 1
    BY <1>7 DEF SendHTTP, FulcioFail, RequestsInv
  <2>2. PICK r \in {"ok", "transport", "status", "body"} :
          replies' = Append(replies, r)
    BY <1>7 DEF SendHTTP
  <2>3. /\ replies' \in Seq(Reply) /\ Len(replies') = 1
    BY <2>1, <2>2 DEF Reply
  <2>4. late' \in {0, 1} /\ (ctx' = "live" => late' = 0)
    BY <2>1
  <2>5. \A i \in 1..(Len(replies') - 1) : FALSE
    BY <2>3
  <2>6. Len(replies') <= maxRetries
    BY <2>3 DEF maxRetries
  <2>7. RetriesAreJustified'
    BY <2>3, <2>4, <2>5, <2>6 DEF RetriesAreJustified
  <2> QED
    BY <2>1, <2>3, <2>4, <2>7 DEF RequestsInv
<1>8. CASE ReadChain
  BY <1>8 DEF ReadChain, RequestsInv, RetriesAreJustified
<1>9. CASE EndContext
  BY <1>9 DEF EndContext, RequestsInv, RetriesAreJustified
<1>10. CASE UNCHANGED fulcioVars
  BY <1>10 DEF fulcioVars, RequestsInv, RetriesAreJustified
<1> QED
  BY <1>1, <1>2, <1>3, <1>4, <1>5, <1>6, <1>7, <1>8, <1>9, <1>10
     DEF FulcioNext, FulcioStep

\* What the switch over the token sources has found out.
LEMMA SourceFacts ==
  LET src == TokenSource(fopt, fenv)
  IN  /\ src = "token" => fopt.token # "" /\ fopt.tokenPath = ""
      /\ src = "path" => fopt.token = "" /\ fopt.tokenPath # ""
      /\ src \in {"github", "terminal"} => fopt.token = "" /\ fopt.tokenPath = ""
<1>1. CASE fopt.token = "" /\ fopt.tokenPath = ""
  BY <1>1 DEF TokenSource
<1>2. CASE fopt.token # "" /\ fopt.tokenPath = ""
  BY <1>2 DEF TokenSource
<1>3. CASE fopt.token = "" /\ fopt.tokenPath # ""
  BY <1>3 DEF TokenSource
<1>4. CASE fopt.token # "" /\ fopt.tokenPath # ""
  BY <1>4 DEF TokenSource
<1> QED
  BY <1>1, <1>2, <1>3, <1>4

\* The token, from its source to the request.
LEMMA IdentityStep ==
  FInv /\ (FulcioNext \/ UNCHANGED fulcioVars) => IdentityInv'
<1> SUFFICES ASSUME FInv, FulcioNext \/ UNCHANGED fulcioVars
             PROVE  IdentityInv'
  OBVIOUS
<1>0. RequestsInv /\ IdentityInv
  BY DEF FInv
<1>1. CASE FulcioStart
  BY <1>0, <1>1 DEF FulcioStart, IdentityInv, RequestsInv
<1>2. CASE FindToken
  <2>1. /\ fpc = "token" /\ fetches = <<>> /\ replies = <<>>
        /\ UNCHANGED <<fopt, fetches, replies>>
    BY <1>0, <1>2 DEF FindToken, IdentityInv, RequestsInv
  <2>2. CASE fpc' = "fetch"
    <3>1. TokenSource(fopt, fenv) = "github"
      BY <1>2, <2>2 DEF FindToken, FulcioFail
    <3>2. fopt.token = "" /\ fopt.tokenPath = ""
      BY <3>1, SourceFacts
    <3> QED
      BY <1>0, <2>1, <2>2, <3>2 DEF IdentityInv
  <2>3. CASE fpc' = "client"
    <3>1. \/ TokenSource(fopt, fenv) = "token" /\ raw' = fopt.token
          \/ TokenSource(fopt, fenv) = "terminal"
          \/ TokenSource(fopt, fenv) = "path" /\ fopt.tokenPath = "file"
      BY <1>2, <2>3 DEF FindToken, FulcioFail
    <3>2. TokenIsConfigured'
      BY <2>1, <3>1, SourceFacts DEF TokenIsConfigured
    <3> QED
      BY <1>0, <2>1, <2>3, <3>2 DEF IdentityInv
  <2>4. CASE fpc' = "done"
    BY <1>0, <2>1, <2>4 DEF IdentityInv
  <2> QED
    BY <1>2, <2>2, <2>3, <2>4 DEF FindToken, FulcioFail
<1>3. CASE FetchToken
  <2>1. /\ fpc = "fetch" /\ replies = <<>>
        /\ fopt.token = "" /\ fopt.tokenPath = ""
        /\ UNCHANGED <<fopt, replies>>
        /\ fetches \in Seq(Fetch)
    BY <1>0, <1>3 DEF FetchToken, IdentityInv, RequestsInv
  <2>2. PICK r \in Fetch :
          /\ fetches' = Append(fetches, r)
          /\ \/ r \in {"ok", "http11Ok"} /\ fpc' = "client"
             \/ fpc' \in {"done", "fetch"}
    BY <1>3, <2>1 DEF FetchToken, FulcioFail, Fetch
  <2>0. fetches \in Seq(Fetch) /\ fetches' = Append(fetches, r)
    BY <2>1, <2>2, Zenon
  <2>a. /\ fetches' \in Seq(Fetch) /\ Len(fetches') = Len(fetches) + 1
        /\ fetches'[Len(fetches) + 1] = r
    BY <2>0
  <2>3. /\ fetches' \in Seq(Fetch) /\ Last(fetches') = r
    BY <2>a DEF Last
  <2>4. fpc' = "client" => TokenIsConfigured'
    BY <2>1, <2>2, <2>3 DEF TokenIsConfigured
  <2> QED
    BY <2>1, <2>2, <2>3, <2>4 DEF IdentityInv
<1>4. CASE PrepareRequest
  BY <1>0, <1>4 DEF PrepareRequest, FulcioFail, IdentityInv, RequestsInv,
     TokenIsConfigured, TokenHasSubject
<1>5. CASE SendRequest \/ SendHTTP \/ BeforeBackoff \/ ReadChain
  <2>1. /\ fpc \in {"send", "http", "retry", "chain"}
        /\ UNCHANGED <<fopt, raw, fetches>>
        /\ fpc' \in {"send", "chain", "retry", "done"}
    BY <1>5 DEF SendRequest, SendHTTP, BeforeBackoff, ReadChain, FulcioFail
  <2> QED
    BY <1>0, <2>1 DEF IdentityInv, TokenIsConfigured, TokenHasSubject
<1>6. CASE EndContext \/ UNCHANGED fulcioVars
  <2>1. UNCHANGED <<fpc, fopt, raw, fetches, replies>>
    BY <1>6 DEF EndContext, fulcioVars
  <2> QED
    BY <1>0, <2>1 DEF IdentityInv, TokenIsConfigured, TokenHasSubject
<1> QED
  BY <1>1, <1>2, <1>3, <1>4, <1>5, <1>6 DEF FulcioNext, FulcioStep

-----------------------------------------------------------------------------
(* The signers from files, from Vault's PKI and from SPIFFE                *)

\* Only the file signer has a passphrase.
InputIsKnown ==
  /\ lin.provider \in {"file", "vault", "spiffe"}
  /\ lin.provider # "file" => lin.passphrase = NoPass /\ lin.passFile = NoPass

LInv ==
  /\ lpc \in {"idle", "call", "done"}
  /\ lpc # "done" => lresult = NoLocalSigner
  /\ lpc = "call" => InputIsKnown
  /\ LocalSignerIsAsConfigured

\* Parsing tells the kind, and needs the passphrase of an encrypted text.
LEMMA ParseFacts ==
  ASSUME NEW f, NEW pw, ParsedKind(f, pw) # "error"
  PROVE  ParsedKind(f, pw) = f.kind /\ (f.enc # "none" => pw = f.pass)
BY DEF ParsedKind

\* NewSigner keeps what it is handed.
LEMMA NewSignerFacts ==
  ASSUME NEW k, NEW cert, NEW chain, NewSigner(k, cert, chain).status = "signer"
  PROVE  /\ NewSigner(k, cert, chain).key = k
         /\ NewSigner(k, cert, chain).cert = cert
         /\ cert # NoPem => NewSigner(k, cert, chain).intermediates = chain
<1>1. LocalError.status = "error"
  BY DEF LocalError, NoLocalSigner
<1>2. CASE k \notin PrivateKinds
  BY <1>1, <1>2 DEF NewSigner
<1>3. CASE k \in PrivateKinds /\ cert = NoPem
  BY <1>3 DEF NewSigner, NoLocalSigner
<1>4. CASE k \in PrivateKinds /\ cert # NoPem
  BY <1>4 DEF NewSigner, NewX509Signer
<1> QED
  BY <1>2, <1>3, <1>4

\* The three constructors, each from its own inputs.
LEMMA ConstructorFacts ==
  ASSUME InputIsKnown, LocalSigner
  PROVE  LocalSignerIsAsConfigured'
<1> SUFFICES ASSUME lresult'.status = "signer"
             PROVE  /\ lresult'.key = lin.key.kind
                    /\ lin.key.enc # "none" =>
                         /\ lin.passphrase # NoPass => lin.passphrase = lin.key.pass
                         /\ lin.passphrase = NoPass /\ lin.passFile # NoPass =>
                              lin.passFile = lin.key.pass
                    /\ lresult'.cert = lin.cert
                    /\ lin.cert # NoPem => lresult'.intermediates = lin.chain
  BY DEF LocalSigner, LocalSignerIsAsConfigured
<1>0. LocalError.status # "signer"
  BY DEF LocalError, NoLocalSigner
<1>1. CASE lin.provider = "file"
  <2> DEFINE kind == ParsedKind(lin.key, Passphrase(lin))
  <2>1. lresult' = FileSigner(lin)
    BY <1>1 DEF LocalSigner
  <2>2. /\ kind # "error"
        /\ lresult' = NewSigner(kind, lin.cert, lin.chain)
    BY <1>0, <2>1 DEF FileSigner
  <2>3. kind = lin.key.kind /\ (lin.key.enc # "none" => Passphrase(lin) = lin.key.pass)
    BY <2>2, ParseFacts
  <2> HIDE DEF kind
  <2>4. /\ lresult'.key = kind /\ lresult'.cert = lin.cert
        /\ lin.cert # NoPem => lresult'.intermediates = lin.chain
    BY <2>2, NewSignerFacts
  <2> QED
    BY <2>3, <2>4 DEF Passphrase
<1>2. CASE lin.provider = "vault"
  <2> DEFINE kind == ParsedKind(lin.key, NoPass)
  <2>1. lresult' = VaultSigner(lin)
    BY <1>2 DEF LocalSigner
  <2>2. /\ kind # "error"
        /\ lresult' = NewSigner(kind, lin.cert, lin.chain)
    BY <1>0, <2>1 DEF VaultSigner
  <2>3. kind = lin.key.kind
    BY <2>2, ParseFacts
  <2> HIDE DEF kind
  <2>4. /\ lresult'.key = kind /\ lresult'.cert = lin.cert
        /\ lin.cert # NoPem => lresult'.intermediates = lin.chain
    BY <2>2, NewSignerFacts
  <2> QED
    BY <1>2, <2>3, <2>4 DEF InputIsKnown
<1>3. CASE lin.provider = "spiffe"
  <2>1. lresult' = SpiffeSigner(lin)
    BY <1>3 DEF LocalSigner
  <2>2. lresult' = NewSigner(lin.key.kind, lin.cert, lin.chain)
    BY <1>0, <2>1 DEF SpiffeSigner
  <2>3. /\ lresult'.key = lin.key.kind /\ lresult'.cert = lin.cert
        /\ lin.cert # NoPem => lresult'.intermediates = lin.chain
    BY <2>2, NewSignerFacts
  <2> QED
    BY <1>3, <2>3 DEF InputIsKnown
<1> QED
  BY <1>1, <1>2, <1>3 DEF InputIsKnown

LEMMA LocalInitially == LocalInit => LInv
<1>1. NoLocalSigner.status # "signer"
  BY DEF NoLocalSigner
<1>2. LocalInit => LocalSignerIsAsConfigured
  BY <1>1 DEF LocalInit, LocalSignerIsAsConfigured
<1> QED
  BY <1>2 DEF LocalInit, LInv

LEMMA LocalStep == LInv /\ (LocalNext \/ UNCHANGED localVars) => LInv'
<1> SUFFICES ASSUME LInv, LocalNext \/ UNCHANGED localVars PROVE LInv'
  OBVIOUS
<1>1. CASE LocalStart
  <2>1. lresult' = NoLocalSigner /\ lpc' = "call"
    BY <1>1 DEF LocalStart, LInv
  <2>2. LocalSignerIsAsConfigured'
    BY <2>1 DEF LocalSignerIsAsConfigured, NoLocalSigner
  <2>3. CASE \E p \in {"file", "vault", "spiffe"} : lin' \in LocalInputs(p)
    <3>1. PICK p \in {"file", "vault", "spiffe"} : lin' \in LocalInputs(p)
      BY <2>3
    <3>2. lin'.provider = p /\ lin'.passphrase = NoPass /\ lin'.passFile = NoPass
      BY <3>1 DEF LocalInputs
    <3> QED
      BY <2>1, <2>2, <3>2 DEF LInv, InputIsKnown
  <2>4. CASE lin' \in PassphraseInputs
    <3>1. lin'.provider = "file"
      BY <2>4 DEF PassphraseInputs
    <3> QED
      BY <2>1, <2>2, <3>1 DEF LInv, InputIsKnown
  <2> QED
    BY <1>1, <2>3, <2>4 DEF LocalStart
<1>2. CASE LocalSigner
  <2>1. lpc' = "done" /\ InputIsKnown
    BY <1>2 DEF LocalSigner, LInv
  <2> QED
    BY <1>2, <2>1, ConstructorFacts DEF LInv
<1>3. CASE UNCHANGED localVars
  BY <1>3 DEF localVars, LInv, InputIsKnown, LocalSignerIsAsConfigured
<1> QED
  BY <1>1, <1>2, <1>3 DEF LocalNext

-----------------------------------------------------------------------------
(* The key services                                                        *)

InUse == {"idle", "hash", "sign", "verify", "retry", "bytes"}

\* The fields of an operation and of a cache entry.
ShapeInv ==
  /\ kop = [kind |-> kop.kind, sig |-> kop.sig, msg |-> kop.msg, hash |-> kop.hash,
            retried |-> kop.retried, verdict |-> kop.verdict]
  /\ kcache = [pub |-> kcache.pub, meta |-> kcache.meta, left |-> kcache.left]

\* Until there is a client nothing is cached and nothing has been done; the
\* client is made for the version that decides.
ClientInv ==
  /\ kpc \notin InUse => kop = NoOp /\ kcache = NoKey /\ khalf = 0
  /\ kpc \in InUse => kprov.ref \in Backends
  /\ kpc \in InUse /\ DecidingVersion # 0 => kclient.version = DecidingVersion
  /\ kpc = "signer" /\ kprov.ref = "hashivault" => kopt \in VaultSettings

\* What GCP and Azure clients have cached is the pinned version if one is.
CacheInv ==
  /\ Cached /\ kprov.ref \in {"gcp", "azure"} /\ DecidingVersion # 0 =>
       kcache.pub = DecidingVersion
  /\ khalf # 0 => kprov.ref = "aws"

\* An operation under way has no verdict, and is what its place says.
OperationInv ==
  /\ kpc \in {"hash", "sign"} => kop.kind = "sign" /\ kop.verdict = "none"
  /\ kpc \in {"verify", "retry"} => kop.kind = "verify"
  /\ kpc = "bytes" => kop.kind = "bytes" /\ kop.verdict = "none"

KInv == ShapeInv /\ ClientInv /\ CacheInv /\ OperationInv /\ PinnedVersionHolds

LEMMA NoOpFacts ==
  /\ NoOp = [kind |-> NoOp.kind, sig |-> NoOp.sig, msg |-> NoOp.msg,
             hash |-> NoOp.hash, retried |-> NoOp.retried, verdict |-> NoOp.verdict]
  /\ NoOp.kind = "none" /\ NoOp.verdict = "none"
  /\ NoKey = [pub |-> NoKey.pub, meta |-> NoKey.meta, left |-> NoKey.left]
  /\ ~ (NoKey.left > 0)
BY DEF NoOp, NoKey

LEMMA KmsInitially == KmsInit => KInv
<1> SUFFICES ASSUME KmsInit PROVE KInv
  OBVIOUS
<1>1. kop = NoOp /\ kcache = NoKey /\ khalf = 0 /\ kpc = "new"
  BY DEF KmsInit
<1>2. ShapeInv /\ ~ Cached
  BY <1>1, NoOpFacts DEF ShapeInv, Cached
<1>3. ClientInv
  BY <1>1 DEF ClientInv, InUse, DecidingVersion
<1>4. OperationInv /\ PinnedVersionHolds
  BY <1>1, NoOpFacts DEF OperationInv, PinnedVersionHolds, DecidingVersion
<1> QED
  BY <1>1, <1>2, <1>3, <1>4 DEF KInv, CacheInv, DecidingVersion

\* The version a client names in its calls is the one that decides.
LEMMA NamedVersion ==
  ASSUME KInv, kpc \in InUse, DecidingVersion # 0
  PROVE  /\ AwsKey = DecidingVersion /\ AzureVersion = DecidingVersion
         /\ VaultVersion = DecidingVersion /\ GcpVersion = DecidingVersion
<1>1. kclient.version = DecidingVersion
  BY DEF KInv, ClientInv, DecidingVersion
<1> QED
  BY <1>1 DEF AwsKey, AzureVersion, VaultVersion, GcpVersion, Pinned

\* Steps of the service, of the renewal and of other providers.
LEMMA OutsideStep ==
  ASSUME KInv, UNCHANGED <<kprov, kclient, kcache, khalf, kpc, kop>>,
         kpc = "signer" => kopt' = kopt
  PROVE  KInv'
<1>1. ShapeInv' /\ ClientInv'
  BY DEF KInv, ShapeInv, ClientInv, DecidingVersion
<1>2. CacheInv'
  BY DEF KInv, CacheInv, Cached, DecidingVersion
<1>3. OperationInv' /\ PinnedVersionHolds'
  BY DEF KInv, OperationInv, PinnedVersionHolds, RequiredHash, KeyHash,
     AzureHash, DecidingVersion
<1> QED
  BY <1>1, <1>2, <1>3 DEF KInv

\* An operation ends without a signature or a key.
LEMMA FinishStep ==
  ASSUME KInv, kpc \in InUse, UNCHANGED <<kmsSetting, kcache>>,
         khalf' \in {0, khalf}, NEW v, Finish(v),
         v = "ok" => kop.kind = "verify"
  PROVE  KInv'
<1>1. /\ UNCHANGED <<kprov, kclient, kcache>> /\ kpc' = "idle"
      /\ kop' = [kop EXCEPT !.verdict = v]
  BY DEF Finish, kmsSetting
<1>2. kop = [kind |-> kop.kind, sig |-> kop.sig, msg |-> kop.msg, hash |-> kop.hash,
             retried |-> kop.retried, verdict |-> kop.verdict]
  BY DEF KInv, ShapeInv
<1>3. kop' = [kind |-> kop.kind, sig |-> kop.sig, msg |-> kop.msg, hash |-> kop.hash,
              retried |-> kop.retried, verdict |-> v]
  BY <1>1, <1>2
<1>4. ShapeInv' /\ kop'.kind = kop.kind /\ kop'.verdict = v
  BY <1>1, <1>3 DEF KInv, ShapeInv
<1>5. ClientInv'
  BY <1>1 DEF KInv, ClientInv, InUse, DecidingVersion
<1>6. CacheInv'
  BY <1>1 DEF KInv, CacheInv, Cached, DecidingVersion
<1>7. OperationInv' /\ PinnedVersionHolds'
  BY <1>1, <1>4 DEF OperationInv, PinnedVersionHolds, DecidingVersion
<1> QED
  BY <1>4, <1>5, <1>6, <1>7 DEF KInv

\* An operation ends with a signature, or with a public key.
LEMMA SignedStep ==
  ASSUME KInv, kpc \in {"sign", "bytes"}, UNCHANGED <<kmsSetting, kcache, khalf>>,
         NEW v, NEW h, Signed(v, h),
         DecidingVersion # 0 => v = DecidingVersion,
         kpc = "sign" /\ kprov.ref # "hashivault" => h = RequiredHash(v)
  PROVE  KInv'
<1>1. /\ UNCHANGED <<kprov, kclient, kcache, khalf>> /\ kpc' = "idle"
      /\ kop' = [kop EXCEPT !.sig = [by |-> v, msg |-> kop.msg, hash |-> h],
                            !.verdict = "ok"]
  BY DEF Signed, kmsSetting
<1>2. kop = [kind |-> kop.kind, sig |-> kop.sig, msg |-> kop.msg, hash |-> kop.hash,
             retried |-> kop.retried, verdict |-> kop.verdict]
  BY DEF KInv, ShapeInv
<1>3. kop' = [kind |-> kop.kind, sig |-> [by |-> v, msg |-> kop.msg, hash |-> h],
              msg |-> kop.msg, hash |-> kop.hash, retried |-> kop.retried,
              verdict |-> "ok"]
  BY <1>1, <1>2
<1>4. /\ ShapeInv' /\ kop'.kind = kop.kind /\ kop'.verdict = "ok"
      /\ kop'.sig.by = v /\ kop'.sig.hash = h
  <2>1. kop'.sig = [by |-> v, msg |-> kop.msg, hash |-> h]
    BY <1>3
  <2>2. kop'.sig.by = v /\ kop'.sig.hash = h
    BY <2>1
  <2>3. kop'.kind = kop.kind /\ kop'.verdict = "ok"
    BY <1>3
  <2>4. ShapeInv'
    <3> DEFINE s == [by |-> v, msg |-> kop.msg, hash |-> h]
    <3> HIDE DEF s
    <3>1. kop' = [kind |-> kop.kind, sig |-> s, msg |-> kop.msg, hash |-> kop.hash,
                  retried |-> kop.retried, verdict |-> "ok"]
      BY <1>3 DEF s
    <3> QED
      BY <1>1, <3>1 DEF KInv, ShapeInv
  <2> QED
    BY <2>2, <2>3, <2>4
<1>5. ClientInv'
  BY <1>1 DEF KInv, ClientInv, InUse, DecidingVersion
<1>6. CacheInv'
  BY <1>1 DEF KInv, CacheInv, Cached, DecidingVersion
<1>7. OperationInv'
  BY <1>1 DEF OperationInv
<1>8. PinnedVersionHolds'
  <2>1. kop.kind = "sign" => kpc = "sign"
    BY DEF KInv, OperationInv
  <2>2. RequiredHash(kop.sig.by)' = RequiredHash(v)
    BY <1>1, <1>4 DEF RequiredHash, KeyHash, AzureHash
  <2> QED
    BY <1>1, <1>4, <2>1, <2>2 DEF PinnedVersionHolds, DecidingVersion
<1> QED
  BY <1>4, <1>5, <1>6, <1>7, <1>8 DEF KInv

\* A key is put into the cache.
LEMMA LoadedStep ==
  ASSUME KInv, kpc \in InUse, UNCHANGED <<kmsSetting, kpc, kop>>,
         khalf' \in {0, khalf}, NEW p, NEW m,
         kcache' = [pub |-> p, meta |-> m, left |-> TTL],
         kprov.ref \in {"gcp", "azure"} /\ DecidingVersion # 0 => p = DecidingVersion
  PROVE  KInv'
<1>1. UNCHANGED <<kprov, kclient, kpc, kop>>
  BY DEF kmsSetting
<1>2. ShapeInv' /\ kcache'.pub = p
  BY <1>1 DEF KInv, ShapeInv
<1>3. ClientInv'
  BY <1>1 DEF KInv, ClientInv, InUse, DecidingVersion
<1>4. CacheInv'
  BY <1>1, <1>2 DEF KInv, CacheInv, DecidingVersion
<1>5. OperationInv' /\ PinnedVersionHolds'
  BY <1>1 DEF KInv, OperationInv, PinnedVersionHolds, RequiredHash, KeyHash,
     AzureHash, DecidingVersion
<1> QED
  BY <1>2, <1>3, <1>4, <1>5 DEF KInv

\* The client is made: for the version that decides, if it is set.
LEMMA LoadStep ==
  ASSUME KInv, LoadSignerVerifier
  PROVE  KInv'
<1>1. /\ kpc = "signer" /\ UNCHANGED <<kprov, kserver, kcache, khalf, kop>>
      /\ kop = NoOp /\ kcache = NoKey /\ khalf = 0
  BY DEF LoadSignerVerifier, KInv, ClientInv, InUse, DecidingVersion
<1>2. \/ kpc' = "failed"
      \/ /\ kpc' = "idle" /\ kprov.ref \in Backends
         /\ DecidingVersion # 0 => kclient'.version = DecidingVersion
  <2>1. ASSUME NEW v, NEW h, ClientFor(v, h)
        PROVE  kpc' = "idle" /\ kclient'.version = v
    BY <2>1 DEF ClientFor
  <2>2. CASE kprov.ref = "aws" /\ LoadAws
    BY <2>1, <2>2 DEF LoadAws, Backends, DecidingVersion
  <2>3. CASE kprov.ref = "gcp" /\ LoadGcp
    BY <2>1, <2>3 DEF LoadGcp, Backends, DecidingVersion
  <2>4. CASE kprov.ref = "azure" /\ LoadAzure
    BY <2>1, <2>4 DEF LoadAzure, Backends, DecidingVersion
  <2>5. CASE kprov.ref = "hashivault" /\ LoadVault
    <3>1. kopt \in VaultSettings
      BY <1>1, <2>5 DEF KInv, ClientInv, DecidingVersion
    <3>2. kopt' = [kopt EXCEPT !.keyVersion = IF kprov.keyVersion # 0 THEN kprov.keyVersion ELSE @]
      BY <2>5 DEF LoadVault
    <3>3. kprov.keyVersion # 0 => kopt'.keyVersion = kprov.keyVersion
      BY <3>1, <3>2 DEF VaultSettings, VaultOptions
    <3>4. kpc' = "idle" /\ kclient'.version = kopt'.keyVersion
      BY <2>1, <2>5 DEF LoadVault
    <3> QED
      BY <2>5, <3>3, <3>4 DEF Backends, DecidingVersion
  <2>6. CASE ClientFails
    BY <2>6 DEF ClientFails
  <2> QED
    BY <2>2, <2>3, <2>4, <2>5, <2>6 DEF LoadSignerVerifier
<1>3. ShapeInv' /\ ~ Cached'
  BY <1>1, NoOpFacts DEF ShapeInv, Cached
<1>4. ClientInv'
  BY <1>1, <1>2 DEF ClientInv, InUse, DecidingVersion
<1>5. CacheInv'
  BY <1>1, <1>3 DEF CacheInv, DecidingVersion
<1>6. OperationInv' /\ PinnedVersionHolds'
  BY <1>1, <1>2, NoOpFacts DEF OperationInv, PinnedVersionHolds, DecidingVersion
<1> QED
  BY <1>3, <1>4, <1>5, <1>6 DEF KInv

\* The caller makes the provider.
LEMMA ProviderStep ==
  ASSUME KInv, NewKms
  PROVE  KInv'
<1>1. /\ kpc = "new" /\ kpc' = "signer" /\ UNCHANGED <<kcache, khalf, kop>>
      /\ kop = NoOp /\ kcache = NoKey /\ khalf = 0
  BY DEF NewKms, KInv, ClientInv, InUse, DecidingVersion
<1>2. ShapeInv' /\ ~ Cached'
  BY <1>1, NoOpFacts DEF ShapeInv, Cached
<1>3. kprov'.ref = "hashivault" => kopt' \in VaultSettings
  BY DEF NewKms, Settings
<1>4. ClientInv'
  BY <1>1, <1>3 DEF ClientInv, InUse, DecidingVersion
<1>5. CacheInv' /\ OperationInv' /\ PinnedVersionHolds'
  BY <1>1, <1>2, NoOpFacts DEF CacheInv, OperationInv, PinnedVersionHolds, DecidingVersion
<1> QED
  BY <1>2, <1>4, <1>5 DEF KInv

\* The caller asks for an operation.
LEMMA RequestStep ==
  ASSUME KInv, SignMessage \/ VerifySignature \/ PublicKeyBytes
  PROVE  KInv'
<1>1. /\ kpc = "idle" /\ UNCHANGED <<kprov, kopt, kclient, kcache, khalf>>
  BY DEF SignMessage, VerifySignature, PublicKeyBytes, kmsSetting
<1>2. \E k, s, m : /\ kop' = [kind |-> k, sig |-> s, msg |-> m, hash |-> "",
                              retried |-> FALSE, verdict |-> "none"]
                   /\ \/ kpc' \in {"sign", "hash"} /\ k = "sign"
                      \/ kpc' = "verify" /\ k = "verify"
                      \/ kpc' = "bytes" /\ k = "bytes"
  <2>1. CASE SignMessage
    <3>1. PICK m \in Messages : kop' = [NoOp EXCEPT !.kind = "sign", !.msg = m]
      BY <2>1 DEF SignMessage
    <3>2. kop' = [kind |-> "sign", sig |-> NoSig, msg |-> m, hash |-> "",
                  retried |-> FALSE, verdict |-> "none"]
      BY <3>1 DEF NoOp
    <3>3. kpc' \in {"sign", "hash"}
      BY <2>1 DEF SignMessage
    <3> QED
      BY <3>2, <3>3
  <2>2. CASE VerifySignature
    <3>1. PICK v \in 1 .. kserver.top, of \in Messages, m \in Messages :
            kop' = [NoOp EXCEPT !.kind = "verify", !.msg = m,
                      !.sig = [by |-> v, msg |-> of, hash |-> RequiredHash(v)]]
      BY <2>2 DEF VerifySignature
    <3> DEFINE s == [by |-> v, msg |-> of, hash |-> RequiredHash(v)]
    <3> HIDE DEF s
    <3>2. kop' = [NoOp EXCEPT !.kind = "verify", !.msg = m, !.sig = s]
      BY <3>1 DEF s
    <3>3. kop' = [kind |-> "verify", sig |-> s, msg |-> m, hash |-> "",
                  retried |-> FALSE, verdict |-> "none"]
      BY <3>2 DEF NoOp
    <3>4. kpc' = "verify"
      BY <2>2 DEF VerifySignature
    <3> QED
      BY <3>3, <3>4
  <2>3. CASE PublicKeyBytes
    <3>1. kop' = [kind |-> "bytes", sig |-> NoSig, msg |-> "", hash |-> "",
                  retried |-> FALSE, verdict |-> "none"]
      BY <2>3 DEF PublicKeyBytes, NoOp
    <3>2. kpc' = "bytes"
      BY <2>3 DEF PublicKeyBytes
    <3> QED
      BY <3>1, <3>2
  <2> QED
    BY <2>1, <2>2, <2>3
<1>3. PICK k, s, m : /\ kop' = [kind |-> k, sig |-> s, msg |-> m, hash |-> "",
                                retried |-> FALSE, verdict |-> "none"]
                     /\ \/ kpc' \in {"sign", "hash"} /\ k = "sign"
                        \/ kpc' = "verify" /\ k = "verify"
                        \/ kpc' = "bytes" /\ k = "bytes"
  BY <1>2
<1>4. ShapeInv' /\ kop'.kind = k /\ kop'.verdict = "none"
  BY <1>1, <1>3 DEF KInv, ShapeInv
<1>5. ClientInv'
  BY <1>1, <1>3 DEF KInv, ClientInv, InUse, DecidingVersion
<1>6. CacheInv'
  BY <1>1 DEF KInv, CacheInv, Cached, DecidingVersion
<1>7. OperationInv' /\ PinnedVersionHolds'
  BY <1>3, <1>4 DEF OperationInv, PinnedVersionHolds, DecidingVersion
<1> QED
  BY <1>4, <1>5, <1>6, <1>7 DEF KInv

\* Time passes for the cache, and a key is looked up in it.
LEMMA TickStep ==
  ASSUME KInv, Tick
  PROVE  KInv'
<1>1. /\ UNCHANGED <<kprov, kopt, kclient, khalf, kpc, kop>> /\ Cached
      /\ kcache' = [kcache EXCEPT !.left = @ - 1]
  BY DEF Tick, Cached
<1>2. kcache = [pub |-> kcache.pub, meta |-> kcache.meta, left |-> kcache.left]
  BY DEF KInv, ShapeInv
<1>3. kcache' = [pub |-> kcache.pub, meta |-> kcache.meta, left |-> kcache.left - 1]
  BY <1>1, <1>2
<1>4. ShapeInv' /\ kcache'.pub = kcache.pub
  BY <1>1, <1>3 DEF KInv, ShapeInv
<1>5. kpc \in InUse
  BY <1>1, NoOpFacts DEF KInv, ClientInv, Cached, DecidingVersion
<1>6. ClientInv'
  BY <1>1, <1>5 DEF KInv, ClientInv, InUse, DecidingVersion
<1>7. CacheInv'
  BY <1>1, <1>4 DEF KInv, CacheInv, DecidingVersion
<1>8. OperationInv' /\ PinnedVersionHolds'
  BY <1>1 DEF KInv, OperationInv, PinnedVersionHolds, RequiredHash, KeyHash,
     AzureHash, DecidingVersion
<1> QED
  BY <1>4, <1>6, <1>7, <1>8 DEF KInv

\* The key is fetched from the service.
LEMMA FetchStep ==
  ASSUME KInv, AwsFetchPublicKey \/ AwsFetchMetadata \/ GcpLoad \/ AzureLoad
  PROVE  KInv'
<1>1. kpc \in InUse
  BY DEF AwsFetchPublicKey, AwsFetchMetadata, GcpLoad, AzureLoad, Missing, KInv,
         ClientInv, InUse
<1>2. UNCHANGED kmsSetting
  BY DEF AwsFetchPublicKey, AwsFetchMetadata, GcpLoad, AzureLoad
<1>3. ASSUME Unavailable, khalf' \in {0, khalf} PROVE KInv'
  BY <1>1, <1>2, <1>3, FinishStep DEF Unavailable
<1>4. CASE AwsFetchPublicKey
  <2>1. CASE khalf' = AwsKey /\ UNCHANGED <<kcache, kpc, kop>>
    <3>1. UNCHANGED <<kprov, kclient, kcache, kpc, kop>> /\ kprov.ref = "aws"
      BY <1>2, <1>4, <2>1 DEF kmsSetting, AwsFetchPublicKey, Missing
    <3>2. ShapeInv' /\ ClientInv'
      BY <1>1, <3>1 DEF KInv, ShapeInv, ClientInv, InUse, DecidingVersion
    <3>3. CacheInv'
      BY <3>1 DEF KInv, CacheInv, Cached, DecidingVersion
    <3>4. OperationInv' /\ PinnedVersionHolds'
      BY <3>1 DEF KInv, OperationInv, PinnedVersionHolds, RequiredHash, KeyHash,
         AzureHash, DecidingVersion
    <3> QED
      BY <3>2, <3>3, <3>4 DEF KInv
  <2>2. CASE Unavailable /\ UNCHANGED khalf
    BY <1>3, <2>2
  <2> QED
    BY <1>4, <2>1, <2>2 DEF AwsFetchPublicKey
<1>5. CASE AwsFetchMetadata
  <2>1. khalf' = 0 /\ kprov.ref = "aws"
    BY <1>5 DEF AwsFetchMetadata, KInv, CacheInv, DecidingVersion
  <2>2. CASE /\ kcache' = [pub |-> khalf, meta |-> AwsKey, left |-> TTL]
             /\ UNCHANGED <<kpc, kop>>
    BY <1>1, <1>2, <2>1, <2>2, LoadedStep
  <2>3. CASE Unavailable
    BY <1>3, <2>1, <2>3
  <2> QED
    BY <1>5, <2>2, <2>3 DEF AwsFetchMetadata
<1>6. CASE GcpLoad
  <2>1. khalf' = khalf /\ (DecidingVersion # 0 => GcpVersion = DecidingVersion)
    BY <1>1, <1>6, NamedVersion DEF GcpLoad
  <2>2. CASE /\ kcache' = [pub |-> GcpVersion, meta |-> GcpVersion, left |-> TTL]
             /\ UNCHANGED <<kpc, kop>>
    BY <1>1, <1>2, <2>1, <2>2, LoadedStep
  <2>3. CASE Unavailable
    BY <1>3, <2>1, <2>3
  <2> QED
    BY <1>6, <2>2, <2>3 DEF GcpLoad
<1>7. CASE AzureLoad
  <2>1. khalf' = khalf /\ (DecidingVersion # 0 => AzureVersion = DecidingVersion)
    BY <1>1, <1>7, NamedVersion DEF AzureLoad
  <2>2. CASE /\ kcache' = [pub |-> AzureVersion, meta |-> AzureVersion, left |-> TTL]
             /\ UNCHANGED <<kpc, kop>>
    BY <1>1, <1>2, <2>1, <2>2, LoadedStep
  <2>3. CASE Unavailable
    BY <1>3, <2>1, <2>3
  <2> QED
    BY <1>7, <2>2, <2>3 DEF AzureLoad
<1> QED
  BY <1>4, <1>5, <1>6, <1>7

\* The digest is computed with the hash of the cached key.
LEMMA DigestStep ==
  ASSUME KInv, ComputeDigest
  PROVE  KInv'
<1>1. /\ UNCHANGED <<kprov, kclient, kcache, khalf>> /\ kpc = "hash" /\ kpc' = "sign"
      /\ kop' = [kop EXCEPT !.hash = RequiredHash(kcache.meta)]
  BY DEF ComputeDigest, Hit, kmsSetting
<1> DEFINE h == RequiredHash(kcache.meta)
<1> HIDE DEF h
<1>2. kop = [kind |-> kop.kind, sig |-> kop.sig, msg |-> kop.msg, hash |-> kop.hash,
             retried |-> kop.retried, verdict |-> kop.verdict]
  BY DEF KInv, ShapeInv
<1>3. kop' = [kind |-> kop.kind, sig |-> kop.sig, msg |-> kop.msg, hash |-> h,
              retried |-> kop.retried, verdict |-> kop.verdict]
  <2>1. kop' = [kop EXCEPT !.hash = h]
    BY <1>1 DEF h
  <2> QED
    BY <1>2, <2>1
<1>4. ShapeInv' /\ kop'.kind = "sign" /\ kop'.verdict = "none"
  BY <1>1, <1>3 DEF KInv, ShapeInv, OperationInv
<1>5. ClientInv'
  BY <1>1 DEF KInv, ClientInv, InUse, DecidingVersion
<1>6. CacheInv'
  BY <1>1 DEF KInv, CacheInv, Cached, DecidingVersion
<1>7. OperationInv' /\ PinnedVersionHolds'
  BY <1>1, <1>4 DEF OperationInv, PinnedVersionHolds, DecidingVersion
<1> QED
  BY <1>4, <1>5, <1>6, <1>7 DEF KInv

\* The service signs, or hands out a public key.
LEMMA SignStep ==
  ASSUME KInv, AwsSign \/ GcpSign \/ AzureSign \/ VaultSign \/ ReturnBytes
  PROVE  KInv'
<1>1. kpc \in {"sign", "bytes"} /\ kpc \in InUse
  BY DEF AwsSign, GcpSign, AzureSign, VaultSign, ReturnBytes, InUse
<1>2. UNCHANGED <<kmsSetting, kcache, khalf>>
  BY DEF AwsSign, GcpSign, AzureSign, VaultSign, ReturnBytes, Hit
<1>3. ASSUME Refused PROVE KInv'
  BY <1>1, <1>2, <1>3, FinishStep DEF Refused
<1>4. CASE AwsSign
  <2>1. kprov.ref = "aws" /\ (DecidingVersion # 0 => AwsKey = DecidingVersion)
    BY <1>1, <1>4, NamedVersion DEF AwsSign
  <2>2. CASE kop.hash = KeyHash(AwsKey) /\ Signed(AwsKey, kop.hash)
    <3>1. kop.hash = RequiredHash(AwsKey)
      BY <2>1, <2>2 DEF RequiredHash
    <3> QED
      BY <1>1, <1>2, <2>1, <2>2, <3>1, SignedStep
  <2> QED
    BY <1>3, <1>4, <2>2 DEF AwsSign
<1>5. CASE GcpSign
  <2>1. kprov.ref = "gcp" /\ (DecidingVersion # 0 => kcache.pub = DecidingVersion)
    BY <1>5 DEF GcpSign, KInv, CacheInv, DecidingVersion
  <2>2. CASE kop.hash = KeyHash(kcache.pub) /\ Signed(kcache.pub, kop.hash)
    <3>1. kop.hash = RequiredHash(kcache.pub)
      BY <2>1, <2>2 DEF RequiredHash
    <3> QED
      BY <1>1, <1>2, <2>1, <2>2, <3>1, SignedStep
  <2> QED
    BY <1>3, <1>5, <2>2 DEF GcpSign
<1>6. CASE AzureSign
  <2>1. kprov.ref = "azure" /\ (DecidingVersion # 0 => AzureVersion = DecidingVersion)
    BY <1>1, <1>6, NamedVersion DEF AzureSign
  <2>2. CASE /\ CurveOf[AzureVersion] = CurveOf[kcache.pub]
             /\ kop.hash = AzureHash(kcache.pub)
             /\ Signed(AzureVersion, kop.hash)
    <3>1. kop.hash = RequiredHash(AzureVersion)
      BY <2>1, <2>2 DEF RequiredHash, AzureHash
    <3> QED
      BY <1>1, <1>2, <2>1, <2>2, <3>1, SignedStep
  <2> QED
    BY <1>3, <1>6, <2>2 DEF AzureSign
<1>7. CASE VaultSign
  <2>1. kprov.ref = "hashivault" /\ (DecidingVersion # 0 => VaultVersion = DecidingVersion)
    BY <1>1, <1>7, NamedVersion DEF VaultSign
  <2>2. CASE Signed(VaultVersion, kclient.hash)
    BY <1>1, <1>2, <2>1, <2>2, SignedStep
  <2> QED
    BY <1>3, <1>7, <2>2 DEF VaultSign
<1>8. CASE ReturnBytes
  <2>1. kpc = "bytes" /\ (kprov.ref \in {"gcp", "azure"} => Cached)
    BY <1>8 DEF ReturnBytes
  <2>2. ASSUME NEW v, Signed(v, ""),
               v = CASE kprov.ref = "aws" -> AwsKey
                     [] kprov.ref = "hashivault" -> VaultVersion
                     [] OTHER -> kcache.pub
        PROVE  KInv'
    <3>1. DecidingVersion # 0 => v = DecidingVersion
      <4>1. kprov.ref \in {"aws", "gcp", "azure", "hashivault"}
        BY <1>1 DEF KInv, ClientInv, Backends, DecidingVersion
      <4> QED
        BY <1>1, <2>1, <2>2, <4>1, NamedVersion DEF KInv, CacheInv, DecidingVersion
    <3> QED
      BY <1>1, <1>2, <2>1, <2>2, <3>1, SignedStep
  <2> QED
    BY <1>3, <1>8, <2>2 DEF ReturnBytes
<1> QED
  BY <1>4, <1>5, <1>6, <1>7, <1>8

\* A signature is verified; GCP may drop the cached key and try again.
LEMMA VerifyStep ==
  ASSUME KInv, AwsVerify \/ AzureVerify \/ GcpVerify \/ VaultVerify
  PROVE  KInv'
<1>1. kpc \in {"verify", "retry"} /\ kpc \in InUse
  BY DEF AwsVerify, AzureVerify, GcpVerify, VaultVerify, InUse
<1>2. UNCHANGED <<kmsSetting, khalf>> /\ kop.kind = "verify"
  BY <1>1 DEF AwsVerify, AzureVerify, GcpVerify, VaultVerify, KInv, OperationInv
<1>3. ASSUME NEW v, Finish(v), UNCHANGED kcache PROVE KInv'
  BY <1>1, <1>2, <1>3, FinishStep
<1>4. CASE AwsVerify
  BY <1>3, <1>4 DEF AwsVerify, Hit, Refused
<1>5. CASE AzureVerify
  BY <1>3, <1>5 DEF AzureVerify, Hit, Refused
<1>6. CASE VaultVerify
  BY <1>3, <1>6 DEF VaultVerify, Refused
<1>7. CASE GcpVerify
  <2>1. \/ \E v : Finish(v) /\ UNCHANGED kcache
        \/ /\ kcache' = NoKey /\ kpc' = "retry"
           /\ kop' = [kop EXCEPT !.retried = TRUE]
    BY <1>7 DEF GcpVerify, Hit
  <2>2. CASE /\ kcache' = NoKey /\ kpc' = "retry"
             /\ kop' = [kop EXCEPT !.retried = TRUE]
    <3>1. UNCHANGED <<kprov, kopt, kclient, khalf>>
      BY <1>2 DEF kmsSetting
    <3>2. kop = [kind |-> kop.kind, sig |-> kop.sig, msg |-> kop.msg, hash |-> kop.hash,
                 retried |-> kop.retried, verdict |-> kop.verdict]
      BY DEF KInv, ShapeInv
    <3>3. kop' = [kind |-> kop.kind, sig |-> kop.sig, msg |-> kop.msg, hash |-> kop.hash,
                  retried |-> TRUE, verdict |-> kop.verdict]
      BY <2>2, <3>2
    <3>4. kop'.kind = "verify"
      BY <1>2, <3>3
    <3>5. ShapeInv' /\ ~ Cached'
      BY <2>2, <3>3, NoOpFacts DEF ShapeInv, Cached
    <3>6. ClientInv'
      BY <1>1, <2>2, <3>1 DEF KInv, ClientInv, InUse, DecidingVersion
    <3>7. CacheInv'
      BY <3>1, <3>5 DEF KInv, CacheInv, DecidingVersion
    <3>8. OperationInv' /\ PinnedVersionHolds'
      BY <2>2, <3>4 DEF OperationInv, PinnedVersionHolds, DecidingVersion
    <3> QED
      BY <3>5, <3>6, <3>7, <3>8 DEF KInv
  <2> QED
    BY <1>3, <2>1, <2>2
<1> QED
  BY <1>4, <1>5, <1>6, <1>7

LEMMA KmsStep == KInv /\ (KmsNext \/ UNCHANGED kmsVars) => KInv'
<1> SUFFICES ASSUME KInv, KmsNext \/ UNCHANGED kmsVars PROVE KInv'
  OBVIOUS
<1>1. CASE NewKms
  BY <1>1, ProviderStep
<1>2. CASE LoadSignerVerifier
  BY <1>2, LoadStep
<1>3. CASE OtherProvider
  BY <1>3, OutsideStep DEF OtherProvider
<1>4. CASE Rotate \/ Disable
  BY <1>4, OutsideStep DEF Rotate, Disable
<1>5. CASE Tick
  BY <1>5, TickStep
<1>6. CASE SignMessage \/ VerifySignature \/ PublicKeyBytes
  BY <1>6, RequestStep
<1>7. CASE KmsOperation
  BY <1>7, FetchStep, DigestStep, SignStep, VerifyStep DEF KmsOperation
<1>8. CASE EndRenewalContext \/ ContextDone \/ WatcherDone \/ Relogin
  BY <1>8, OutsideStep DEF EndRenewalContext, ContextDone, WatcherDone, Relogin
<1>9. CASE UNCHANGED kmsVars
  BY <1>9, OutsideStep DEF kmsVars
<1> QED
  BY <1>1, <1>2, <1>3, <1>4, <1>5, <1>6, <1>7, <1>8, <1>9 DEF KmsNext

-----------------------------------------------------------------------------
(* The registry                                                            *)

SignersInv == FInv /\ KInv /\ LInv

LEMMA SignersStep == SignersInv /\ [SignersNext]_signerVars => SignersInv'
<1> SUFFICES ASSUME SignersInv, [SignersNext]_signerVars PROVE SignersInv'
  OBVIOUS
<1>1. /\ FulcioNext \/ UNCHANGED fulcioVars
      /\ KmsNext \/ UNCHANGED kmsVars
      /\ LocalNext \/ UNCHANGED localVars
  BY DEF SignersNext, NewSignerProvider, UseFulcio, UseKms, UseLocal, signerVars
<1>2. FInv'
  BY <1>1, RequestsStep, IdentityStep DEF SignersInv, FInv
<1>3. KInv'
  BY <1>1, KmsStep DEF SignersInv
<1>4. LInv'
  BY <1>1, LocalStep DEF SignersInv
<1> QED
  BY <1>2, <1>3, <1>4 DEF SignersInv

\* The invariant of the three providers, whichever of them the registry of
\* signer/registry.go has made.
THEOREM SignersInvariant == SignersSpec => []SignersInv
<1>1. SignersInit => SignersInv
  BY FulcioInitially, KmsInitially, LocalInitially DEF SignersInit, SignersInv
<1> QED
  BY <1>1, SignersStep, PTL DEF SignersSpec

\* The retry loop of fulcio's getCert: at most three requests, each but the first
\* after an error another request may cure, and at most one after the context
\* has ended.
THEOREM RetriesHaveCause == SignersSpec => []RetriesAreJustified
<1>1. SignersInv => RetriesAreJustified
  BY DEF SignersInv, FInv, RequestsInv
<1> QED
  BY <1>1, SignersInvariant, PTL

\* Fulcio's Signer asks for the identity it was configured with, whatever the
\* environment offers and whichever requests fail.
THEOREM IdentityIsConfigured == SignersSpec => []ConfiguredIdentityIsUsed
<1>1. SignersInv => ConfiguredIdentityIsUsed
  BY DEF SignersInv, FInv, IdentityInv, TokenIsConfigured, ConfiguredIdentityIsUsed
<1> QED
  BY <1>1, SignersInvariant, PTL

\* The KMS clients sign with the version of the reference (AWS, GCP, Azure) or of
\* the option KeyVersion (Vault; the other three ignore the option) and with the
\* hash its key requires, for any number of rotations, disabled versions and
\* expiries of the cache between the calls of one operation.
THEOREM PinnedVersionSigns == SignersSpec => []PinnedVersionHolds
<1>1. SignersInv => PinnedVersionHolds
  BY DEF SignersInv, KInv
<1> QED
  BY <1>1, SignersInvariant, PTL

\* The file, vault and spiffe providers return the signer of the configured key
\* and certificates, or an error.
THEOREM LocalSignerIsConfigured == SignersSpec => []LocalSignerIsAsConfigured
<1>1. SignersInv => LocalSignerIsAsConfigured
  BY DEF SignersInv, LInv
<1> QED
  BY <1>1, SignersInvariant, PTL
=============================================================================
