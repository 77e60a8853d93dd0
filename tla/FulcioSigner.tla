----------------------------- MODULE FulcioSigner -----------------------------
(***************************************************************************)
(* signer/fulcio: FulcioSignerProvider.Signer finds an identity token,     *)
(* asks Fulcio for a certificate over gRPC (with retries) or over HTTP     *)
(* (one request) and builds an X.509 signer from the chain it gets.  The   *)
(* context may end at any moment; the token request to GitHub Actions does *)
(* not look at it.  Tokens, URLs, replies and certificates are classes of  *)
(* values the code tells apart.                                            *)
(***************************************************************************)
EXTENDS Naturals, Sequences, SequencesExt

CONSTANTS FulcioURLs,   \* the URL classes the provider is configured with
          FulcioTokens, \* the token classes a source can produce
          FulcioChains  \* the certificate chains Fulcio may answer with

VARIABLES fpc,      \* where Signer is
          fopt,     \* the provider's fields
          fenv,     \* what the environment offers: GitHub Actions, a terminal
          raw,      \* the identity token found
          ctx,      \* "live", "cancelled" or "expired"
          fetches,  \* outcomes of the attempts of fetchToken
          replies,  \* outcomes of the certificate requests
          late,     \* certificate requests sent after the context ended
          fresult   \* what Signer returned

fulcioVars == <<fpc, fopt, fenv, raw, ctx, fetches, replies, late, fresult>>

\* The registered options and their defaults.
FulcioOptions ==
  [url |-> "", issuer |-> "", clientID |-> "", token |-> "",
   redirect |-> "", tokenPath |-> "", useHTTP |-> FALSE]

\* What With* can make of the options that decide the control flow.
FulcioProviders ==
  {[FulcioOptions EXCEPT !.url = u, !.token = t, !.tokenPath = p, !.useHTTP = h] :
     u \in FulcioURLs, t \in FulcioTokens \cup {""},
     p \in {"", "missing", "file"}, h \in BOOLEAN}

\* GITHUB_ACTIONS and the two request variables, and whether stdin is a terminal.
FulcioEnvironments ==
  [github : {"no", "noURL", "noRequestToken", "otherAudience", "yes"}, tty : BOOLEAN]

NoSigner == [status |-> "none", leaf |-> "none", intermediates |-> <<>>]
FulcioError == [NoSigner EXCEPT !.status = "error"]

FulcioInit ==
  /\ fpc = "idle"
  /\ fopt = FulcioOptions
  /\ fenv = [github |-> "no", tty |-> FALSE]
  /\ raw = ""
  /\ ctx = "live"
  /\ fetches = <<>>
  /\ replies = <<>>
  /\ late = 0
  /\ fresult = NoSigner

FulcioFail == fpc' = "done" /\ fresult' = FulcioError

-----------------------------------------------------------------------------
(* Signer: the URL and the source of the token                             *)

\* url.Parse succeeds, the port is a number and there is a host.
URLIsUsable(u) == u \notin {"", "unparsable", "badPort", "noHost"}

\* Mutant of TokenSource: the ambient token is looked for first.
AmbientFirst(o, e) ==
  IF e.github # "no" THEN "github" ELSE
    IF o.token # "" THEN "token" ELSE IF o.tokenPath # "" THEN "path" ELSE "none"

\* The case of the switch over the token sources.
TokenSource(o, e) ==
  CASE o.token = "" /\ o.tokenPath = "" /\ e.github # "no" -> "github"
    [] o.token # "" /\ o.tokenPath # ""                    -> "conflict"
    [] o.token # "" /\ o.tokenPath = ""                    -> "token"
    [] o.token = "" /\ o.tokenPath # ""                    -> "path"
    [] o.token = "" /\ o.tokenPath = "" /\ e.github = "no" ->
         IF e.tty THEN "terminal" ELSE "none"

\* Signer starts with the fields the options set.
FulcioStart ==
  /\ fpc = "idle"
  /\ fopt' \in FulcioProviders
  /\ fenv' \in FulcioEnvironments
  /\ fpc' = IF URLIsUsable(fopt'.url) THEN "token" ELSE "done"
  /\ fresult' = IF URLIsUsable(fopt'.url) THEN NoSigner ELSE FulcioError
  /\ UNCHANGED <<raw, ctx, fetches, replies, late>>

\* The switch, up to the token or to the first attempt of fetchToken.
FindToken ==
  /\ fpc = "token"
  /\ LET src == TokenSource(fopt, fenv)
     IN  \/ /\ src = "github" /\ fenv.github = "yes"
            /\ fpc' = "fetch"
            /\ UNCHANGED <<raw, fresult>>
         \/ /\ \/ src \in {"conflict", "none", "terminal"}
               \/ (src = "github" /\ fenv.github # "yes")
               \/ (src = "path" /\ fopt.tokenPath = "missing")
            /\ FulcioFail
            /\ UNCHANGED raw
         \/ /\ src = "token"
            /\ raw' = fopt.token
            /\ fpc' = "client"
            /\ UNCHANGED fresult
         \/ /\ src = "terminal" \/ (src = "path" /\ fopt.tokenPath = "file")
            /\ raw' \in FulcioTokens \cup (IF src = "path" THEN {""} ELSE {})
            /\ fpc' = "client"
            /\ UNCHANGED fresult
  /\ UNCHANGED <<fopt, fenv, ctx, fetches, replies, late>>

maxRetries == 3

\* One attempt of fetchToken.  An attempt that is told to use HTTP/1.1 asks
\* again at once; a transport error, an unreadable body, a bad status, bad JSON
\* and an empty value are all retried after the backoff.
FetchToken ==
  /\ fpc = "fetch"
  /\ \E r \in {"failed", "http11Failed", "ok", "http11Ok"} :
       /\ fetches' = Append(fetches, r)
       /\ \/ /\ r \in {"ok", "http11Ok"}
             /\ raw' \in FulcioTokens
             /\ fpc' = "client"
             /\ UNCHANGED fresult
          \/ /\ r \notin {"ok", "http11Ok"}
             /\ Len(fetches') = maxRetries
             /\ FulcioFail
             /\ UNCHANGED raw
          \/ /\ r \notin {"ok", "http11Ok"}
             /\ Len(fetches') < maxRetries
             /\ UNCHANGED <<fpc, raw, fresult>>
  /\ UNCHANGED <<fopt, fenv, ctx, replies, late>>

-----------------------------------------------------------------------------
(* getCert, getCertHTTP                                                    *)

\* The email claim, or else the subject claim, names the identity; the gRPC
\* path first refuses an empty token and one without a dot, which the HTTP
\* path's parser refuses as well.
TokenHasSubject(t) == t \in {"email", "subject"}

\* newClient accepts https, and http as insecure.
ClientAccepts(u) == u \in {"https", "http", "bare"}

\* newClient on the gRPC path, then the claims and the proof of possession.
PrepareRequest ==
  /\ fpc = "client"
  /\ IF TokenHasSubject(raw) /\ (fopt.useHTTP \/ ClientAccepts(fopt.url))
       THEN /\ fpc' = IF fopt.useHTTP THEN "http" ELSE "send"
            /\ UNCHANGED fresult
       ELSE FulcioFail
  /\ UNCHANGED <<fopt, fenv, raw, ctx, fetches, replies, late>>

\* Errors of CreateSigningCertificate: a gRPC code or another error.
ReplyErrors ==
  {"Unauthenticated", "Unavailable", "DeadlineExceeded", "Canceled", "Internal",
   "plain", "plainUnauthorized"}

IsRetryable(r) == r \in {"Unavailable", "DeadlineExceeded", "plain"}

\* A call made with an ended context fails with that context's code.
PossibleReplies ==
  CASE ctx = "live"      -> ReplyErrors \cup {"ok"}
    [] ctx = "cancelled" -> {"Canceled"}
    [] ctx = "expired"   -> {"DeadlineExceeded"}

\* One certificate request, and what the loop makes of the answer.
SendRequest ==
  /\ fpc = "send"
  /\ \E r \in PossibleReplies :
       /\ replies' = Append(replies, r)
       /\ \/ /\ r = "ok"
             /\ fpc' = "chain"
             /\ UNCHANGED fresult
          \/ /\ r # "ok"
             /\ IsRetryable(r) /\ Len(replies') < maxRetries
             /\ fpc' = "retry"
             /\ UNCHANGED fresult
          \/ /\ r # "ok"
             /\ ~IsRetryable(r) \/ Len(replies') = maxRetries
             /\ FulcioFail
  /\ late' = IF ctx = "live" THEN late ELSE late + 1
  /\ UNCHANGED <<fopt, fenv, raw, ctx, fetches>>

\* Mutant of BeforeBackoff: the context is not looked at.
BackoffBlindly ==
  /\ fpc = "retry"
  /\ fpc' = "send"
  /\ UNCHANGED <<fopt, fenv, raw, ctx, fetches, replies, late, fresult>>

\* Mutant of BeforeBackoff: the backoff waits for the context.
BackoffOnContext ==
  /\ fpc = "retry"
  /\ ctx # "live"
  /\ FulcioFail
  /\ UNCHANGED <<fopt, fenv, raw, ctx, fetches, replies, late>>

\* The top of the next attempt: the context is looked at before the sleep.
BeforeBackoff ==
  /\ fpc = "retry"
  /\ IF ctx # "live"
       THEN FulcioFail
       ELSE fpc' = "send" /\ UNCHANGED fresult
  /\ UNCHANGED <<fopt, fenv, raw, ctx, fetches, replies, late>>

\* getCertHTTP: one request; a status other than 200 is an error.
SendHTTP ==
  /\ fpc = "http"
  /\ \E r \in (IF ctx = "live" THEN {"ok", "transport", "status", "body"}
                               ELSE {"transport"}) :
       /\ replies' = Append(replies, r)
       /\ IF r = "ok" THEN fpc' = "chain" /\ UNCHANGED fresult ELSE FulcioFail
  /\ late' = IF ctx = "live" THEN late ELSE late + 1
  /\ UNCHANGED <<fopt, fenv, raw, ctx, fetches>>

\* The leaf is the last certificate that is not a CA; a certificate that does
\* not decode is an error, and an answer without a chain is dereferenced.
SignerFromChain(chain) ==
  IF chain = <<"nochain">> THEN [FulcioError EXCEPT !.status = "panic"]
  ELSE LET leaves == SelectSeq(chain, LAMBDA c : c \notin {"ca", "ca2"})
       IN  IF "garbage" \in ToSet(chain) \/ leaves = <<>>
             THEN FulcioError
             ELSE [status |-> "signer", leaf |-> Last(leaves),
                   intermediates |-> SelectSeq(chain, LAMBDA c : c \in {"ca", "ca2"})]

\* The certificates of the answer, and NewX509Signer.
ReadChain ==
  /\ fpc = "chain"
  /\ \E chain \in FulcioChains : fresult' = SignerFromChain(chain)
  /\ fpc' = "done"
  /\ UNCHANGED <<fopt, fenv, raw, ctx, fetches, replies, late>>

\* The caller cancels the context, or its deadline passes.
EndContext ==
  /\ fpc \notin {"idle", "done"}
  /\ ctx = "live"
  /\ ctx' \in {"cancelled", "expired"}
  /\ UNCHANGED <<fpc, fopt, fenv, raw, fetches, replies, late, fresult>>

FulcioStep ==
  FulcioStart \/ FindToken \/ FetchToken \/ PrepareRequest \/ SendRequest
    \/ BeforeBackoff \/ SendHTTP \/ ReadChain

FulcioNext == FulcioStep \/ EndContext

\* Signer depends on somebody who may never answer: on Fulcio, which neither
\* path gives a time limit of its own, until the context ends; on the user in
\* front of the terminal, whatever the context does.
AwaitsAnswer ==
  \/ fpc \in {"send", "http"} /\ ctx = "live"
  \/ fpc = "token" /\ TokenSource(fopt, fenv) = "terminal"

\* The steps that are taken without anybody's help.  fetchToken is one: its
\* clients have a Timeout.
FulcioOwnStep == FulcioStep /\ ~ AwaitsAnswer

-----------------------------------------------------------------------------
(* Properties                                                              *)

\* getCert asks again only after an error that another request may cure, at
\* most three times, and at most one request is sent once the context has
\* ended: the one whose backoff was under way.
RetriesAreJustified ==
  /\ Len(replies) <= maxRetries
  /\ \A i \in 1 .. Len(replies) - 1 :
       replies[i] \in {"Unavailable", "DeadlineExceeded", "plain"}
  /\ late <= 1
  /\ fopt.useHTTP => Len(replies) <= 1

\* The identity Signer asks a certificate for is the one it was configured
\* with: an explicit token is used as it is, and the ambient GitHub Actions
\* token or the terminal is asked only when neither option is set.
ConfiguredIdentityIsUsed ==
  replies # <<>> =>
    /\ TokenHasSubject(raw)
    /\ fopt.token # "" => raw = fopt.token /\ fopt.tokenPath = ""
    /\ fopt.tokenPath # "" => fetches = <<>> /\ fopt.tokenPath # "missing"
    /\ fetches # <<>> => fopt.token = "" /\ fopt.tokenPath = ""
                         /\ Last(fetches) \in {"ok", "http11Ok"}

\* A call of Signer returns, or waits for ever for the one answer it has no
\* time limit for (the http.Client of fulcio.go:590 has none and the gRPC call of
\* 479 only the caller's context).  Retries and backoff come to an end by
\* themselves, and a context that ends frees every request.
SignerReturns == <>[](fpc \in {"idle", "done"} \/ AwaitsAnswer)
=============================================================================
