------------------------------- MODULE KmsSigner -------------------------------
(***************************************************************************)
(* signer/kms: a provider picks its backend by the prefix of its reference *)
(* and gets a client that signs and verifies with a key the service holds. *)
(* The AWS, GCP and Azure clients cache the key for 300 seconds; the key   *)
(* may be rotated (AWS: an alias is pointed to another key) or a version   *)
(* disabled at any moment, also between two calls of one operation.  The   *)
(* client options are one object per backend, shared by every provider.    *)
(* The Vault client has no cache, but a goroutine that keeps its login     *)
(* alive.  The services are external: a call may fail at any time.         *)
(***************************************************************************)
EXTENDS Naturals, FiniteSets, FiniteSetsExt

CONSTANTS MaxVersion, \* how often the key is rotated, plus one
          TTL,        \* lifetime of a cache entry, in ticks
          HashOf,     \* the hash of the algorithm of each key version
          CurveOf,    \* "rsa" or the curve of each key version
          Messages    \* what is signed: PAE encodings, never empty

Versions == 1 .. MaxVersion
Backends == {"aws", "gcp", "azure", "hashivault"}

VARIABLES kprov,   \* the provider: reference with its version, KeyVersion, hash
          kopt,    \* the client options all providers of the backend share
          kclient, \* the version and hash the client was made with
          kserver, \* newest key version, and the enabled ones
          kcache,  \* the cached key
          khalf,   \* AWS: the public key whose metadata is still to come
          kpc, kop, \* where the current operation is, and its arguments
          renewal  \* the Vault goroutine and its context

kmsVars == <<kprov, kopt, kclient, kserver, kcache, khalf, kpc, kop, renewal>>

\* What operations on the key leave alone.
kmsSetting == <<kprov, kopt, kclient, kserver, renewal>>

NoKey == [pub |-> 0, meta |-> 0, left |-> 0]
NoSig == [by |-> 0, msg |-> "", hash |-> ""]
NoOp == [kind |-> "none", sig |-> NoSig, msg |-> "", hash |-> "",
         retried |-> FALSE, verdict |-> "none"]

KmsInit ==
  /\ kprov = [ref |-> "", version |-> 0, keyVersion |-> 0, hash |-> "SHA256"]
  /\ kopt = <<>>
  /\ kclient = [version |-> 0, hash |-> ""]
  /\ kserver = [top |-> 1, enabled |-> {1}]
  /\ kcache = NoKey
  /\ khalf = 0
  /\ kpc = "new"
  /\ kop = NoOp
  /\ renewal = [at |-> "none", ctx |-> "live"]

-----------------------------------------------------------------------------
(* Options                                                                 *)

\* The defaults of the client options.
AwsOptions == [remote |-> TRUE, insecure |-> FALSE, credentials |-> "", config |-> "", profile |-> ""]
GcpOptions == [credentials |-> "", credType |-> "unset"]
AzureOptions == [remote |-> TRUE]
VaultOptions == [addr |-> "", tokenFile |-> "", transit |-> "transit", auth |-> "token",
                 saToken |-> "default", role |-> "", mount |-> "kubernetes", keyVersion |-> 0]

\* What the caller's setters can make of them.
AwsSettings == {[AwsOptions EXCEPT !.remote = r, !.credentials = c] :
                  r \in BOOLEAN, c \in {"file", "missing"}}
AzureSettings == {[AzureOptions EXCEPT !.remote = r] : r \in BOOLEAN}

\* Setting either credential type to any value, false included, selects it; the
\* defaults are set in order, so that the authorized user is the default.
GcpSettings == {[credentials |-> c, credType |-> t] :
                  c \in {"file"}, t \in {"serviceAccount", "authorizedUser"}}

\* The key version is not an option: New does not reset what an earlier provider
\* left there.
VaultSettings ==
  {[VaultOptions EXCEPT !.auth = a] : a \in {"token", "kubernetes", "other"}}
    \cup {[VaultOptions EXCEPT !.tokenFile = f] : f \in {"file", "missing"}}
    \cup {[VaultOptions EXCEPT !.keyVersion = left] : left \in Versions}

Settings(b) == CASE b = "aws" -> AwsSettings [] b = "gcp" -> GcpSettings
                 [] b = "azure" -> AzureSettings [] b = "hashivault" -> VaultSettings
                 [] b = "unknown" -> {<<>>}

\* WithHash knows SHA224 to SHA512; any other name means SHA256.
HashNamed(h) == IF h \in {"SHA224", "SHA256", "SHA384", "SHA512"} THEN h ELSE "SHA256"

\* What a reference names: AWS a key, by ID or ARN, or (version 0) an alias; GCP
\* and Azure a version, or none; Vault a path only.
AwsReferences == [ref : {"aws"}, version : {0} \cup Versions]
GcpReferences == [ref : {"gcp"}, version : {0} \cup Versions]
AzureReferences == [ref : {"azure"}, version : {0} \cup Versions]
VaultReferences == [ref : {"hashivault"}, version : {0}]

\* The fields WithRef, WithHash and WithKeyVersion set; every backend has the
\* option KeyVersion, and only Vault's client reads it.
KmsProviders ==
  {[ref |-> r.ref, version |-> r.version, keyVersion |-> v, hash |-> HashNamed(h)] :
     r \in AwsReferences \cup GcpReferences \cup AzureReferences \cup VaultReferences
             \cup {[ref |-> "unknown", version |-> 0]},
     v \in {0} \cup Versions,
     h \in {"sha256", "SHA224", "SHA384"}}

\* New applies every default to the option objects, which all providers share;
\* the caller's setters then write to them.
NewKms ==
  /\ kpc = "new"
  /\ kprov' \in KmsProviders
  /\ kopt' \in Settings(kprov'.ref)
  /\ kpc' = "signer"
  /\ UNCHANGED <<kclient, kserver, kcache, khalf, kop, renewal>>

\* Another provider of the same backend is made while the client is in use.
OtherProvider ==
  /\ kpc = "idle"
  /\ kprov.ref \in {"aws", "azure"}
  /\ kopt' \in {o \in Settings(kprov.ref) : kprov.ref = "aws" => o.credentials = kopt.credentials}
  /\ UNCHANGED <<kprov, kclient, kserver, kcache, khalf, kpc, kop, renewal>>

-----------------------------------------------------------------------------
(* Signer and Verifier: the prefix of the reference picks the backend      *)

SupportedHashes == {"SHA256", "SHA384", "SHA512"}

ClientFor(version, hash) ==
  /\ kclient' = [version |-> version, hash |-> hash]
  /\ kpc' = "idle"

\* newAWSClient reads the credentials file; LoadSignerVerifier checks the hash.
AwsClientIsMade == kopt.credentials # "missing"
LoadAws ==
  /\ AwsClientIsMade
  /\ kprov.hash \in SupportedHashes
  /\ ClientFor(kprov.version, kprov.hash)
  /\ UNCHANGED <<kopt, renewal>>

\* newGCPClient needs a credential type for its credentials file.
GcpClientIsMade == kopt.credentials # "" => kopt.credType # "unset"
LoadGcp ==
  /\ GcpClientIsMade
  /\ kprov.hash \in SupportedHashes
  /\ ClientFor(kprov.version, kprov.hash)
  /\ UNCHANGED <<kopt, renewal>>

\* Azure falls back to SHA256.
LoadAzure ==
  /\ ClientFor(kprov.version, IF kprov.hash \in SupportedHashes THEN kprov.hash ELSE "SHA256")
  /\ UNCHANGED <<kopt, renewal>>

\* login: a token is taken from its file, kubernetes yields a secret to renew.
Login ==
  /\ kopt.auth \in {"token", "kubernetes"}
  /\ kopt.auth = "token" => kopt.tokenFile # "missing"

\* newClient: a login that yields a secret starts the renewal goroutine.
StartRenewal == renewal' = [renewal EXCEPT !.at = IF kopt.auth = "kubernetes" THEN "watch" ELSE @]

\* Mutant of LoadVault: the version is written after the client was made.
LoadVaultLate ==
  /\ Login
  /\ kopt' = [kopt EXCEPT !.keyVersion = IF kprov.keyVersion # 0 THEN kprov.keyVersion ELSE @]
  /\ ClientFor(kopt.keyVersion, kprov.hash)
  /\ StartRenewal

\* Vault stores the version in the shared options, and reads it from there.
LoadVault ==
  /\ Login
  /\ kprov.hash \in SupportedHashes \cup {"SHA224"}
  /\ kopt' = [kopt EXCEPT !.keyVersion = IF kprov.keyVersion # 0 THEN kprov.keyVersion ELSE @]
  /\ ClientFor(kopt'.keyVersion, kprov.hash)
  /\ StartRenewal

\* No backend has the prefix, the reference does not parse, a file cannot be
\* read or the service refuses the connection.
ClientFails == kpc' = "failed" /\ UNCHANGED <<kopt, kclient, renewal>>

LoadSignerVerifier ==
  /\ kpc = "signer"
  /\ \/ kprov.ref = "aws" /\ LoadAws
     \/ kprov.ref = "gcp" /\ LoadGcp
     \/ kprov.ref = "azure" /\ LoadAzure
     \/ kprov.ref = "hashivault" /\ LoadVault
     \/ ClientFails
  /\ UNCHANGED <<kprov, kserver, kcache, khalf, kop>>

-----------------------------------------------------------------------------
(* The key services                                                        *)

Usable(v) == v \in kserver.enabled
Pinned == kclient.version # 0

Rotate ==
  /\ kpc # "new" /\ kserver.top < MaxVersion
  /\ kserver' = [top |-> kserver.top + 1, enabled |-> kserver.enabled \cup {kserver.top + 1}]
  /\ UNCHANGED <<kprov, kopt, kclient, kcache, khalf, kpc, kop, renewal>>

\* The newest version stays enabled.
Disable ==
  /\ kpc # "new"
  /\ \E v \in kserver.enabled : v < kserver.top /\ kserver' = [kserver EXCEPT !.enabled = @ \ {v}]
  /\ UNCHANGED <<kprov, kopt, kclient, kcache, khalf, kpc, kop, renewal>>

\* Time passes for the cache entry; a pinned GCP version never expires.
Tick ==
  /\ kcache.left > 0
  /\ kprov.ref = "gcp" => ~Pinned
  /\ kcache' = [kcache EXCEPT !.left = @ - 1]
  /\ UNCHANGED <<kprov, kopt, kclient, kserver, khalf, kpc, kop, renewal>>

-----------------------------------------------------------------------------
(* The cache: getCMK, getCKV, getKeyBundle                                 *)

Cached == kcache.left > 0
Finish(verdict) == kop' = [kop EXCEPT !.verdict = verdict] /\ kpc' = "idle"
Missing(b) ==
  kprov.ref = b /\ kpc \in {"hash", "sign", "verify", "retry", "bytes"} /\ ~Cached
Unavailable == Finish("unavailable") /\ UNCHANGED kcache

\* Mutant of Hit: a hit prolongs the entry.
HitTouches == kcache' = [kcache EXCEPT !.left = IF @ > 0 THEN TTL ELSE 0]

\* What a hit does to the entry: WithDisableTouchOnHit leaves its deadline alone.
Hit == UNCHANGED kcache

\* AWS names the key or the alias in every call; GCP and Azure the version of
\* the reference, or else the greatest enabled one, or the newest.
AwsKey == IF Pinned THEN kclient.version ELSE kserver.top
GcpVersion == IF Pinned THEN kclient.version ELSE Max({0} \cup kserver.enabled)
AzureVersion == IF Pinned THEN kclient.version ELSE kserver.top

\* fetchCMK: the public key, then the metadata, which may be another key's.
AwsFetchPublicKey ==
  /\ Missing("aws") /\ khalf = 0 /\ kpc # "bytes"
  /\ \/ Usable(AwsKey) /\ khalf' = AwsKey /\ UNCHANGED <<kcache, kpc, kop>>
     \/ Unavailable /\ UNCHANGED khalf
  /\ UNCHANGED kmsSetting

AwsFetchMetadata ==
  /\ khalf # 0
  /\ \/ kcache' = [pub |-> khalf, meta |-> AwsKey, left |-> TTL] /\ UNCHANGED <<kpc, kop>>
     \/ Unavailable
  /\ khalf' = 0
  /\ UNCHANGED kmsSetting

\* keyVersionName fetches the public key of the version it found.
GcpLoad ==
  /\ Missing("gcp")
  /\ \/ /\ Usable(GcpVersion)
        /\ kcache' = [pub |-> GcpVersion, meta |-> GcpVersion, left |-> TTL]
        /\ UNCHANGED <<kpc, kop>>
     \/ Unavailable
  /\ UNCHANGED <<kmsSetting, khalf>>

\* fetchKeyBundle refuses key types and curves it does not know.
AzureLoad ==
  /\ Missing("azure")
  /\ \/ /\ Usable(AzureVersion) /\ CurveOf[AzureVersion] # "P256K"
        /\ kcache' = [pub |-> AzureVersion, meta |-> AzureVersion, left |-> TTL]
        /\ UNCHANGED <<kpc, kop>>
     \/ Unavailable
  /\ UNCHANGED <<kmsSetting, khalf>>

-----------------------------------------------------------------------------
(* Sign                                                                    *)

\* Vault hashes with the provider's hash, the others ask for the key's first.
SignMessage ==
  /\ kpc = "idle"
  /\ \E m \in Messages : kop' = [NoOp EXCEPT !.kind = "sign", !.msg = m]
  /\ kpc' = IF kprov.ref = "hashivault" THEN "sign" ELSE "hash"
  /\ UNCHANGED <<kmsSetting, kcache, khalf>>

\* cmk.HashFunc and the algorithm of a GCP version; Azure's follows the curve.
KeyHash(v) == HashOf[v]
AzureHash(v) == CASE CurveOf[v] = "P384" -> "SHA384" [] CurveOf[v] = "P521" -> "SHA512"
                  [] OTHER -> "SHA256"
RequiredHash(v) == IF kprov.ref = "azure" THEN AzureHash(v) ELSE KeyHash(v)

\* getHashFunc and ComputeDigest: the hash of the cached key, not the provider's.
ComputeDigest ==
  /\ kpc = "hash" /\ Cached
  /\ Hit
  /\ kop' = [kop EXCEPT !.hash = RequiredHash(kcache.meta)]
  /\ kpc' = "sign"
  /\ UNCHANGED <<kmsSetting, khalf>>

Signed(v, h) ==
  /\ kop' = [kop EXCEPT !.sig = [by |-> v, msg |-> kop.msg, hash |-> h], !.verdict = "ok"]
  /\ kpc' = "idle"

\* A service refuses a disabled key and a digest that does not fit its algorithm.
Refused == Finish("refused")

\* The algorithm is that of the cached metadata, the key whatever the alias names.
AwsSign ==
  /\ kpc = "sign" /\ kprov.ref = "aws" /\ Cached
  /\ Hit
  /\ \/ /\ Usable(AwsKey)
        /\ KeyHash(kcache.meta) = KeyHash(AwsKey) /\ kop.hash = KeyHash(AwsKey)
        /\ Signed(AwsKey, kop.hash)
     \/ Refused
  /\ UNCHANGED <<kmsSetting, khalf>>

\* The request names the cached version; checksums guard both directions.
GcpSign ==
  /\ kpc = "sign" /\ kprov.ref = "gcp" /\ Cached
  /\ Hit
  /\ \/ /\ Usable(kcache.pub) /\ kop.hash = KeyHash(kcache.pub)
        /\ Signed(kcache.pub, kop.hash)
     \/ Refused
  /\ UNCHANGED <<kmsSetting, khalf>>

\* The algorithm follows the curve of the key cached by now, the digest that of
\* the key cached then.  A signature of an elliptic curve is dropped after the
\* call.
AzureSign ==
  /\ kpc = "sign" /\ kprov.ref = "azure" /\ Cached
  /\ Hit
  /\ \/ /\ Usable(AzureVersion) /\ CurveOf[AzureVersion] = CurveOf[kcache.pub]
        /\ kop.hash = AzureHash(kcache.pub)
        /\ CurveOf[kcache.pub] = "rsa"
        /\ Signed(AzureVersion, kop.hash)
     \/ Refused
  /\ UNCHANGED <<kmsSetting, khalf>>

\* Version 0 is the newest one.
VaultVersion == IF Pinned THEN kclient.version ELSE kserver.top

VaultSign ==
  /\ kpc = "sign" /\ kprov.ref = "hashivault"
  /\ \/ Usable(VaultVersion) /\ Signed(VaultVersion, kclient.hash)
     \/ Refused
  /\ UNCHANGED <<kmsSetting, kcache, khalf>>

-----------------------------------------------------------------------------
(* Verify and Bytes                                                        *)

\* The signature was made with some version of the key, here or elsewhere.
VerifySignature ==
  /\ kpc = "idle"
  /\ \E v \in 1 .. kserver.top, of, m \in Messages :
       kop' = [NoOp EXCEPT !.kind = "verify", !.msg = m,
                           !.sig = [by |-> v, msg |-> of, hash |-> RequiredHash(v)]]
  /\ kpc' = "verify"
  /\ UNCHANGED <<kmsSetting, kcache, khalf>>

\* A signature verifies under a key, a hash and the bytes still to be read.
Verifies(v, h, m) == kop.sig = [by |-> v, msg |-> m, hash |-> h]
Verdict(good) == IF good THEN "ok" ELSE "mismatch"

\* The cached key verifies, or the service does when the shared options say so.
AwsVerify ==
  /\ kpc = "verify" /\ kprov.ref = "aws" /\ Cached
  /\ Hit
  /\ \/ ~kopt.remote /\ Finish(Verdict(Verifies(kcache.pub, KeyHash(kcache.meta), kop.msg)))
     \/ kopt.remote /\ Finish(Verdict(Usable(AwsKey) /\ Verifies(AwsKey, KeyHash(kcache.meta), kop.msg)))
     \/ kopt.remote /\ Refused
  /\ UNCHANGED <<kmsSetting, khalf>>

AzureVerify ==
  /\ kpc = "verify" /\ kprov.ref = "azure" /\ Cached
  /\ Hit
  /\ \/ ~kopt.remote /\ Finish(Verdict(Verifies(kcache.pub, AzureHash(kcache.pub), kop.msg)))
     \/ kopt.remote /\ Finish(Verdict(/\ Usable(AzureVersion)
                                       /\ Verifies(AzureVersion, AzureHash(kcache.pub), kop.msg)))
     \/ kopt.remote /\ Refused
  /\ UNCHANGED <<kmsSetting, khalf>>

\* An unpinned GCP client drops the cached key after a failure and tries again,
\* with a reader that is at its end.
GcpVerify ==
  /\ kprov.ref = "gcp" /\ Cached
  /\ LET good(m) == Verifies(kcache.pub, KeyHash(kcache.meta), m)
     IN  \/ /\ kpc = "verify" /\ (good(kop.msg) \/ Pinned)
            /\ Hit
            /\ Finish(Verdict(good(kop.msg)))
         \/ /\ kpc = "verify" /\ ~good(kop.msg) /\ ~Pinned
            /\ kcache' = NoKey
            /\ kop' = [kop EXCEPT !.retried = TRUE]
            /\ kpc' = "retry"
         \/ /\ kpc = "retry"
            /\ Hit
            /\ Finish(Verdict(good("consumed")))
  /\ UNCHANGED <<kmsSetting, khalf>>

\* Vault verifies with the version the signature names.
VaultVerify ==
  /\ kpc = "verify" /\ kprov.ref = "hashivault"
  /\ \/ Finish(Verdict(Verifies(kop.sig.by, kclient.hash, kop.msg)))
     \/ Refused
  /\ UNCHANGED <<kmsSetting, kcache, khalf>>

\* Bytes: AWS asks for the public key each time, Vault for the version it signs
\* with, GCP and Azure answer from the cache.
PublicKeyBytes ==
  /\ kpc = "idle"
  /\ kop' = [NoOp EXCEPT !.kind = "bytes"]
  /\ kpc' = "bytes"
  /\ UNCHANGED <<kmsSetting, kcache, khalf>>

ReturnBytes ==
  /\ kpc = "bytes"
  /\ kprov.ref \in {"gcp", "azure"} => Cached
  /\ Hit
  /\ \/ \E v \in 1 .. kserver.top :
           /\ v = CASE kprov.ref = "aws" -> AwsKey [] kprov.ref = "hashivault" -> VaultVersion
                     [] OTHER -> kcache.pub
           /\ Signed(v, "")
     \/ kprov.ref \in {"aws", "hashivault"} /\ Refused
  /\ UNCHANGED <<kmsSetting, khalf>>

-----------------------------------------------------------------------------
(* hashivault: the renewal goroutine                                       *)

EndRenewalContext ==
  /\ renewal.at # "none" /\ renewal.ctx = "live"
  /\ renewal' = [renewal EXCEPT !.ctx = "done"]
  /\ UNCHANGED <<kprov, kopt, kclient, kserver, kcache, khalf, kpc, kop>>

\* Mutant of ContextDone: the context is looked at before a login only.
ContextDoneAtLogin ==
  /\ renewal.at = "login" /\ renewal.ctx = "done"
  /\ renewal' = [renewal EXCEPT !.at = "gone"]
  /\ UNCHANGED <<kprov, kopt, kclient, kserver, kcache, khalf, kpc, kop>>

\* renewAuth's select sees the end of the context, and the goroutine returns.
ContextDone ==
  /\ renewal.at = "watch" /\ renewal.ctx = "done"
  /\ renewal' = [renewal EXCEPT !.at = "gone"]
  /\ UNCHANGED <<kprov, kopt, kclient, kserver, kcache, khalf, kpc, kop>>

\* The watcher is done, or could not be made, which ends the goroutine; a
\* renewed lease changes nothing here.
WatcherDone ==
  /\ renewal.at = "watch"
  /\ renewal' \in {[renewal EXCEPT !.at = "login"], [renewal EXCEPT !.at = "gone"]}
  /\ UNCHANGED <<kprov, kopt, kclient, kserver, kcache, khalf, kpc, kop>>

\* A login with an ended context fails, and a failed login ends the goroutine.
Relogin ==
  /\ renewal.at = "login"
  /\ \/ renewal' = [renewal EXCEPT !.at = "gone"]
     \/ renewal.ctx = "live" /\ renewal' = [renewal EXCEPT !.at = "watch"]
  /\ UNCHANGED <<kprov, kopt, kclient, kserver, kcache, khalf, kpc, kop>>

KmsOperation ==
  \/ AwsFetchPublicKey \/ AwsFetchMetadata \/ GcpLoad \/ AzureLoad
  \/ ComputeDigest \/ AwsSign \/ GcpSign \/ AzureSign \/ VaultSign
  \/ AwsVerify \/ AzureVerify \/ GcpVerify \/ VaultVerify \/ ReturnBytes

KmsNext ==
  \/ NewKms \/ LoadSignerVerifier \/ OtherProvider
  \/ Rotate \/ Disable \/ Tick
  \/ SignMessage \/ VerifySignature \/ PublicKeyBytes \/ KmsOperation
  \/ EndRenewalContext \/ ContextDone \/ WatcherDone \/ Relogin

-----------------------------------------------------------------------------
(* Properties                                                              *)

\* The version that decides: of the reference with AWS, GCP and Azure, of the
\* option KeyVersion with Vault.
DecidingVersion == IF kprov.ref = "hashivault" THEN kprov.keyVersion ELSE kprov.version

\* A provider whose deciding version is set signs with that version and hands out
\* its public key only, whatever is rotated, expires from the cache or is
\* configured by others; and a signature's hash is the one its key requires,
\* although the hash and the algorithm come from two reads of the cache.  The
\* option KeyVersion pins nothing with AWS, GCP and Azure, although
\* signerprovider.go:60 calls it "The key version to use for signing": only
\* hashivault/signer.go:61 reads it.
PinnedVersionHolds ==
  (kop.kind \in {"sign", "bytes"} /\ kop.verdict = "ok") =>
    /\ DecidingVersion # 0 => kop.sig.by = DecidingVersion
    /\ kop.kind = "sign" /\ kprov.ref # "hashivault" => kop.sig.hash = RequiredHash(kop.sig.by)

\* A rotation is noticed: once the key has its last version, the cache of an
\* unpinned client does not go on serving an older one, however often it is hit.
KeyRotationIsNoticed ==
  (kserver.top = MaxVersion /\ ~Pinned) ~> (~Cached \/ kcache.pub = MaxVersion)

\* The goroutine that renews the Vault login ends with its context.
RenewalStops == (renewal.ctx = "done") ~> (renewal.at = "gone")
=============================================================================
