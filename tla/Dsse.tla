--------------------------------- MODULE Dsse ---------------------------------
(***************************************************************************)
(* dsse/sign.go and dsse/verify.go, and VerifyPolicySignature of           *)
(* internal/policy/policy.go, which decides on what Verify returns.  An    *)
(* envelope is signed by a list of signers, may be altered on its way, and *)
(* is verified against keys and certificate roots.                         *)
(*                                                                         *)
(* A key is its ID.  A certificate is abstracted to whether it parses, has *)
(* a supported key, chains to a root now, and meets the constraints asked  *)
(* of it; a timestamp to the authority it is from and to whether the       *)
(* certificate chains to a root at the time it states.                     *)
(***************************************************************************)
EXTENDS Integers, Sequences, FiniteSets

CONSTANTS Key,       \* keys of signers and verifiers
          Authority, \* timestamp authorities
          Instance,  \* signers, verifiers and options of an instance
          Absent     \* a nil signer or verifier, or no certificate

Stamp == [by : Authority, chains : BOOLEAN]
Certificate == [parses : BOOLEAN, supported : BOOLEAN, chains : BOOLEAN,
                meets : BOOLEAN]
Signer == [key : Key, cert : Certificate \cup {Absent}, stamps : Seq(Stamp)]

ASSUME InstanceAssumption ==
  \A i \in Instance :
    /\ i.signers \in Seq(Signer \cup {Absent})
    /\ i.verifiers \in Seq(Key \cup {Absent})
    /\ i.threshold \in Int
    /\ i.authorities \subseteq Authority
    /\ i.intact \in BOOLEAN

\* nil is no key and no certificate.
ASSUME AbsentAssumption == Absent \notin Key /\ Absent \notin Certificate

VARIABLES inst,      \* the instance; never changes
          phase,     \* sign, verify, policy or how it ended
          next,      \* next element of the list the phase loops over
          sigs,      \* e.Signatures
          at,        \* what of the signature Verify is at
          stamp,     \* the next timestamp of the signature
          tries,     \* what the timestamps of the signature gave so far
          checked,   \* checkedVerifiers
          verified,  \* the counter compared with the threshold
          outcome,   \* what Verify returned
          accepted   \* what VerifyPolicySignature returned

vars == <<inst, phase, next, sigs, at, stamp, tries, checked, verified, outcome,
          accepted>>

Init ==
  /\ inst \in Instance
  /\ phase = "sign"
  /\ next = 1
  /\ sigs = <<>>
  /\ at = 0
  /\ stamp = 1
  /\ tries = <<>>
  /\ checked = <<>>
  /\ verified = 0
  /\ outcome = "none"
  /\ accepted = "none"

-----------------------------------------------------------------------------
(* Sign                                                                    *)

Fail == phase' = "failed" /\ UNCHANGED <<next, sigs>>

\* One signer of the loop: a nil one is skipped; Sign, KeyID or a timestamper
\* may fail, which fails the whole of Sign.
SignOne ==
  /\ phase = "sign"
  /\ next <= Len(inst.signers)
  /\ \/ /\ next' = next + 1
        /\ sigs' = IF inst.signers[next] = Absent THEN sigs
                   ELSE Append(sigs, inst.signers[next])
        /\ UNCHANGED phase
     \/ inst.signers[next] # Absent /\ Fail
  /\ UNCHANGED <<inst, at, stamp, tries, checked, verified, outcome, accepted>>

\* Sign returns the envelope, or fails for want of signers; Verify begins.
SignReturns ==
  /\ phase = "sign"
  /\ next > Len(inst.signers)
  /\ IF inst.signers = <<>>
       THEN Fail
       ELSE phase' = "verify" /\ next' = 1 /\ UNCHANGED sigs
  /\ UNCHANGED <<inst, at, stamp, tries, checked, verified, outcome, accepted>>

-----------------------------------------------------------------------------
(* Verify: the loop over the signatures, in it one over the timestamps and *)
(* one over the configured verifiers                                       *)

Sig == sigs[next]

\* A CheckedVerifier; chains says whether a certificate belongs to a root at
\* the time it was checked for.
Checked(kind, key, chains, err) ==
  [kind |-> kind, key |-> key, chains |-> chains, error |-> err, sig |-> next]

\* verifyX509Time: without a supported key there is no verifier at all.
X509(chains) ==
  Checked(IF Sig.cert.supported THEN "x509" ELSE "nil", Sig.key, chains,
          ~ (Sig.cert.supported /\ chains /\ inst.intact))

Passing(cs) == {i \in DOMAIN cs : ~ cs[i].error}

CheckOptions ==
  /\ phase = "verify"
  /\ next = 1
  /\ inst.threshold <= 0 \/ sigs = <<>>
  /\ outcome' = "invalid"
  /\ phase' = "done"
  /\ UNCHANGED <<inst, next, sigs, at, stamp, tries, checked, verified, accepted>>

\* What the loop over the signatures is at: 0 for the certificate, then the
\* configured verifiers.
Checking(i) ==
  /\ phase = "verify"
  /\ inst.threshold > 0
  /\ next <= Len(sigs)
  /\ at = i
  /\ UNCHANGED <<inst, phase, sigs, outcome, accepted>>

\* Mutant of UnreadableCertificate: only the certificate is skipped.
UnreadableIsSkipped ==
  /\ Checking(0)
  /\ Sig.cert # Absent /\ ~ Sig.cert.parses
  /\ at' = 1
  /\ UNCHANGED <<next, stamp, tries, checked, verified>>

\* A certificate that does not parse ends the check of the signature, the
\* configured verifiers included.
UnreadableCertificate ==
  /\ Checking(0)
  /\ Sig.cert # Absent /\ ~ Sig.cert.parses
  /\ next' = next + 1
  /\ UNCHANGED <<at, stamp, tries, checked, verified>>

\* No certificate, or one that has to be good now.
CheckCertificate ==
  /\ Checking(0)
  /\ \/ /\ Sig.cert = Absent
        /\ UNCHANGED <<checked, verified>>
     \/ /\ Sig.cert # Absent /\ Sig.cert.parses /\ inst.authorities = {}
        /\ checked' = Append(checked, X509(Sig.cert.chains))
        /\ verified' = IF X509(Sig.cert.chains).error THEN verified ELSE verified + 1
  /\ at' = 1
  /\ UNCHANGED <<next, stamp, tries>>

ByTimestamp ==
  /\ Checking(0)
  /\ Sig.cert # Absent /\ Sig.cert.parses /\ inst.authorities # {}

\* One timestamp; it counts if one of the authorities vouches for it.
TryTimestamp ==
  /\ ByTimestamp
  /\ stamp <= Len(Sig.stamps)
  /\ tries' = IF Sig.stamps[stamp].by \in inst.authorities
                THEN Append(tries, X509(Sig.stamps[stamp].chains)) ELSE tries
  /\ stamp' = stamp + 1
  /\ UNCHANGED <<next, at, checked, verified>>

\* One timestamp that passes is enough; without one there is a failed entry for
\* each that was tried.
TimestampsTried ==
  /\ ByTimestamp
  /\ stamp > Len(Sig.stamps)
  /\ IF Passing(tries) # {}
       THEN /\ checked' = Append(checked, X509(TRUE))
            /\ verified' = verified + 1
       ELSE checked' = checked \o tries /\ UNCHANGED verified
  /\ at' = 1
  /\ stamp' = 1
  /\ tries' = <<>>
  /\ UNCHANGED next

\* One configured verifier, a nil one left out.
CheckKey ==
  /\ at \in 1 .. Len(inst.verifiers)
  /\ Checking(at)
  /\ LET k == inst.verifiers[at]
         good == k = Sig.key /\ inst.intact
     IN  /\ checked' = IF k = Absent THEN checked
                       ELSE Append(checked, Checked("key", k, FALSE, ~ good))
         /\ verified' = IF k # Absent /\ good THEN verified + 1 ELSE verified
  /\ at' = at + 1
  /\ UNCHANGED <<next, stamp, tries>>

NextSignature ==
  /\ Checking(Len(inst.verifiers) + 1)
  /\ next' = next + 1
  /\ at' = 0
  /\ UNCHANGED <<stamp, tries, checked, verified>>

\* Mutant of VerifyReturns: no match at all is not an error.
VerifyReturnsUnmatched ==
  /\ phase = "verify"
  /\ sigs # <<>>
  /\ next > Len(sigs)
  /\ outcome' = IF verified > 0 /\ verified < inst.threshold THEN "threshold" ELSE "ok"
  /\ phase' = IF outcome' = "ok" /\ inst.threshold = 1 THEN "policy" ELSE "done"
  /\ next' = 1
  /\ UNCHANGED <<inst, sigs, at, stamp, tries, checked, verified, accepted>>

\* The counter decides.
VerifyReturns ==
  /\ phase = "verify"
  /\ sigs # <<>>
  /\ next > Len(sigs)
  /\ outcome' = IF verified = 0 THEN "no matching signature"
                ELSE IF verified < inst.threshold THEN "threshold" ELSE "ok"
  /\ phase' = IF outcome' = "ok" /\ inst.threshold = 1 THEN "policy" ELSE "done"
  /\ next' = 1
  /\ UNCHANGED <<inst, sigs, at, stamp, tries, checked, verified, accepted>>

-----------------------------------------------------------------------------
(* VerifyPolicySignature, which verifies with the default threshold of one *)
(* and goes through the checked verifiers, those that failed included      *)

\* CertConstraint.Check: the constraints and the roots.
Check(c) == c.chains /\ sigs[c.sig].cert.meets

\* Functionary.Validate: a key against its own ID, a certificate against the
\* constraint.
Validate(c) == c.kind = "key" \/ (c.kind = "x509" /\ Check(c))

\* One checked verifier; a nil one cannot be asked for its ID.
PolicyOne ==
  /\ phase = "policy"
  /\ next <= Len(checked)
  /\ IF checked[next].kind = "nil"
       THEN accepted' = "panic" /\ phase' = "done" /\ UNCHANGED next
       ELSE /\ accepted' = IF Validate(checked[next]) THEN "yes" ELSE accepted
            /\ next' = next + 1
            /\ UNCHANGED phase
  /\ UNCHANGED <<inst, sigs, at, stamp, tries, checked, verified, outcome>>

PolicyReturns ==
  /\ phase = "policy"
  /\ next > Len(checked)
  /\ accepted' = IF accepted = "yes" THEN "yes" ELSE "no"
  /\ phase' = "done"
  /\ UNCHANGED <<inst, next, sigs, at, stamp, tries, checked, verified, outcome>>

Next ==
  \/ SignOne \/ SignReturns
  \/ CheckOptions \/ UnreadableCertificate \/ CheckCertificate
  \/ TryTimestamp \/ TimestampsTried \/ CheckKey \/ NextSignature \/ VerifyReturns
  \/ PolicyOne \/ PolicyReturns

Spec == Init /\ [][Next]_vars

-----------------------------------------------------------------------------
(* Properties                                                              *)

Readable(sig) == sig.cert = Absent \/ sig.cert.parses

\* The certificate of sig is good now, or at the time of a vouched timestamp.
CertificateHolds(sig) ==
  /\ sig.cert # Absent
  /\ sig.cert.supported
  /\ IF inst.authorities = {} THEN sig.cert.chains
     ELSE \E i \in DOMAIN sig.stamps :
            sig.stamps[i].by \in inst.authorities /\ sig.stamps[i].chains

\* The pairs of a signature and what it verifies under: 0 for its certificate,
\* a position for a configured verifier.
Matches ==
  {m \in (DOMAIN sigs) \X (0..Len(inst.verifiers)) :
     /\ inst.intact
     /\ Readable(sigs[m[1]])
     /\ IF m[2] = 0 THEN CertificateHolds(sigs[m[1]])
                    ELSE inst.verifiers[m[2]] = sigs[m[1]].key}

\* Envelope.Verify against its definition over pairs: it succeeds when there
\* are at least threshold of them, on an unaltered payload only, and each
\* verifier it returns without an error stands for one.
VerifyMatchesDefinition ==
  outcome \notin {"none", "invalid"} =>
    /\ outcome = "ok" <=> Cardinality(Matches) >= inst.threshold
    /\ \A i \in Passing(checked) : \E m \in Matches :
         /\ m[1] = checked[i].sig
         /\ (checked[i].kind = "key") <=> (m[2] > 0)
         /\ sigs[m[1]].key = checked[i].key

\* A policy is accepted only on the strength of a signature that verifies.
AcceptedPolicyIsSigned == accepted = "yes" => Matches # {}

\* internal/policy/policy.go:156, "no policy verifiers passed verification":
\* an accepted policy has a verifier that verified its signature and that also
\* meets the constraints.
AcceptedVerifierMeetsConstraints ==
  accepted = "yes" => \E i \in Passing(checked) : Validate(checked[i])
=============================================================================
