------------------------------ MODULE DsseProofs ------------------------------
(***************************************************************************)
(* Envelope.Verify and VerifyPolicySignature for every list of signers and *)
(* verifiers, every threshold and any timestamps: the counter that Verify  *)
(* compares with its threshold is the number of pairs of a signature and   *)
(* what it verifies under, and an accepted policy has one.                 *)
(*                                                                         *)
(* The argument: the loops come to each pair once, in lexicographic order, *)
(* so the counter is the number of matching pairs behind them; a           *)
(* certificate is settled by its timestamps, of which those tried so far   *)
(* are on record.                                                          *)
(***************************************************************************)
EXTENDS Dsse, FiniteSetTheorems, TLAPS

Entry == [kind : {"x509", "nil", "key"}, key : Key, chains : BOOLEAN,
          error : BOOLEAN, sig : Nat]

Types ==
  /\ inst \in Instance
  /\ phase \in {"sign", "failed", "verify", "policy", "done"}
  /\ next \in Nat /\ next > 0
  /\ sigs \in Seq(Signer)
  /\ at \in Nat
  /\ stamp \in Nat /\ stamp > 0
  /\ tries \in Seq(Entry)
  /\ checked \in Seq(Entry)
  /\ verified \in Nat

\* The matching pairs behind signature n and its candidate a.
Counted(n, a) == {m \in Matches : m[1] < n \/ (m[1] = n /\ m[2] < a)}

\* Where the loops of Verify can be.
LoopInv ==
  /\ phase = "sign" => at = 0 /\ verified = 0 /\ checked = <<>>
  /\ phase # "verify" \/ at # 0 => stamp = 1 /\ tries = <<>>
  /\ phase = "verify" =>
       /\ at <= Len(inst.verifiers) + 1
       /\ at # 0 => next <= Len(sigs) /\ Readable(Sig)
       /\ next # 1 \/ at # 0 \/ stamp # 1 => inst.threshold > 0

CountInv == phase = "verify" => verified = Cardinality(Counted(next, at))

\* What the timestamps before stamp gave.
TriesInv ==
  /\ stamp # 1 => /\ next <= Len(sigs) /\ stamp <= Len(Sig.stamps) + 1
                  /\ Sig.cert # Absent /\ Sig.cert.parses /\ inst.authorities # {}
  /\ tries # <<>> => stamp # 1
  /\ \A i \in DOMAIN tries : \E j \in 1 .. (stamp - 1) :
       Sig.stamps[j].by \in inst.authorities /\ tries[i] = X509(Sig.stamps[j].chains)
  /\ \A j \in 1 .. (stamp - 1) :
       Sig.stamps[j].by \in inst.authorities =>
         \E i \in DOMAIN tries : tries[i] = X509(Sig.stamps[j].chains)

\* A pair that entry c stands for.
Stands(c) ==
  \E m \in Matches : /\ m[1] = c.sig
                     /\ (c.kind = "key") <=> (m[2] > 0)
                     /\ sigs[m[1]].key = c.key

StandsInv ==
  \A i \in Passing(checked) : Stands(checked[i])

OutcomeInv ==
  /\ phase \in {"sign", "verify", "failed"} => outcome = "none"
  /\ outcome \notin {"none", "invalid"} =>
       /\ inst.threshold > 0
       /\ outcome = "ok" <=> Cardinality(Matches) >= inst.threshold
  /\ phase = "policy" \/ accepted = "yes" => outcome = "ok"

DInv == Types /\ LoopInv /\ CountInv /\ TriesInv /\ StandsInv /\ OutcomeInv

-----------------------------------------------------------------------------
(* Pairs                                                                   *)

LEMMA InstanceFacts ==
  ASSUME inst \in Instance
  PROVE  /\ inst.signers \in Seq(Signer \cup {Absent})
         /\ inst.verifiers \in Seq(Key \cup {Absent})
         /\ inst.threshold \in Int
         /\ inst.intact \in BOOLEAN
BY InstanceAssumption

LEMMA PairFacts ==
  ASSUME Types
  PROVE  /\ \A m \in Matches : /\ m = <<m[1], m[2]>>
                               /\ m[1] \in 1 .. Len(sigs)
                               /\ m[2] \in 0 .. Len(inst.verifiers)
         /\ IsFiniteSet(Matches)
<1>1. Len(sigs) \in Nat /\ Len(inst.verifiers) \in Nat /\ DOMAIN sigs = 1 .. Len(sigs)
  BY InstanceFacts DEF Types
<1>2. Matches \subseteq (1 .. Len(sigs)) \X (0 .. Len(inst.verifiers))
  BY <1>1 DEF Matches
<1>3. IsFiniteSet((1 .. Len(sigs)) \X (0 .. Len(inst.verifiers)))
  <2> DEFINE S == 1 .. Len(sigs)
             T == 0 .. Len(inst.verifiers)
  <2>1. IsFiniteSet(S) /\ IsFiniteSet(T)
    BY <1>1, FS_Interval
  <2> HIDE DEF S, T
  <2>2. IsFiniteSet(S \X T)
    BY <2>1, FS_Product
  <2> QED
    BY <2>2 DEF S, T
<1>4. IsFiniteSet(Matches)
  BY <1>2, <1>3, FS_Subset
<1>5. ASSUME NEW m \in Matches
      PROVE  /\ m = <<m[1], m[2]>> /\ m[1] \in 1 .. Len(sigs)
             /\ m[2] \in 0 .. Len(inst.verifiers)
  <2>1. m \in (1 .. Len(sigs)) \X (0 .. Len(inst.verifiers))
    BY <1>2
  <2> QED
    BY <2>1
<1> QED
  BY <1>4, <1>5

LEMMA KeyPair ==
  ASSUME Types, NEW n \in 1 .. Len(sigs), NEW a \in 1 .. Len(inst.verifiers)
  PROVE  <<n, a>> \in Matches <=>
           inst.intact /\ Readable(sigs[n]) /\ inst.verifiers[a] = sigs[n].key
<1>1. Len(sigs) \in Nat /\ Len(inst.verifiers) \in Nat /\ DOMAIN sigs = 1 .. Len(sigs)
  BY InstanceFacts DEF Types
<1>2. <<n, a>> \in (DOMAIN sigs) \X (0 .. Len(inst.verifiers)) /\ a # 0
  BY <1>1
<1> QED
  BY <1>2 DEF Matches

LEMMA CertPair ==
  ASSUME Types, NEW n \in 1 .. Len(sigs)
  PROVE  <<n, 0>> \in Matches <=>
           inst.intact /\ Readable(sigs[n]) /\ CertificateHolds(sigs[n])
<1>1. Len(sigs) \in Nat /\ Len(inst.verifiers) \in Nat /\ DOMAIN sigs = 1 .. Len(sigs)
  BY InstanceFacts DEF Types
<1>2. <<n, 0>> \in (DOMAIN sigs) \X (0 .. Len(inst.verifiers))
  BY <1>1
<1> QED
  BY <1>2 DEF Matches

\* One more candidate: the pair counts if it matches.
LEMMA CountNext ==
  ASSUME Types, NEW n \in Nat, NEW a \in Nat
  PROVE  /\ <<n, a>> \in Matches =>
              Cardinality(Counted(n, a + 1)) = Cardinality(Counted(n, a)) + 1
         /\ <<n, a>> \notin Matches => Counted(n, a + 1) = Counted(n, a)
<1>1. \A m \in Matches : /\ m[1] \in Nat /\ m[2] \in Nat
                         /\ m = <<n, a>> <=> m[1] = n /\ m[2] = a
  BY PairFacts
<1>2. \A m \in Matches : m[2] < a + 1 <=> m[2] < a \/ m[2] = a
  BY <1>1
<1>3. Counted(n, a + 1) = Counted(n, a) \cup {m \in Matches : m = <<n, a>>}
  BY <1>1, <1>2 DEF Counted
<1>4. <<n, a>> \notin Counted(n, a)
  BY <1>1 DEF Counted
<1>5. IsFiniteSet(Counted(n, a))
  BY PairFacts, FS_Subset DEF Counted
<1>6. CASE <<n, a>> \in Matches
  <2>1. Counted(n, a + 1) = Counted(n, a) \cup {<<n, a>>}
    BY <1>3, <1>6
  <2> QED
    BY <1>4, <1>5, <1>6, <2>1, FS_AddElement
<1>7. CASE <<n, a>> \notin Matches
  BY <1>3, <1>7
<1> QED
  BY <1>6, <1>7

\* The next signature.
LEMMA CountSignature ==
  ASSUME Types, NEW n \in Nat, NEW a \in Nat,
         \A m \in Matches : m[1] = n => m[2] < a
  PROVE  Counted(n + 1, 0) = Counted(n, a)
<1>1. \A m \in Matches : m[1] \in Nat /\ m[2] \in Nat
  BY PairFacts
<1>2. \A m \in Matches : (m[1] < n + 1 \/ (m[1] = n + 1 /\ m[2] < 0)) <=> m[1] < n \/ m[1] = n
  BY <1>1
<1> QED
  BY <1>1, <1>2 DEF Counted

\* Matching depends on the instance and the signatures only.
LEMMA MatchesStay ==
  ASSUME UNCHANGED <<inst, sigs>>
  PROVE  /\ Matches' = Matches
         /\ \A c : Stands(c)' <=> Stands(c)
<1>1. Matches' = Matches
  BY DEF Matches, Readable, CertificateHolds
<1> QED
  BY <1>1 DEF Stands

-----------------------------------------------------------------------------
(* The loops of Verify                                                     *)

\* What every step of the loops has in common.
LEMMA CheckingFacts ==
  ASSUME DInv, NEW i, Checking(i)
  PROVE  /\ at = i /\ phase = "verify" /\ inst.threshold > 0
         /\ next \in 1 .. Len(sigs) /\ Len(sigs) \in Nat /\ Sig \in Signer
         /\ Len(inst.verifiers) \in Nat /\ inst.intact \in BOOLEAN
         /\ UNCHANGED <<inst, phase, sigs, outcome, accepted>>
         /\ Matches' = Matches /\ OutcomeInv'
         /\ Counted(next, at)' = Counted(next', at')
         /\ verified = Cardinality(Counted(next, at))
<1>1. Types /\ OutcomeInv /\ CountInv
  BY DEF DInv
<1>2. /\ at = i /\ phase = "verify" /\ inst.threshold > 0 /\ next <= Len(sigs)
      /\ UNCHANGED <<inst, phase, sigs, outcome, accepted>>
  BY DEF Checking
<1>3. Len(sigs) \in Nat /\ Len(inst.verifiers) \in Nat /\ inst.intact \in BOOLEAN
  BY <1>1, InstanceFacts DEF Types
<1>4. next \in 1 .. Len(sigs)
  BY <1>1, <1>2, <1>3 DEF Types
<1>5. Sig \in Signer
  BY <1>1, <1>4 DEF Types, Sig
<1>6. Matches' = Matches
  BY <1>2, MatchesStay
<1>7. OutcomeInv'
  BY <1>1, <1>2, <1>6 DEF OutcomeInv
<1>8. Counted(next, at)' = Counted(next', at')
  BY <1>6 DEF Counted
<1>9. verified = Cardinality(Counted(next, at))
  BY <1>1, <1>2 DEF CountInv
<1> QED
  BY <1>2, <1>3, <1>4, <1>5, <1>6, <1>7, <1>8, <1>9

\* One entry more, which stands for a pair if it has no error.
LEMMA AppendStands ==
  ASSUME Types, StandsInv, UNCHANGED <<inst, sigs>>, NEW e \in Entry,
         checked' = Append(checked, e), ~ e.error => Stands(e)
  PROVE  StandsInv' /\ checked' \in Seq(Entry)
<1>1. checked \in Seq(Entry) /\ Len(checked) \in Nat
  BY DEF Types
<1>2. /\ checked' \in Seq(Entry) /\ DOMAIN checked' = 1 .. (Len(checked) + 1)
      /\ \A j \in 1 .. Len(checked) : checked'[j] = checked[j]
      /\ checked'[Len(checked) + 1] = e
  BY <1>1
<1>3. ASSUME NEW j \in Passing(checked') PROVE Stands(checked'[j])
  <2>1. j \in 1 .. (Len(checked) + 1) /\ ~ checked'[j].error
    BY <1>2 DEF Passing
  <2>2. CASE j \in 1 .. Len(checked)
    <3>1. j \in Passing(checked) /\ checked'[j] = checked[j]
      BY <1>1, <1>2, <2>1, <2>2 DEF Passing
    <3> QED
      BY <3>1 DEF StandsInv
  <2>3. CASE j = Len(checked) + 1
    BY <1>2, <2>1, <2>3
  <2> QED
    BY <1>1, <2>1, <2>2, <2>3
<1>4. ASSUME NEW j \in Passing(checked)' PROVE Stands(checked[j])'
  <2>1. j \in Passing(checked')
    BY <1>4 DEF Passing
  <2>2. Stands(checked'[j])
    BY <1>3, <2>1
  <2> QED
    BY <2>2, MatchesStay DEF Stands
<1> QED
  BY <1>2, <1>4 DEF StandsInv

LEMMA X509Facts ==
  ASSUME DInv, Checking(0), Sig.cert # Absent, NEW ch \in BOOLEAN
  PROVE  /\ X509(ch) \in Entry /\ X509(ch).kind # "key"
         /\ X509(ch).sig = next /\ X509(ch).key = Sig.key
         /\ X509(ch).error <=> ~ (Sig.cert.supported /\ ch /\ inst.intact)
<1>1. Sig \in Signer /\ inst.intact \in BOOLEAN /\ next \in Nat
  BY CheckingFacts DEF DInv, Types
<1>2. Sig.key \in Key /\ Sig.cert \in Certificate
  BY <1>1 DEF Signer
<1>3. Sig.cert.supported \in BOOLEAN
  BY <1>2 DEF Certificate
<1> QED
  BY <1>1, <1>2, <1>3 DEF X509, Checked, Entry

\* The entry of a certificate that passes stands for the pair of its signature
\* and 0.
LEMMA CertStands ==
  ASSUME DInv, Checking(0), Sig.cert # Absent, <<next, 0>> \in Matches,
         NEW ch \in BOOLEAN
  PROVE  Stands(X509(ch))
<1>1. X509(ch).kind # "key" /\ X509(ch).sig = next /\ X509(ch).key = sigs[next].key
  BY X509Facts DEF Sig
<1>2. <<next, 0>>[1] = next /\ <<next, 0>>[2] = 0
  OBVIOUS
<1> QED
  BY <1>1, <1>2 DEF Stands

LEMMA NoTries == stamp' = 1 /\ tries' = <<>> => TriesInv'
<1> SUFFICES ASSUME stamp' = 1, tries' = <<>> PROVE TriesInv'
  OBVIOUS
<1>1. DOMAIN tries' = {} /\ 1 .. (stamp' - 1) = {}
  OBVIOUS
<1> QED
  BY <1>1 DEF TriesInv

\* The certificate of a signature is settled: its pair counts if it matches.
LEMMA CertificateStep ==
  ASSUME DInv, Checking(0), Readable(Sig), at' = 1, next' = next, stamp' = 1, tries' = <<>>,
         checked' \in Seq(Entry), StandsInv',
         verified' = IF <<next, 0>> \in Matches THEN verified + 1 ELSE verified
  PROVE  DInv'
<1>1. Types /\ LoopInv
  BY DEF DInv
<1>2. /\ at = 0 /\ phase = "verify" /\ inst.threshold > 0 /\ next \in 1 .. Len(sigs)
      /\ Len(sigs) \in Nat /\ Len(inst.verifiers) \in Nat
      /\ UNCHANGED <<inst, phase, sigs>> /\ OutcomeInv'
      /\ Counted(next, at)' = Counted(next', at')
      /\ verified = Cardinality(Counted(next, at))
  BY CheckingFacts
<1>3. Types'
  BY <1>1, <1>2, SMTT(30) DEF Types
<1>4. LoopInv'
  BY <1>2 DEF LoopInv, Sig, Readable
<1>5. CountInv'
  <2>1. Counted(next, 0 + 1) = Counted(next', at')
    BY <1>1
  <2>2. verified' = Cardinality(Counted(next, 0 + 1))
    BY <1>1, <1>2, CountNext DEF Types
  <2> QED
    BY <1>2, <2>1, <2>2 DEF CountInv
<1>6. TriesInv'
  BY NoTries
<1> QED
  BY <1>2, <1>3, <1>4, <1>5, <1>6 DEF DInv

LEMMA UnreadableStep ==
  ASSUME DInv, UnreadableCertificate
  PROVE  DInv'
<1>0. Checking(0) /\ Types /\ LoopInv /\ TriesInv /\ StandsInv
  BY DEF UnreadableCertificate, DInv
<1>1. /\ at = 0 /\ phase = "verify" /\ inst.threshold > 0 /\ next \in 1 .. Len(sigs)
      /\ Len(sigs) \in Nat /\ Len(inst.verifiers) \in Nat
      /\ UNCHANGED <<inst, phase, sigs>> /\ OutcomeInv'
      /\ Counted(next, at)' = Counted(next', at')
      /\ verified = Cardinality(Counted(next, at))
  BY <1>0, CheckingFacts
<1>2. /\ next' = next + 1 /\ UNCHANGED <<at, stamp, tries, checked, verified>>
      /\ ~ Readable(sigs[next]) /\ stamp = 1 /\ tries = <<>>
  BY <1>0 DEF UnreadableCertificate, Readable, Sig, TriesInv
<1>3. Types'
  BY <1>0, <1>1, <1>2 DEF Types
<1>4. LoopInv'
  BY <1>0, <1>1, <1>2 DEF LoopInv
<1>5. CountInv'
  <2>1. \A m \in Matches : m[1] # next
    BY <1>2 DEF Matches
  <2>2. Counted(next + 1, 0) = Counted(next, 0)
    BY <1>0, <2>1, CountSignature DEF Types
  <2> QED
    BY <1>1, <1>2, <2>2 DEF CountInv
<1>6. TriesInv'
  BY <1>2, NoTries
<1>7. StandsInv'
  BY <1>0, <1>1, <1>2, MatchesStay DEF StandsInv, Stands, Passing
<1> QED
  BY <1>1, <1>3, <1>4, <1>5, <1>6, <1>7 DEF DInv

LEMMA CheckCertificateStep ==
  ASSUME DInv, CheckCertificate
  PROVE  DInv'
<1>0. Checking(0) /\ Types /\ LoopInv /\ TriesInv /\ StandsInv
  BY DEF CheckCertificate, DInv
<1>1. /\ next \in 1 .. Len(sigs) /\ UNCHANGED <<inst, sigs>>
      /\ Sig \in Signer /\ inst.intact \in BOOLEAN
  BY <1>0, CheckingFacts
<1>2. /\ at' = 1 /\ next' = next /\ stamp' = stamp /\ tries' = tries
      /\ Sig.cert = Absent \/ inst.authorities = {}
      /\ Readable(Sig)
  BY DEF CheckCertificate, Readable
<1>3. stamp' = 1 /\ tries' = <<>>
  BY <1>0, <1>2 DEF TriesInv
<1>4. CASE Sig.cert = Absent
  <2>1. UNCHANGED <<checked, verified>>
    BY <1>4 DEF CheckCertificate
  <2>2. <<next, 0>> \notin Matches
    BY <1>0, <1>1, <1>4, CertPair DEF CertificateHolds, Sig
  <2>3. StandsInv' /\ checked' \in Seq(Entry)
    BY <1>0, <1>1, <2>1, MatchesStay DEF StandsInv, Stands, Passing, Types
  <2> QED
    BY <1>0, <1>2, <1>3, <2>1, <2>2, <2>3, CertificateStep
<1>5. CASE Sig.cert # Absent
  <2> DEFINE e == X509(Sig.cert.chains)
  <2>1. /\ checked' = Append(checked, e)
        /\ verified' = IF e.error THEN verified ELSE verified + 1
        /\ inst.authorities = {}
    BY <1>5 DEF CheckCertificate
  <2>2. Sig.cert.chains \in BOOLEAN /\ Sig.cert.supported \in BOOLEAN
    BY <1>1, <1>5 DEF Signer, Certificate
  <2>3. e \in Entry /\ (e.error <=> ~ (Sig.cert.supported /\ Sig.cert.chains /\ inst.intact))
    BY <1>0, <1>5, <2>2, X509Facts
  <2>4. <<next, 0>> \in Matches <=> ~ e.error
    <3>1. <<next, 0>> \in Matches <=> inst.intact /\ CertificateHolds(Sig)
      BY <1>0, <1>1, <1>2, CertPair DEF Sig
    <3> QED
      BY <1>5, <2>1, <2>3, <3>1 DEF CertificateHolds
  <2>5. ~ e.error => Stands(e)
    BY <1>0, <1>5, <2>2, <2>4, CertStands
  <2> HIDE DEF e
  <2>6. StandsInv' /\ checked' \in Seq(Entry)
    BY <1>0, <1>1, <2>1, <2>3, <2>5, AppendStands
  <2>7. verified' = IF <<next, 0>> \in Matches THEN verified + 1 ELSE verified
    BY <2>1, <2>4
  <2> QED
    BY <1>0, <1>2, <1>3, <2>6, <2>7, CertificateStep
<1> QED
  BY <1>4, <1>5

LEMMA TryStep ==
  ASSUME DInv, TryTimestamp
  PROVE  DInv'
<1>0. /\ Checking(0) /\ Types /\ LoopInv /\ TriesInv /\ StandsInv /\ CountInv
      /\ Sig.cert # Absent /\ Sig.cert.parses /\ inst.authorities # {}
  BY DEF TryTimestamp, ByTimestamp, DInv
<1>1. /\ at = 0 /\ phase = "verify" /\ inst.threshold > 0 /\ next \in 1 .. Len(sigs)
      /\ Len(sigs) \in Nat /\ Sig \in Signer
      /\ UNCHANGED <<inst, phase, sigs>> /\ OutcomeInv'
      /\ Counted(next, at)' = Counted(next', at')
  BY <1>0, CheckingFacts
<1> DEFINE t == Sig.stamps[stamp]
           e == X509(t.chains)
<1>2. /\ UNCHANGED <<next, at, checked, verified>> /\ stamp' = stamp + 1
      /\ stamp <= Len(Sig.stamps)
      /\ tries' = IF t.by \in inst.authorities THEN Append(tries, e) ELSE tries
  BY DEF TryTimestamp
<1>3. Sig.stamps \in Seq(Stamp) /\ Len(Sig.stamps) \in Nat /\ stamp \in Nat /\ stamp > 0
  BY <1>0, <1>1 DEF Signer, Types
<1>4. t.chains \in BOOLEAN
  <2>1. Sig.stamps[stamp] \in Stamp
    BY <1>2, <1>3
  <2> QED
    BY <2>1 DEF Stamp
<1>5. e \in Entry
  BY <1>0, <1>4, X509Facts
<1>6. \A ch : X509(ch)' = X509(ch) /\ Sig' = Sig
  BY <1>1, <1>2 DEF X509, Checked, Sig
<1> HIDE DEF t, e
<1>7. tries \in Seq(Entry) /\ Len(tries) \in Nat
  BY <1>0 DEF Types
<1>8. /\ tries' \in Seq(Entry)
      /\ \A i \in DOMAIN tries : i \in DOMAIN tries' /\ tries'[i] = tries[i]
      /\ \A i \in DOMAIN tries' : \/ i \in DOMAIN tries
                                  \/ t.by \in inst.authorities /\ tries'[i] = e
      /\ t.by \in inst.authorities => \E i \in DOMAIN tries' : tries'[i] = e
  <2>1. CASE t.by \in inst.authorities
    <3>1. /\ tries' = Append(tries, e) /\ tries' \in Seq(Entry)
          /\ DOMAIN tries' = 1 .. (Len(tries) + 1) /\ DOMAIN tries = 1 .. Len(tries)
          /\ \A i \in 1 .. Len(tries) : tries'[i] = tries[i]
          /\ tries'[Len(tries) + 1] = e
      BY <1>2, <1>5, <1>7, <2>1
    <3>2. \A i \in 1 .. (Len(tries) + 1) : i \in 1 .. Len(tries) \/ i = Len(tries) + 1
      BY <1>7
    <3>3. Len(tries) + 1 \in DOMAIN tries' /\ DOMAIN tries \subseteq DOMAIN tries'
      BY <1>7, <3>1
    <3> QED
      BY <2>1, <3>1, <3>2, <3>3
  <2>2. CASE t.by \notin inst.authorities
    BY <1>2, <1>7, <2>2
  <2> QED
    BY <2>1, <2>2
<1>9. Types'
  BY <1>0, <1>1, <1>2, <1>3, <1>8 DEF Types
<1>10. LoopInv'
  BY <1>0, <1>1, <1>2, <1>6 DEF LoopInv
<1>11. CountInv'
  BY <1>0, <1>1, <1>2 DEF CountInv
<1>12. StandsInv'
  BY <1>0, <1>1, <1>2, MatchesStay DEF StandsInv, Stands, Passing
<1>13. TriesInv'
  <2>1. \A j \in 1 .. (stamp' - 1) : j \in 1 .. (stamp - 1) \/ j = stamp
    BY <1>2, <1>3
  <2>2. stamp \in 1 .. (stamp' - 1) /\ 1 .. (stamp - 1) \subseteq 1 .. (stamp' - 1)
    BY <1>2, <1>3
  <2>3. /\ stamp' # 1 => /\ next' <= Len(sigs') /\ stamp' <= Len(Sig'.stamps) + 1
                         /\ Sig'.cert # Absent /\ Sig'.cert.parses /\ inst'.authorities # {}
        /\ tries' # <<>> => stamp' # 1
    BY <1>0, <1>1, <1>2, <1>3, <1>6
  <2>4. ASSUME NEW i \in DOMAIN tries'
        PROVE  \E j \in 1 .. (stamp' - 1) :
                 Sig.stamps[j].by \in inst.authorities /\ tries'[i] = X509(Sig.stamps[j].chains)
    <3>1. CASE i \in DOMAIN tries
      <4>1. PICK j \in 1 .. (stamp - 1) :
              Sig.stamps[j].by \in inst.authorities /\ tries[i] = X509(Sig.stamps[j].chains)
        BY <1>0, <3>1 DEF TriesInv
      <4> QED
        BY <1>8, <2>2, <3>1, <4>1
    <3>2. CASE t.by \in inst.authorities /\ tries'[i] = e
      BY <2>2, <3>2 DEF t, e
    <3> QED
      BY <1>8, <3>1, <3>2
  <2>5. ASSUME NEW j \in 1 .. (stamp' - 1), Sig.stamps[j].by \in inst.authorities
        PROVE  \E i \in DOMAIN tries' : tries'[i] = X509(Sig.stamps[j].chains)
    <3>1. CASE j \in 1 .. (stamp - 1)
      <4>1. PICK i \in DOMAIN tries : tries[i] = X509(Sig.stamps[j].chains)
        BY <1>0, <2>5, <3>1 DEF TriesInv
      <4> QED
        BY <1>8, <4>1
    <3>2. CASE j = stamp
      BY <1>8, <2>5, <3>2 DEF t, e
    <3> QED
      BY <2>1, <3>1, <3>2
  <2> QED
    BY <1>1, <1>6, <2>3, <2>4, <2>5 DEF TriesInv
<1> QED
  BY <1>1, <1>9, <1>10, <1>11, <1>12, <1>13 DEF DInv

\* A timestamp passed if and only if the certificate's pair matches.
LEMMA TriedFacts ==
  ASSUME DInv, TimestampsTried
  PROVE  Passing(tries) # {} <=> <<next, 0>> \in Matches
<1>0. /\ Checking(0) /\ Types /\ TriesInv
      /\ Sig.cert # Absent /\ Sig.cert.parses /\ inst.authorities # {}
  BY DEF TimestampsTried, ByTimestamp, DInv
<1>1. next \in 1 .. Len(sigs) /\ Sig \in Signer /\ inst.intact \in BOOLEAN
  BY <1>0, CheckingFacts
<1>2. Sig.stamps \in Seq(Stamp) /\ Len(Sig.stamps) \in Nat /\ stamp \in Nat /\ stamp > 0
  BY <1>0, <1>1 DEF Signer, Types
<1>3. DOMAIN Sig.stamps = 1 .. Len(Sig.stamps)
  BY <1>2
<1>4. stamp > Len(Sig.stamps)
  BY DEF TimestampsTried
<1>5. stamp # 1 => stamp <= Len(Sig.stamps) + 1
  BY <1>0 DEF TriesInv
<1>6. 1 .. (stamp - 1) = DOMAIN Sig.stamps
  <2>1. stamp - 1 = Len(Sig.stamps)
    BY <1>2, <1>4, <1>5
  <2> QED
    BY <1>3, <2>1
<1>7. <<next, 0>> \in Matches <=> inst.intact /\ CertificateHolds(Sig)
  BY <1>0, <1>1, CertPair DEF Sig, Readable
<1>8. \A j \in DOMAIN Sig.stamps :
        /\ Sig.stamps[j].chains \in BOOLEAN
        /\ X509(Sig.stamps[j].chains).error
             <=> ~ (Sig.cert.supported /\ Sig.stamps[j].chains /\ inst.intact)
  <2>1. \A j \in DOMAIN Sig.stamps : Sig.stamps[j] \in Stamp
    BY <1>2, <1>3
  <2>2. \A j \in DOMAIN Sig.stamps : Sig.stamps[j].chains \in BOOLEAN
    BY <2>1 DEF Stamp
  <2> QED
    BY <1>0, <2>2, X509Facts
<1>9. ASSUME Passing(tries) # {} PROVE <<next, 0>> \in Matches
  <2>1. PICK i \in DOMAIN tries : ~ tries[i].error
    BY <1>9 DEF Passing
  <2>2. PICK j \in DOMAIN Sig.stamps :
          Sig.stamps[j].by \in inst.authorities /\ tries[i] = X509(Sig.stamps[j].chains)
    BY <1>0, <1>6 DEF TriesInv
  <2>3. Sig.cert.supported /\ Sig.stamps[j].chains /\ inst.intact
    BY <1>8, <2>1, <2>2
  <2> QED
    BY <1>0, <1>7, <2>2, <2>3 DEF CertificateHolds
<1>10. ASSUME <<next, 0>> \in Matches PROVE Passing(tries) # {}
  <2>1. inst.intact /\ Sig.cert.supported
    BY <1>7, <1>10 DEF CertificateHolds
  <2>2. PICK j \in DOMAIN Sig.stamps :
          Sig.stamps[j].by \in inst.authorities /\ Sig.stamps[j].chains
    BY <1>0, <1>7, <1>10 DEF CertificateHolds
  <2>3. PICK i \in DOMAIN tries : tries[i] = X509(Sig.stamps[j].chains)
    BY <1>0, <1>6, <2>2 DEF TriesInv
  <2>4. ~ tries[i].error
    BY <1>8, <2>1, <2>2, <2>3
  <2> QED
    BY <2>4 DEF Passing
<1> QED
  BY <1>9, <1>10

LEMMA TriedStep ==
  ASSUME DInv, TimestampsTried
  PROVE  DInv'
<1>0. /\ Checking(0) /\ Types /\ LoopInv /\ TriesInv /\ StandsInv
      /\ Sig.cert # Absent /\ Readable(Sig)
      /\ at' = 1 /\ stamp' = 1 /\ tries' = <<>> /\ next' = next
  BY DEF TimestampsTried, ByTimestamp, DInv, Readable
<1>1. UNCHANGED <<inst, sigs>>
  BY <1>0, CheckingFacts
<1>2. CASE Passing(tries) # {}
  <2>1. checked' = Append(checked, X509(TRUE)) /\ verified' = verified + 1
    BY <1>2 DEF TimestampsTried
  <2>2. <<next, 0>> \in Matches
    BY <1>2, TriedFacts
  <2>3. Stands(X509(TRUE)) /\ X509(TRUE) \in Entry
    BY <1>0, <2>2, CertStands, X509Facts
  <2>4. StandsInv' /\ checked' \in Seq(Entry)
    BY <1>0, <1>1, <2>1, <2>3, AppendStands
  <2> QED
    BY <1>0, <2>1, <2>2, <2>4, CertificateStep
<1>3. CASE Passing(tries) = {}
  <2>1. checked' = checked \o tries /\ verified' = verified
    BY <1>3 DEF TimestampsTried
  <2>2. <<next, 0>> \notin Matches
    BY <1>3, TriedFacts
  <2>3. /\ checked \in Seq(Entry) /\ tries \in Seq(Entry)
        /\ Len(checked) \in Nat /\ Len(tries) \in Nat
        /\ DOMAIN checked = 1 .. Len(checked) /\ DOMAIN tries = 1 .. Len(tries)
    BY <1>0 DEF Types
  <2>4. /\ checked' \in Seq(Entry) /\ DOMAIN checked' = 1 .. (Len(checked) + Len(tries))
        /\ \A j \in 1 .. (Len(checked) + Len(tries)) :
             checked'[j] = IF j <= Len(checked) THEN checked[j] ELSE tries[j - Len(checked)]
    BY <2>1, <2>3
  <2>5. ASSUME NEW j \in 1 .. (Len(checked) + Len(tries)), ~ checked'[j].error
        PROVE  j \in Passing(checked) /\ checked'[j] = checked[j]
    <3>1. CASE j <= Len(checked)
      <4>1. j \in DOMAIN checked /\ checked'[j] = checked[j]
        BY <2>3, <2>4, <3>1
      <4> QED
        BY <2>5, <4>1 DEF Passing
    <3>2. CASE ~ (j <= Len(checked))
      <4>1. j - Len(checked) \in DOMAIN tries /\ checked'[j] = tries[j - Len(checked)]
        BY <2>3, <2>4, <3>2
      <4> QED
        BY <1>3, <2>5, <4>1 DEF Passing
    <3> QED
      BY <3>1, <3>2
  <2>6. StandsInv'
    BY <1>0, <1>1, <2>4, <2>5, MatchesStay DEF StandsInv, Stands, Passing
  <2> QED
    BY <1>0, <2>1, <2>2, <2>4, <2>6, CertificateStep
<1> QED
  BY <1>2, <1>3

LEMMA CheckKeyStep ==
  ASSUME DInv, CheckKey
  PROVE  DInv'
<1>0. /\ Checking(at) /\ Types /\ LoopInv /\ TriesInv /\ StandsInv
      /\ at \in 1 .. Len(inst.verifiers)
  BY DEF CheckKey, DInv
<1>1. /\ phase = "verify" /\ inst.threshold > 0 /\ next \in 1 .. Len(sigs)
      /\ Len(sigs) \in Nat /\ Sig \in Signer /\ Len(inst.verifiers) \in Nat
      /\ inst.intact \in BOOLEAN
      /\ UNCHANGED <<inst, phase, sigs>> /\ OutcomeInv'
      /\ Counted(next, at)' = Counted(next', at')
      /\ verified = Cardinality(Counted(next, at))
  BY <1>0, CheckingFacts
<1> DEFINE k == inst.verifiers[at]
           good == k = Sig.key /\ inst.intact
           e == Checked("key", k, FALSE, ~ good)
<1>2. /\ checked' = IF k = Absent THEN checked ELSE Append(checked, e)
      /\ verified' = IF k # Absent /\ good THEN verified + 1 ELSE verified
      /\ at' = at + 1 /\ UNCHANGED <<next, stamp, tries>>
  BY DEF CheckKey
<1>3. stamp = 1 /\ tries = <<>> /\ Readable(Sig) /\ at \in Nat /\ at # 0
  BY <1>0, <1>1 DEF LoopInv, Types
<1>4. k \in Key \cup {Absent} /\ Sig.key \in Key
  BY <1>0, <1>1, InstanceFacts DEF Types, Signer
<1>5. <<next, at>> \in Matches <=> good
  <2>1. Readable(sigs[next])
    BY <1>3 DEF Sig
  <2> QED
    BY <1>0, <1>1, <2>1, KeyPair DEF Sig
<1>6. k = Absent => ~ good
  BY <1>4, AbsentAssumption
<1>7. StandsInv' /\ checked' \in Seq(Entry)
  <2>1. CASE k = Absent
    BY <1>0, <1>1, <1>2, <2>1, MatchesStay DEF StandsInv, Stands, Passing, Types
  <2>2. CASE k # Absent
    <3>1. /\ e \in Entry /\ e.kind = "key" /\ e.key = k /\ e.sig = next
          /\ e.error <=> ~ good
      BY <1>0, <1>1, <1>4, <2>2 DEF Checked, Entry, Types
    <3>2. good => Stands(e)
      <4>1. <<next, at>>[1] = next /\ <<next, at>>[2] = at /\ at > 0
        BY <1>3
      <4>2. good => sigs[next].key = k
        BY DEF Sig
      <4> QED
        BY <1>5, <3>1, <4>1, <4>2 DEF Stands
    <3>3. checked' = Append(checked, e)
      BY <1>2, <2>2
    <3> HIDE DEF e, good
    <3> QED
      BY <1>0, <1>1, <3>1, <3>2, <3>3, AppendStands
  <2> QED
    BY <2>1, <2>2
<1> HIDE DEF good, e
<1>8. Types'
  BY <1>0, <1>1, <1>2, <1>7 DEF Types
<1>9. LoopInv'
  <2>1. at + 1 <= Len(inst.verifiers) + 1
    BY <1>0, <1>1
  <2> QED
    BY <1>1, <1>2, <1>3, <2>1 DEF LoopInv, Sig, Readable
<1>10. CountInv'
  <2>1. verified' = Cardinality(Counted(next, at + 1))
    BY <1>0, <1>1, <1>2, <1>3, <1>5, <1>6, CountNext DEF Types
  <2> QED
    BY <1>1, <1>2, <2>1 DEF CountInv
<1>11. TriesInv'
  BY <1>2, <1>3, NoTries
<1> QED
  BY <1>1, <1>7, <1>8, <1>9, <1>10, <1>11 DEF DInv

LEMMA NextSignatureStep ==
  ASSUME DInv, NextSignature
  PROVE  DInv'
<1> DEFINE n == Len(inst.verifiers) + 1
<1>0. Checking(n) /\ Types /\ LoopInv /\ TriesInv /\ StandsInv
  BY DEF NextSignature, DInv
<1> HIDE DEF n
<1>1. /\ at = n /\ phase = "verify" /\ inst.threshold > 0 /\ next \in 1 .. Len(sigs)
      /\ Len(sigs) \in Nat /\ Len(inst.verifiers) \in Nat
      /\ UNCHANGED <<inst, phase, sigs>> /\ OutcomeInv'
      /\ Counted(next, at)' = Counted(next', at')
      /\ verified = Cardinality(Counted(next, at))
  BY <1>0, CheckingFacts
<1>2. /\ next' = next + 1 /\ at' = 0 /\ UNCHANGED <<stamp, tries, checked, verified>>
      /\ n \in Nat /\ n # 0 /\ n = Len(inst.verifiers) + 1
  BY <1>1 DEF NextSignature, n
<1>3. stamp = 1 /\ tries = <<>>
  BY <1>0, <1>1, <1>2 DEF LoopInv
<1>4. Types'
  BY <1>0, <1>1, <1>2 DEF Types
<1>5. LoopInv'
  BY <1>1, <1>2, <1>3 DEF LoopInv
<1>6. CountInv'
  <2>1. \A m \in Matches : m[2] < n
    BY <1>0, <1>1, <1>2, PairFacts
  <2>2. Counted(next + 1, 0) = Counted(next, n)
    BY <1>0, <1>2, <2>1, CountSignature DEF Types
  <2> QED
    BY <1>1, <1>2, <2>2 DEF CountInv
<1>7. TriesInv'
  BY <1>2, <1>3, NoTries
<1>8. StandsInv'
  BY <1>0, <1>1, <1>2, MatchesStay DEF StandsInv, Stands, Passing
<1> QED
  BY <1>1, <1>4, <1>5, <1>6, <1>7, <1>8 DEF DInv

-----------------------------------------------------------------------------
(* The rest of Verify, Sign and VerifyPolicySignature                      *)

LEMMA InitialStep == Init => DInv
<1> SUFFICES ASSUME Init PROVE DInv
  OBVIOUS
<1>1. /\ inst \in Instance /\ phase = "sign" /\ next = 1 /\ sigs = <<>> /\ at = 0
      /\ stamp = 1 /\ tries = <<>> /\ checked = <<>> /\ verified = 0
      /\ outcome = "none" /\ accepted = "none"
  BY DEF Init
<1>2. Types
  BY <1>1 DEF Types
<1>3. LoopInv /\ CountInv
  BY <1>1 DEF LoopInv, CountInv
<1>4. DOMAIN tries = {} /\ DOMAIN checked = {} /\ 1 .. (stamp - 1) = {}
  BY <1>1
<1>5. TriesInv
  BY <1>1, <1>4 DEF TriesInv
<1>6. StandsInv
  BY <1>4 DEF StandsInv, Passing
<1>7. OutcomeInv
  BY <1>1 DEF OutcomeInv
<1> QED
  BY <1>2, <1>3, <1>5, <1>6, <1>7 DEF DInv

\* Sign: nothing is checked yet.
LEMMA SigningStep ==
  ASSUME DInv, SignOne \/ SignReturns
  PROVE  DInv'
<1>0. Types /\ LoopInv /\ OutcomeInv
  BY DEF DInv
<1>1. /\ phase = "sign" /\ UNCHANGED <<inst, at, stamp, tries, checked, verified, outcome, accepted>>
      /\ phase' \in {"sign", "verify", "failed"}
  BY DEF SignOne, SignReturns, Fail
<1>2. /\ at = 0 /\ verified = 0 /\ checked = <<>> /\ stamp = 1 /\ tries = <<>>
      /\ outcome = "none"
  BY <1>0, <1>1 DEF LoopInv, OutcomeInv
<1>3. /\ next' \in Nat /\ next' > 0 /\ sigs' \in Seq(Signer)
      /\ phase' = "verify" => next' = 1
  <2>1. CASE SignReturns
    BY <1>0, <2>1 DEF SignReturns, Fail, Types
  <2>2. CASE SignOne
    <3>1. next \in 1 .. Len(inst.signers) /\ inst.signers \in Seq(Signer \cup {Absent})
      BY <1>0, <2>2, InstanceFacts DEF SignOne, Types
    <3>2. inst.signers[next] # Absent => inst.signers[next] \in Signer
      BY <3>1
    <3>3. \/ /\ next' = next + 1 /\ UNCHANGED phase
             /\ sigs' = IF inst.signers[next] = Absent THEN sigs
                        ELSE Append(sigs, inst.signers[next])
          \/ phase' = "failed" /\ UNCHANGED <<next, sigs>>
      BY <2>2 DEF SignOne, Fail
    <3>4. sigs' \in Seq(Signer)
      <4>1. sigs \in Seq(Signer)
        BY <1>0 DEF Types
      <4>2. CASE sigs' = sigs
        BY <4>1, <4>2
      <4>3. CASE inst.signers[next] # Absent /\ sigs' = Append(sigs, inst.signers[next])
        BY <3>2, <4>1, <4>3
      <4> QED
        BY <3>3, <4>2, <4>3
    <3>5. next' \in Nat /\ next' > 0
      BY <1>0, <3>3 DEF Types
    <3> QED
      BY <1>1, <3>3, <3>4, <3>5
  <2> QED
    BY <2>1, <2>2
<1>4. Types'
  BY <1>0, <1>1, <1>3 DEF Types
<1>5. LoopInv'
  BY <1>1, <1>2, <1>3, InstanceFacts, <1>0 DEF LoopInv, Types
<1>6. CountInv'
  <2>1. SUFFICES ASSUME phase' = "verify" PROVE verified' = Cardinality(Counted(next, at)')
    BY DEF CountInv
  <2>2. UNCHANGED <<inst, sigs>> /\ next' = 1 /\ at' = 0
    BY <1>1, <1>2, <1>3, <2>1 DEF SignOne, SignReturns, Fail
  <2>3. \A m \in Matches : m[1] \in Nat /\ m[2] \in Nat /\ m[1] > 0
    BY <1>0, PairFacts DEF Types
  <2>4. Counted(next, at)' = {}
    BY <2>2, <2>3, MatchesStay DEF Counted
  <2> QED
    BY <1>1, <1>2, <2>4, FS_EmptySet
<1>7. TriesInv'
  BY <1>1, <1>2, NoTries
<1>8. StandsInv'
  <2>1. DOMAIN checked' = {}
    BY <1>1, <1>2
  <2> QED
    BY <2>1 DEF StandsInv, Passing
<1>9. OutcomeInv'
  BY <1>0, <1>1, <1>2 DEF OutcomeInv
<1> QED
  BY <1>4, <1>5, <1>6, <1>7, <1>8, <1>9 DEF DInv

\* Steps outside the loops over signatures, which keep what was checked.
LEMMA AfterwardsStep ==
  ASSUME DInv, UNCHANGED <<inst, sigs, at, stamp, tries, checked, verified>>,
         next' \in Nat, next' > 0, phase' \in {"policy", "done"},
         stamp = 1, tries = <<>>, OutcomeInv'
  PROVE  DInv'
<1>1. Types /\ StandsInv
  BY DEF DInv
<1>2. Types'
  BY <1>1 DEF Types
<1>3. LoopInv' /\ CountInv'
  BY DEF LoopInv, CountInv
<1>4. TriesInv'
  BY NoTries
<1>5. StandsInv'
  BY <1>1, MatchesStay DEF StandsInv, Stands, Passing
<1> QED
  BY <1>2, <1>3, <1>4, <1>5 DEF DInv

LEMMA CheckOptionsStep ==
  ASSUME DInv, CheckOptions
  PROVE  DInv'
<1>0. Types /\ LoopInv /\ TriesInv /\ OutcomeInv
  BY DEF DInv
<1>1. /\ UNCHANGED <<inst, next, sigs, at, stamp, tries, checked, verified, accepted>>
      /\ phase = "verify" /\ next = 1 /\ phase' = "done" /\ outcome' = "invalid"
      /\ outcome = "none"
  BY <1>0 DEF CheckOptions, OutcomeInv
<1>2. inst.threshold <= 0 \/ sigs = <<>>
  BY DEF CheckOptions
<1>3. stamp = 1 /\ tries = <<>>
  <2>1. CASE stamp # 1
    <3>1. inst.threshold > 0 /\ 1 <= Len(sigs)
      BY <1>0, <1>1, <2>1 DEF LoopInv, TriesInv
    <3>2. inst.threshold \in Int /\ sigs \in Seq(Signer)
      BY <1>0, InstanceFacts DEF Types
    <3> QED
      BY <1>2, <3>1, <3>2
  <2> QED
    BY <1>0, <2>1 DEF TriesInv
<1>4. OutcomeInv'
  BY <1>0, <1>1 DEF OutcomeInv
<1> QED
  BY <1>0, <1>1, <1>3, <1>4, AfterwardsStep DEF Types

\* All pairs have been counted.
LEMMA ReturnStep ==
  ASSUME DInv, VerifyReturns
  PROVE  DInv'
<1>0. Types /\ LoopInv /\ TriesInv /\ OutcomeInv /\ CountInv
  BY DEF DInv
<1>1. /\ UNCHANGED <<inst, sigs, at, stamp, tries, checked, verified, accepted>>
      /\ phase = "verify" /\ sigs # <<>> /\ next > Len(sigs) /\ next' = 1
      /\ phase' \in {"policy", "done"} /\ (phase' = "policy" => outcome' = "ok")
  BY DEF VerifyReturns
<1>2. /\ sigs \in Seq(Signer) /\ Len(sigs) \in Nat /\ Len(sigs) > 0
      /\ inst.threshold \in Int /\ verified \in Nat /\ next \in Nat
  BY <1>0, <1>1, InstanceFacts DEF Types
<1>3. at = 0 /\ inst.threshold > 0 /\ stamp = 1 /\ tries = <<>>
  <2>1. at = 0 /\ next # 1
    BY <1>0, <1>1, <1>2 DEF LoopInv, Types
  <2>2. ~ (next <= Len(sigs))
    BY <1>1, <1>2
  <2> QED
    BY <1>0, <1>1, <2>1, <2>2 DEF LoopInv, TriesInv
<1>4. verified = Cardinality(Matches)
  <2>1. \A m \in Matches : m[1] < next
    BY <1>0, <1>1, <1>2, PairFacts
  <2>2. Counted(next, at) = Matches
    BY <2>1 DEF Counted
  <2> QED
    BY <1>0, <1>1, <2>2 DEF CountInv
<1>5. outcome' = "ok" <=> verified >= inst.threshold
  <2>1. CASE verified = 0
    <3>1. outcome' = "no matching signature"
      BY <1>2, <2>1 DEF VerifyReturns
    <3>2. ~ (verified >= inst.threshold)
      BY <1>2, <1>3, <2>1
    <3>3. outcome' # "ok"
      BY <3>1
    <3> QED
      BY <3>2, <3>3
  <2>2. CASE verified # 0 /\ verified < inst.threshold
    <3>1. outcome' = "threshold"
      BY <1>2, <2>2 DEF VerifyReturns
    <3> QED
      BY <1>2, <2>2, <3>1
  <2>3. CASE verified # 0 /\ ~ (verified < inst.threshold)
    <3>1. outcome' = "ok"
      BY <1>2, <2>3 DEF VerifyReturns
    <3> QED
      BY <1>2, <2>3, <3>1
  <2> QED
    BY <2>1, <2>2, <2>3
<1>6. OutcomeInv'
  <2>1. Matches' = Matches
    BY <1>1, MatchesStay
  <2>2. accepted # "yes" /\ phase' \in {"policy", "done"}
    BY <1>0, <1>1 DEF OutcomeInv
  <2> QED
    BY <1>1, <1>3, <1>4, <1>5, <2>1, <2>2 DEF OutcomeInv
<1> QED
  BY <1>1, <1>3, <1>6, AfterwardsStep

LEMMA PolicyStep ==
  ASSUME DInv, PolicyOne \/ PolicyReturns
  PROVE  DInv'
<1>0. Types /\ LoopInv /\ OutcomeInv
  BY DEF DInv
<1>1. /\ UNCHANGED <<inst, sigs, at, stamp, tries, checked, verified, outcome>>
      /\ phase = "policy" /\ phase' \in {"policy", "done"}
  BY DEF PolicyOne, PolicyReturns
<1>2. next' \in Nat /\ next' > 0
  BY <1>0 DEF PolicyOne, PolicyReturns, Types
<1>3. stamp = 1 /\ tries = <<>> /\ outcome = "ok"
  BY <1>0, <1>1 DEF LoopInv, OutcomeInv
<1>4. OutcomeInv'
  BY <1>0, <1>1, <1>3, MatchesStay DEF OutcomeInv
<1> QED
  BY <1>1, <1>2, <1>3, <1>4, AfterwardsStep

LEMMA InvariantStep == DInv /\ [Next]_vars => DInv'
<1> SUFFICES ASSUME DInv, [Next]_vars PROVE DInv'
  OBVIOUS
<1>1. CASE SignOne \/ SignReturns
  BY <1>1, SigningStep
<1>2. CASE CheckOptions
  BY <1>2, CheckOptionsStep
<1>3. CASE UnreadableCertificate
  BY <1>3, UnreadableStep
<1>4. CASE CheckCertificate
  BY <1>4, CheckCertificateStep
<1>5. CASE TryTimestamp
  BY <1>5, TryStep
<1>6. CASE TimestampsTried
  BY <1>6, TriedStep
<1>7. CASE CheckKey
  BY <1>7, CheckKeyStep
<1>8. CASE NextSignature
  BY <1>8, NextSignatureStep
<1>9. CASE VerifyReturns
  BY <1>9, ReturnStep
<1>10. CASE PolicyOne \/ PolicyReturns
  BY <1>10, PolicyStep
<1>11. CASE UNCHANGED vars
  <2>1. UNCHANGED <<inst, phase, next, sigs, at, stamp, tries, checked, verified,
                    outcome, accepted>>
    BY <1>11 DEF vars
  <2>2. Types' /\ LoopInv'
    BY <2>1 DEF DInv, Types, LoopInv, Sig, Readable
  <2>3. CountInv' /\ OutcomeInv'
    BY <2>1, MatchesStay DEF DInv, CountInv, OutcomeInv, Counted
  <2>4. TriesInv'
    BY <2>1 DEF DInv, TriesInv, Sig, X509, Checked
  <2>5. StandsInv'
    BY <2>1, MatchesStay DEF DInv, StandsInv, Stands, Passing
  <2> QED
    BY <2>2, <2>3, <2>4, <2>5 DEF DInv
<1> QED
  BY <1>1, <1>2, <1>3, <1>4, <1>5, <1>6, <1>7, <1>8, <1>9, <1>10, <1>11 DEF Next

-----------------------------------------------------------------------------
(* Theorems                                                                *)

\* The invariant of Envelope.Verify: its counter is the number of matching pairs
\* behind its loops.
THEOREM VerifyInvariant == Spec => []DInv
<1> QED
  BY InitialStep, InvariantStep, PTL DEF Spec

\* Envelope.Verify does what its definition over pairs says, for every list of
\* signers and verifiers, every threshold and any timestamps.
THEOREM VerifyIsAsDefined == Spec => []VerifyMatchesDefinition
<1>1. DInv => VerifyMatchesDefinition
  <2> SUFFICES ASSUME DInv, outcome \notin {"none", "invalid"}
               PROVE  /\ outcome = "ok" <=> Cardinality(Matches) >= inst.threshold
                      /\ \A i \in Passing(checked) : Stands(checked[i])
    BY DEF VerifyMatchesDefinition, Stands
  <2> QED
    BY DEF DInv, OutcomeInv, StandsInv
<1> QED
  BY <1>1, VerifyInvariant, PTL

\* VerifyPolicySignature accepts no policy without a signature that verifies.
THEOREM PolicyIsSigned == Spec => []AcceptedPolicyIsSigned
<1>1. DInv => AcceptedPolicyIsSigned
  <2> SUFFICES ASSUME DInv, accepted = "yes", Matches = {} PROVE FALSE
    BY DEF AcceptedPolicyIsSigned
  <2>1. inst.threshold > 0 /\ Cardinality(Matches) >= inst.threshold
    BY DEF DInv, OutcomeInv
  <2>2. inst.threshold \in Int
    BY InstanceFacts DEF DInv, Types
  <2>3. Cardinality(Matches) = 0
    BY FS_EmptySet
  <2> QED
    BY <2>1, <2>2, <2>3
<1> QED
  BY <1>1, VerifyInvariant, PTL
=============================================================================
