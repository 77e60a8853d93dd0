--------------------------- MODULE MultiSourceProofs ---------------------------
(***************************************************************************)
(* For any finite set of sources: MultiSource.Search leaves no goroutine   *)
(* behind, and each of its steps is one of the abstract search of module   *)
(* SearchAll or a stutter.  That it returns at all is left to TLC.         *)
(***************************************************************************)
EXTENDS MultiSource, FunctionTheorems, FiniteSetTheorems, TLAPS

\* The type invariant; a reader holds at most one answer.
MTypeOK ==
  /\ answer \in [Source -> {"pending", "ok", "error"}]
  /\ delivered \subseteq Source
  /\ hand \in [Channel -> {<<>>} \cup {<<s>> : s \in Source}]
  /\ gathered \in [Channel -> Seq(Source)]
  /\ closed \subseteq Channel
  /\ reader \in [Channel -> {"reading", "reporting", "gone"}]
  /\ caller \in {"wait", "close", "errdone", "readerDone", "returned"}

\* Where the caller is tells which channels are closed and which readers are
\* gone; it closes nothing before the wait group is done.
Control ==
  /\ caller = "wait" => closed = {}
  /\ caller # "wait" => delivered = Source
  /\ caller \in {"errdone", "readerDone", "returned"} => closed = Channel
  /\ \A c \in Channel : reader[c] # "reading" => c \in closed /\ hand[c] = <<>>
  /\ caller \in {"readerDone", "returned"} => reader["errs"] = "gone"
  /\ caller = "returned" => reader["resChan"] = "gone"

\* The sources whose answers were sent on channel c, those its reader has
\* appended, and the one it holds.
Sent(c) == {s \in delivered : ChannelOf(answer[s]) = c}
Got(c) == {gathered[c][i] : i \in 1..Len(gathered[c])}
Held(c) == {s \in Source : hand[c] = <<s>>}

NoneTwice(c) ==
  \A i, j \in 1..Len(gathered[c]) : gathered[c][i] = gathered[c][j] => i = j

\* What was sent to a reader, and nothing else, it holds or has appended, once.
GatheredOnce ==
  /\ \A s \in delivered : answer[s] # "pending"
  /\ \A c \in Channel : /\ Sent(c) = Got(c) \cup Held(c)
                        /\ Got(c) \cap Held(c) = {}
                        /\ NoneTwice(c)

MInv == MTypeOK /\ Control /\ GatheredOnce

-----------------------------------------------------------------------------

\* A source's answer belongs to one of the two channels.
LEMMA ChannelOfAnswer == \A a : ChannelOf(a) \in Channel
  BY DEF ChannelOf, Channel

\* The invariant holds when Search begins.
LEMMA MInit == Init => MInv
<1> SUFFICES ASSUME Init PROVE MInv
  OBVIOUS
<1>1. MTypeOK /\ Control
  BY DEF Init, MTypeOK, Control, Channel
<1>2. ASSUME NEW c \in Channel
      PROVE  Sent(c) = {} /\ Got(c) = {} /\ Held(c) = {} /\ NoneTwice(c)
  <2>1. delivered = {} /\ gathered[c] = <<>> /\ hand[c] = <<>>
    BY DEF Init
  <2>2. \A s : <<s>> # <<>>
    OBVIOUS
  <2>3. 1..Len(gathered[c]) = {}
    BY <2>1
  <2> QED
    BY <2>1, <2>2, <2>3 DEF Sent, Got, Held, NoneTwice
<1> QED
  BY <1>1, <1>2 DEF MInv, GatheredOnce, Init

\* The types are kept by every step.
LEMMA MTypeStep ==
  ASSUME MInv, [Next]_vars
  PROVE  MTypeOK'
<1> USE DEF MInv, MTypeOK
<1>1. ASSUME NEW s \in Source, Query(s) PROVE MTypeOK'
  BY <1>1 DEF Query
<1>2. ASSUME NEW s \in Source, Send(s) PROVE MTypeOK'
  BY <1>2, ChannelOfAnswer DEF Send
<1>3. ASSUME NEW c \in Channel, Gather(c) PROVE MTypeOK'
  <2>1. PICK s \in Source : hand[c] = <<s>>
    BY <1>3 DEF Gather
  <2>2. gathered[c] \o hand[c] \in Seq(Source)
    <3>1. gathered[c] \in Seq(Source) /\ <<s>> \in Seq(Source)
      OBVIOUS
    <3> QED
      BY <3>1, <2>1
  <2>3. gathered' \in [Channel -> Seq(Source)]
    BY <1>3, <2>2 DEF Gather
  <2> QED
    BY <1>3, <2>3 DEF Gather
<1>4. ASSUME NEW c \in Channel, EndOfRange(c) PROVE MTypeOK'
  BY <1>4 DEF EndOfRange
<1>5. ASSUME CloseResults \/ CloseErrors \/ ErrDone \/ ReaderDone PROVE MTypeOK'
  BY <1>5 DEF CloseResults, CloseErrors, ErrDone, ReaderDone, Channel
<1>6. ASSUME UNCHANGED vars PROVE MTypeOK'
  BY <1>6 DEF vars
<1> QED
  BY <1>1, <1>2, <1>3, <1>4, <1>5, <1>6 DEF Next

\* So is what the caller's place says of channels and readers.
LEMMA ControlStep ==
  ASSUME MInv, [Next]_vars
  PROVE  Control'
<1> USE DEF MInv, MTypeOK, Control
<1>1. ASSUME NEW s \in Source, Query(s) PROVE Control'
  BY <1>1 DEF Query
<1>2. ASSUME NEW s \in Source, Send(s) PROVE Control'
  BY <1>2, ChannelOfAnswer DEF Send
<1>3. ASSUME NEW c \in Channel, Gather(c) PROVE Control'
  BY <1>3 DEF Gather
<1>4. ASSUME NEW c \in Channel, EndOfRange(c) PROVE Control'
  BY <1>4 DEF EndOfRange, Channel
<1>5. ASSUME CloseResults PROVE Control'
  BY <1>5 DEF CloseResults, Channel
<1>6. ASSUME CloseErrors PROVE Control'
  BY <1>6 DEF CloseErrors, Channel
<1>7. ASSUME ErrDone PROVE Control'
  BY <1>7 DEF ErrDone, Channel
<1>8. ASSUME ReaderDone PROVE Control'
  BY <1>8 DEF ReaderDone, Channel
<1>9. ASSUME UNCHANGED vars PROVE Control'
  BY <1>9 DEF vars
<1> QED
  BY <1>1, <1>2, <1>3, <1>4, <1>5, <1>6, <1>7, <1>8, <1>9 DEF Next

\* A reader that holds nothing, and one that holds an answer.
LEMMA HeldValue ==
  ASSUME MTypeOK, NEW c \in Channel
  PROVE  /\ hand[c] = <<>> => Held(c) = {}
         /\ \A s \in Source : hand[c] = <<s>> => Held(c) = {s}
         /\ hand[c] # <<>> => \E s \in Source : hand[c] = <<s>>
<1>1. \A s : <<s>> # <<>>
  OBVIOUS
<1>2. \A r, s : <<r>> = <<s>> => r = s
  OBVIOUS
<1>3. hand[c] \in {<<>>} \cup {<<s>> : s \in Source}
  BY DEF MTypeOK
<1> QED
  BY <1>1, <1>2, <1>3 DEF Held

\* Steps that leave answers and readers' lists alone keep what was gathered.
LEMMA GatheredStutter ==
  ASSUME GatheredOnce, UNCHANGED <<answer, delivered, hand, gathered>>
  PROVE  GatheredOnce'
BY DEF GatheredOnce, Sent, Got, Held, NoneTwice

\* An answer is delivered once and gathered once.
LEMMA GatheredStep ==
  ASSUME MInv, MTypeOK', [Next]_vars
  PROVE  GatheredOnce'
<1> MTypeOK /\ GatheredOnce
  BY DEF MInv
<1>1. ASSUME NEW s \in Source, Query(s) PROVE GatheredOnce'
  <2>1. s \notin delivered
    BY <1>1 DEF Query, GatheredOnce
  <2>2. \A r \in delivered : answer'[r] = answer[r]
    BY <1>1, <2>1 DEF Query, MTypeOK
  <2>3. UNCHANGED <<delivered, hand, gathered>>
    BY <1>1 DEF Query
  <2>4. \A c : Sent(c)' = Sent(c)
    BY <2>2, <2>3 DEF Sent
  <2>5. \A c : Got(c)' = Got(c) /\ Held(c)' = Held(c) /\ (NoneTwice(c) => NoneTwice(c)')
    BY <2>3 DEF Got, Held, NoneTwice
  <2> QED
    BY <2>2, <2>3, <2>4, <2>5 DEF GatheredOnce
<1>2. ASSUME NEW s \in Source, Send(s) PROVE GatheredOnce'
  <2>1. PICK d \in Channel : d = ChannelOf(answer[s])
    BY ChannelOfAnswer
  <2>2. /\ answer[s] # "pending" /\ s \notin delivered
        /\ hand[d] = <<>> /\ hand' = [hand EXCEPT ![d] = <<s>>]
        /\ delivered' = delivered \cup {s}
        /\ UNCHANGED <<answer, gathered>>
    BY <1>2, <2>1 DEF Send
  <2>3. hand'[d] = <<s>> /\ \A c \in Channel : c # d => hand'[c] = hand[c]
    BY <2>1, <2>2 DEF MTypeOK
  <2>4. Held(d) = {}
    BY <2>1, <2>2, HeldValue
  <2>5. Held(d)' = {s}
    <3>1. \A r, t : <<r>> = <<t>> => r = t
      OBVIOUS
    <3> QED
      BY <2>3, <3>1 DEF Held
  <2>6. \A c \in Channel : c # d => Held(c)' = Held(c)
    BY <2>3 DEF Held
  <2>7. \A c : Got(c)' = Got(c) /\ (NoneTwice(c) => NoneTwice(c)')
    BY <2>2 DEF Got, NoneTwice
  <2>8. Sent(d)' = Sent(d) \cup {s} /\ s \notin Sent(d)
    BY <2>1, <2>2 DEF Sent
  <2>9. \A c \in Channel : c # d => Sent(c)' = Sent(c)
    BY <2>1, <2>2 DEF Sent
  <2>10. \A r \in delivered' : answer'[r] # "pending"
    BY <2>2 DEF GatheredOnce
  <2>11. ASSUME NEW c \in Channel
         PROVE  Sent(c)' = Got(c)' \cup Held(c)' /\ Got(c)' \cap Held(c)' = {}
    <3>1. CASE c = d
      BY <3>1, <2>4, <2>5, <2>7, <2>8 DEF GatheredOnce
    <3>2. CASE c # d
      BY <3>2, <2>6, <2>7, <2>9 DEF GatheredOnce
    <3> QED
      BY <3>1, <3>2
  <2> QED
    BY <2>7, <2>10, <2>11 DEF GatheredOnce
<1>3. ASSUME NEW d \in Channel, Gather(d) PROVE GatheredOnce'
  <2>1. PICK s \in Source : hand[d] = <<s>>
    BY <1>3, HeldValue DEF Gather
  <2>2. /\ gathered' = [gathered EXCEPT ![d] = gathered[d] \o <<s>>]
        /\ hand' = [hand EXCEPT ![d] = <<>>]
        /\ UNCHANGED <<answer, delivered>>
    BY <1>3, <2>1 DEF Gather
  <2>3. gathered[d] \in Seq(Source)
    BY DEF MTypeOK
  <2>4. /\ Len(gathered'[d]) = Len(gathered[d]) + 1
        /\ gathered'[d][Len(gathered[d]) + 1] = s
        /\ \A i \in 1..Len(gathered[d]) : gathered'[d][i] = gathered[d][i]
    BY <2>2, <2>3 DEF MTypeOK
  <2>5. Len(gathered[d]) \in Nat
    BY <2>3
  <2>6. Held(d) = {s}
    BY <2>1, HeldValue
  <2>7. s \notin Got(d) /\ s \in Sent(d)
    BY <2>6 DEF GatheredOnce
  <2>8. Got(d)' = Got(d) \cup {s}
    <3> DEFINE n == Len(gathered[d])
    <3>1. 1..Len(gathered'[d]) = (1..n) \cup {n + 1}
      BY <2>4, <2>5
    <3>2. Got(d)' = {gathered'[d][i] : i \in 1..Len(gathered'[d])}
      BY DEF Got
    <3>3. Got(d)' = {gathered'[d][i] : i \in 1..n} \cup {gathered'[d][n + 1]}
      BY <3>1, <3>2
    <3>4. {gathered'[d][i] : i \in 1..n} = Got(d)
      BY <2>4 DEF Got
    <3> QED
      BY <3>3, <3>4, <2>4
  <2>9. NoneTwice(d)'
    <3>1. NoneTwice(d)
      BY DEF GatheredOnce
    <3>2. \A i \in 1..Len(gathered[d]) : gathered[d][i] # s
      BY <2>7 DEF Got
    <3>3. ASSUME NEW i \in 1..Len(gathered'[d]), NEW j \in 1..Len(gathered'[d]),
                 gathered'[d][i] = gathered'[d][j]
          PROVE  i = j
      <4>1. CASE i \in 1..Len(gathered[d]) /\ j \in 1..Len(gathered[d])
        BY <4>1, <3>1, <3>3, <2>4 DEF NoneTwice
      <4>2. CASE i = Len(gathered[d]) + 1 /\ j \in 1..Len(gathered[d])
        BY <4>2, <3>2, <3>3, <2>4
      <4>3. CASE i \in 1..Len(gathered[d]) /\ j = Len(gathered[d]) + 1
        BY <4>3, <3>2, <3>3, <2>4
      <4>4. CASE i = Len(gathered[d]) + 1 /\ j = Len(gathered[d]) + 1
        BY <4>4
      <4> QED
        BY <4>1, <4>2, <4>3, <4>4, <2>4, <2>5
    <3> QED
      BY <3>3 DEF NoneTwice
  <2>10. Held(d)' = {}
    <3>1. hand'[d] = <<>>
      BY <2>2 DEF MTypeOK
    <3>2. \A r : <<r>> # <<>>
      OBVIOUS
    <3> QED
      BY <3>1, <3>2 DEF Held
  <2>11. \A c : Sent(c)' = Sent(c)
    BY <2>2 DEF Sent
  <2>12. ASSUME NEW c \in Channel, c # d
         PROVE  Got(c)' = Got(c) /\ Held(c)' = Held(c) /\ (NoneTwice(c) => NoneTwice(c)')
    <3>1. gathered'[c] = gathered[c] /\ hand'[c] = hand[c]
      BY <2>2, <2>12 DEF MTypeOK
    <3> QED
      BY <3>1 DEF Got, Held, NoneTwice
  <2>13. ASSUME NEW c \in Channel
         PROVE  /\ Sent(c)' = Got(c)' \cup Held(c)'
                /\ Got(c)' \cap Held(c)' = {}
                /\ NoneTwice(c)'
    <3>1. CASE c = d
      BY <3>1, <2>6, <2>8, <2>9, <2>10, <2>11 DEF GatheredOnce
    <3>2. CASE c # d
      BY <3>2, <2>11, <2>12 DEF GatheredOnce
    <3> QED
      BY <3>1, <3>2
  <2>14. \A r \in delivered' : answer'[r] # "pending"
    BY <2>2 DEF GatheredOnce
  <2> QED
    BY <2>13, <2>14 DEF GatheredOnce
<1>4. ASSUME NEW c \in Channel, EndOfRange(c) PROVE GatheredOnce'
  BY <1>4, GatheredStutter DEF EndOfRange
<1>5. ASSUME CloseResults \/ CloseErrors \/ ErrDone \/ ReaderDone PROVE GatheredOnce'
  BY <1>5, GatheredStutter DEF CloseResults, CloseErrors, ErrDone, ReaderDone
<1>6. ASSUME UNCHANGED vars PROVE GatheredOnce'
  BY <1>6, GatheredStutter DEF vars
<1> QED
  BY <1>1, <1>2, <1>3, <1>4, <1>5, <1>6 DEF Next

\* The inductive invariant: where caller, readers and channels can be together,
\* and which answers the readers have.
THEOREM SearchInvariant == Spec => []MInv
<1>1. MInv /\ [Next]_vars => MInv'
  BY MTypeStep, ControlStep, GatheredStep DEF MInv
<1> QED
  BY MInit, <1>1, PTL DEF Spec

\* When Search returns, both readers have ended with nothing in hand, for any
\* number of sources.
THEOREM NothingLeft == Spec => []NoGoroutineLeft
<1>1. MInv => NoGoroutineLeft
  BY DEF MInv, MTypeOK, Control, NoGoroutineLeft, Channel
<1> QED
  BY <1>1, SearchInvariant, PTL

-----------------------------------------------------------------------------
(* The refinement                                                          *)

\* The safety part of the abstract search, under the refinement mapping.
AbstractSafety == Abstract!Init /\ [][Abstract!Next]_(Abstract!vars)

\* Without errors, what the result reader gathered has every source once.
LEMMA AllGathered ==
  ASSUME MInv, caller = "readerDone", reader["resChan"] = "reporting",
         Len(gathered["errs"]) = 0
  PROVE  /\ \A s \in Source : answer[s] = "ok"
         /\ gathered["resChan"] \in Abstract!Arrangements
<1> DEFINE q == gathered["resChan"]
<1> USE DEF MInv, MTypeOK
<1>1. /\ hand["errs"] = <<>> /\ hand["resChan"] = <<>> /\ delivered = Source
      /\ "errs" \in Channel /\ "resChan" \in Channel
  BY DEF Control, Channel
<1>2. Held("errs") = {} /\ Held("resChan") = {}
  BY <1>1, HeldValue
<1>3. Got("errs") = {}
  BY DEF Got
<1>4. Sent("errs") = {} /\ Sent("resChan") = Got("resChan")
  BY <1>1, <1>2, <1>3 DEF GatheredOnce
<1>5. \A s \in Source : answer[s] = "ok"
  BY <1>1, <1>4 DEF Sent, ChannelOf
<1>6. q \in Seq(Source) /\ q \in [1..Len(q) -> Source] /\ Len(q) \in Nat
  <2>1. q \in Seq(Source)
    BY <1>1
  <2> QED
    BY <2>1
<1>7. \A s \in Source : \E i \in 1..Len(q) : q[i] = s
  <2>1. Source = Sent("resChan")
    BY <1>1, <1>5 DEF Sent, ChannelOf
  <2>2. Source = {q[i] : i \in 1..Len(q)}
    BY <1>4, <2>1 DEF Got
  <2> HIDE DEF q
  <2> QED
    BY <2>2
<1>8. \A i, j \in 1..Len(q) : q[i] = q[j] => i = j
  BY <1>1 DEF GatheredOnce, NoneTwice
<1>9. q \in Bijection(1..Len(q), Source)
  <2> HIDE DEF q
  <2>1. q \in Injection(1..Len(q), Source)
    BY <1>6, <1>8 DEF Injection, IsInjective
  <2>2. q \in Surjection(1..Len(q), Source)
    BY <1>6, <1>7 DEF Surjection
  <2> QED
    BY <2>1, <2>2 DEF Bijection
<1>10. Cardinality(Source) = Len(q)
  <2> HIDE DEF q
  <2>1. ExistsBijection(1..Len(q), Source)
    BY <1>9 DEF ExistsBijection
  <2> QED
    BY <1>6, <2>1, FS_CountingElements
<1>11. DOMAIN q = 1..Len(q)
  BY <1>6
<1>12. q \in Abstract!Arrangements
  <2> HIDE DEF q
  <2>1. q \in [1..Cardinality(Source) -> Source]
    BY <1>6, <1>10
  <2>2. \A s \in Source : \E i \in DOMAIN q : q[i] = s
    BY <1>7, <1>11
  <2> QED
    BY <2>1, <2>2 DEF Abstract!Arrangements, Abstract!Cardinality, Cardinality
<1> QED
  BY <1>5, <1>12

\* Each step of the concurrent search is a step of the abstract one: an answer,
\* the return of all results or of one error, or nothing.
LEMMA AbstractStep ==
  ASSUME MInv, MInv', [Next]_vars
  PROVE  [Abstract!Next]_(Abstract!vars)
<1> DEFINE ret == IF caller = "returned" THEN Outcome ELSE Pending
<1>1. ASSUME NEW s \in Source, Query(s) PROVE Abstract!Next
  <2>1. caller # "returned" /\ caller' # "returned"
    BY <1>1 DEF Query, MInv, Control, GatheredOnce
  <2> QED
    BY <1>1, <2>1 DEF Query, Abstract!Next, Abstract!Answer
<1>2. ASSUME NEW s \in Source, Send(s) PROVE UNCHANGED Abstract!vars
  <2>1. caller # "returned" /\ caller' # "returned"
    BY <1>2 DEF Send, MInv, Control
  <2> QED
    BY <1>2, <2>1 DEF Send, Abstract!vars, Pending
<1>3. ASSUME NEW c \in Channel, Gather(c) PROVE UNCHANGED Abstract!vars
  <2>1. caller # "returned" /\ caller' # "returned"
    BY <1>3 DEF Gather, MInv, Control, Channel
  <2> QED
    BY <1>3, <2>1 DEF Gather, Abstract!vars, Pending
<1>4. ASSUME NEW c \in Channel, EndOfRange(c) PROVE UNCHANGED Abstract!vars
  BY <1>4 DEF EndOfRange, Abstract!vars, Outcome, Pending
<1>5. ASSUME CloseResults \/ CloseErrors \/ ErrDone PROVE UNCHANGED Abstract!vars
  BY <1>5 DEF CloseResults, CloseErrors, ErrDone, Abstract!vars, Pending
<1>6. ASSUME ReaderDone PROVE Abstract!Next
  <2>1. /\ caller = "readerDone" /\ caller' = "returned"
        /\ reader["resChan"] = "reporting" /\ UNCHANGED <<answer, gathered>>
    BY <1>6 DEF ReaderDone
  <2>2. \A s \in Source : answer[s] # "pending"
    BY <2>1 DEF MInv, Control, GatheredOnce
  <2>3. gathered["errs"] \in Seq(Source)
    BY DEF MInv, MTypeOK, Channel
  <2>4. ret = Abstract!NotYet
    BY <2>1 DEF Pending, Abstract!NotYet
  <2>5. CASE Len(gathered["errs"]) > 0
    <3> DEFINE s == gathered["errs"][1]
    <3>1. s \in Source /\ s \in Got("errs")
      BY <2>3, <2>5 DEF Got
    <3>2. s \in Sent("errs")
      BY <3>1 DEF MInv, GatheredOnce, Channel
    <3>3. answer[s] = "error"
      BY <3>1, <3>2 DEF Sent, ChannelOf, MInv, MTypeOK, GatheredOnce
    <3>4. ret' = Abstract!Error(s)
      BY <2>1, <2>5 DEF Outcome, Abstract!Error
    <3>5. Abstract!Return
      BY <2>1, <2>2, <2>4, <3>1, <3>3, <3>4 DEF Abstract!Return
    <3> QED
      BY <3>5 DEF Abstract!Next
  <2>6. CASE ~ (Len(gathered["errs"]) > 0)
    <3>1. Len(gathered["errs"]) = 0
      BY <2>3, <2>6
    <3>2. /\ \A s \in Source : answer[s] = "ok"
          /\ gathered["resChan"] \in Abstract!Arrangements
      BY <2>1, <3>1, AllGathered
    <3>3. ret' = Abstract!Results(gathered["resChan"])
      BY <2>1, <2>6 DEF Outcome, Abstract!Results
    <3>4. Abstract!Return
      BY <2>1, <2>2, <2>4, <3>2, <3>3 DEF Abstract!Return
    <3> QED
      BY <3>4 DEF Abstract!Next
  <2> QED
    BY <2>5, <2>6
<1>7. ASSUME UNCHANGED vars PROVE UNCHANGED Abstract!vars
  BY <1>7 DEF vars, Abstract!vars, Outcome, Pending
<1> QED
  BY <1>1, <1>2, <1>3, <1>4, <1>5, <1>6, <1>7 DEF Next

\* MultiSource.Search implements the abstract search, as far as safety goes, for
\* every finite set of sources: it returns once, after all of them answered, all
\* results with each source's once, or the error of one that failed.
THEOREM SearchRefines == Spec => AbstractSafety
<1>1. Init => Abstract!Init
  BY DEF Init, Abstract!Init, Pending, Abstract!NotYet
<1>2. MInv /\ MInv' /\ [Next]_vars => [Abstract!Next]_(Abstract!vars)
  BY AbstractStep
<1> QED
  BY <1>1, <1>2, SearchInvariant, PTL DEF Spec, AbstractSafety
=============================================================================
