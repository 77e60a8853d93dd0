------------------------------ MODULE MultiSource ------------------------------
(***************************************************************************)
(* source/multi.go: MultiSource.Search queries its sources concurrently.   *)
(* The goroutine of a source hands its answer over one of two unbuffered   *)
(* channels, each read by a goroutine that gathers what arrives; the       *)
(* caller waits for the sources, closes the channels, and waits for both   *)
(* readers to report over two more unbuffered channels.  A source's        *)
(* results are abstracted to the source.                                   *)
(***************************************************************************)
EXTENDS Naturals, Sequences, FiniteSets

CONSTANT Source

ASSUME SourceIsFinite == IsFiniteSet(Source)

VARIABLES answer,    \* what src.Search returned
          delivered, \* sources whose goroutine is done (wg)
          hand,      \* what each reader has received and not yet appended
          gathered,  \* results and errors, by the channel they arrive on
          closed,    \* channels that are closed
          reader,    \* where each reader is
          caller     \* where Search is

vars == <<answer, delivered, hand, gathered, closed, reader, caller>>

Channel == {"resChan", "errs"}

Init ==
  /\ answer = [s \in Source |-> "pending"]
  /\ delivered = {}
  /\ hand = [c \in Channel |-> <<>>]
  /\ gathered = [c \in Channel |-> <<>>]
  /\ closed = {}
  /\ reader = [c \in Channel |-> "reading"]
  /\ caller = "wait"

\* src.Search returns.
Query(s) ==
  /\ answer[s] = "pending"
  /\ \E a \in {"ok", "error"} : answer' = [answer EXCEPT ![s] = a]
  /\ UNCHANGED <<delivered, hand, gathered, closed, reader, caller>>

ChannelOf(a) == IF a = "ok" THEN "resChan" ELSE "errs"

\* resChan <- res or errs <- err meets a reader in its range loop; then wg.Done.
Send(s) ==
  /\ answer[s] # "pending"
  /\ s \notin delivered
  /\ LET c == ChannelOf(answer[s])
     IN  /\ reader[c] = "reading"
         /\ hand[c] = <<>>
         /\ hand' = [hand EXCEPT ![c] = <<s>>]
  /\ delivered' = delivered \cup {s}
  /\ UNCHANGED <<answer, gathered, closed, reader, caller>>

\* The body of a reader's loop appends what was received.
Gather(c) ==
  /\ hand[c] # <<>>
  /\ gathered' = [gathered EXCEPT ![c] = @ \o hand[c]]
  /\ hand' = [hand EXCEPT ![c] = <<>>]
  /\ UNCHANGED <<answer, delivered, closed, reader, caller>>

\* wg.Wait, then close(resChan).
CloseResults ==
  /\ caller = "wait"
  /\ delivered = Source
  /\ closed' = {"resChan"}
  /\ caller' = "close"
  /\ UNCHANGED <<answer, delivered, hand, gathered, reader>>

CloseErrors ==
  /\ caller = "close"
  /\ closed' = Channel
  /\ caller' = "errdone"
  /\ UNCHANGED <<answer, delivered, hand, gathered, reader>>

\* The range loop of a reader ends when its channel is closed.
EndOfRange(c) ==
  /\ reader[c] = "reading"
  /\ hand[c] = <<>>
  /\ c \in closed
  /\ reader' = [reader EXCEPT ![c] = "reporting"]
  /\ UNCHANGED <<answer, delivered, hand, gathered, closed, caller>>

\* Mutant of ErrDone: the error reader is not waited for.
ErrDoneSkipped ==
  /\ caller = "errdone"
  /\ caller' = "readerDone"
  /\ UNCHANGED <<answer, delivered, hand, gathered, closed, reader>>

\* errdone <- true meets <-errdone.
ErrDone ==
  /\ caller = "errdone"
  /\ reader["errs"] = "reporting"
  /\ reader' = [reader EXCEPT !["errs"] = "gone"]
  /\ caller' = "readerDone"
  /\ UNCHANGED <<answer, delivered, hand, gathered, closed>>

\* Mutant of ReaderDone: the result reader is not waited for.
ReaderDoneSkipped ==
  /\ caller = "readerDone"
  /\ caller' = "returned"
  /\ UNCHANGED <<answer, delivered, hand, gathered, closed, reader>>

\* readerDone <- true meets <-readerDone, and Search returns.
ReaderDone ==
  /\ caller = "readerDone"
  /\ reader["resChan"] = "reporting"
  /\ reader' = [reader EXCEPT !["resChan"] = "gone"]
  /\ caller' = "returned"
  /\ UNCHANGED <<answer, delivered, hand, gathered, closed>>

Next ==
  \/ \E s \in Source : Query(s) \/ Send(s)
  \/ \E c \in Channel : Gather(c) \/ EndOfRange(c)
  \/ CloseResults \/ CloseErrors \/ ErrDone \/ ReaderDone

\* Goroutines are scheduled and every source answers.
Spec == Init /\ [][Next]_vars /\ WF_vars(Next)

-----------------------------------------------------------------------------
(* The refinement                                                          *)

\* What Search returns: the first error, or the results of all.
Outcome == IF Len(gathered["errs"]) > 0
             THEN [kind |-> "error", from |-> <<gathered["errs"][1]>>]
             ELSE [kind |-> "results", from |-> gathered["resChan"]]

Pending == [kind |-> "pending", from |-> <<>>]

\* The readers, the channels and the wait group are hidden; the search has
\* returned when the caller has.
Abstract == INSTANCE SearchAll WITH
              Source <- Source,
              answer <- answer,
              returned <- IF caller = "returned" THEN Outcome ELSE Pending

-----------------------------------------------------------------------------
(* Properties                                                              *)

\* No goroutine is left behind when Search returns: it waits for both readers
\* in a fixed order, and each blocks until it is heard.
NoGoroutineLeft ==
  caller = "returned" =>
    \A c \in Channel : reader[c] = "gone" /\ hand[c] = <<>>

\* MultiSource.Search implements the abstract search: the combined results of
\* all sources, or one of the errors and nothing else, and it returns.
RefinesSearchAll == Abstract!Spec
=============================================================================
