----------------------------- MODULE NetworkTrace -----------------------------
(***************************************************************************)
(* The runtime of the network-trace attestor: the transparent TCP proxy    *)
(* (attestation/networktrace/proxy/tcp.go), its two accept loops, one      *)
(* handler and one recorder goroutine per connection, the collector that   *)
(* drains the connection channel, and the attestor that starts them and    *)
(* takes them down in order (networktrace.go).  What is copied through a   *)
(* connection is left out; how the copy ends is not.                       *)
(***************************************************************************)
EXTENDS Integers, Sequences, FiniteSets, SequencesExt

CONSTANTS Conn,     \* the connections that may be redirected to the proxy
          Family,   \* the listener each of them reaches
          Cap       \* capacity of connChannel

V4 == "v4"
V6 == "v6"
Listener == {V4, V6}
Free == "free"      \* an accept loop blocked in Accept
Gone == "gone"      \* an accept loop that has returned

ASSUME ConnAssumption == IsFiniteSet(Conn) /\ Free \notin Conn /\ Gone \notin Conn
ASSUME FamilyAssumption == Family \in [Conn -> Listener]
ASSUME CapAssumption == Cap \in Nat \ {0}

VARIABLES attestor,  \* where networktrace.Attest is
          shutdown,  \* shutdownSignal is closed, or ctx.Context() is done
          cancelled, \* proxyCtx is done
          proxy,     \* where TCPProxy.Start is
          ready,     \* proxyReady is closed
          listening, \* the open listeners
          acceptor,  \* each accept loop: Free, Gone or the conn it accepted
          conn,      \* where each connection is
          handler,   \* connections whose HandleConnection has not returned
          recordWg,  \* the counter of p.recordWg
          forced,    \* isForceClosed of each connection
          deadline,  \* a deadline was set on its sockets
          connErr,   \* the error it is recorded with: none, network, timeout
          channel,   \* connChannel
          closed,    \* connChannel is closed
          recorded,  \* NetworkTrace.Connections
          panicked,  \* connections sent on the closed channel
          late       \* connections counted after recordWg.Wait returned

vars == <<attestor, shutdown, cancelled, proxy, ready, listening, acceptor,
          conn, handler, recordWg, forced, deadline, connErr, channel, closed,
          recorded, panicked, late>>

attestorVars == <<attestor, shutdown, cancelled>>
proxyVars == <<proxy, ready, listening>>
connVars == <<conn, handler, forced, deadline, connErr>>
chanVars == <<channel, closed, recorded, panicked>>

Init ==
  /\ attestor = "start" /\ shutdown = FALSE /\ cancelled = FALSE
  /\ proxy = "idle" /\ ready = FALSE /\ listening = {}
  /\ acceptor = [l \in Listener |-> Gone]
  /\ conn = [c \in Conn |-> "none"]
  /\ handler = {}
  /\ recordWg = 0
  /\ forced = {} /\ deadline = {}
  /\ connErr = [c \in Conn |-> "none"]
  /\ channel = <<>> /\ closed = FALSE
  /\ recorded = <<>> /\ panicked = {}
  /\ late = {}

-----------------------------------------------------------------------------
(* TCPProxy.Start                                                          *)

\* Listen on [::1], start its accept loop; a failure ends Start with ready
\* left open.
Listen6 ==
  /\ proxy = "listen6"
  /\ \/ /\ listening' = {V6}
        /\ acceptor' = [acceptor EXCEPT ![V6] = Free]
        /\ proxy' = "listen4"
     \/ proxy' = "failed" /\ UNCHANGED <<listening, acceptor>>
  /\ UNCHANGED <<attestorVars, ready, connVars, recordWg, chanVars, late>>

\* Closing the listeners resets what they had not accepted.
Reset == [c \in Conn |-> IF conn[c] = "queued" THEN "dropped" ELSE conn[c]]

\* Listen on IPv4; a failure closes the other listener.  Then signal ready.
Listen4 ==
  /\ proxy = "listen4"
  /\ \/ /\ listening' = Listener
        /\ acceptor' = [acceptor EXCEPT ![V4] = Free]
        /\ ready' = TRUE
        /\ proxy' = "serve"
        /\ UNCHANGED conn
     \/ /\ listening' = {}
        /\ conn' = Reset
        /\ proxy' = "failed"
        /\ UNCHANGED <<acceptor, ready>>
  /\ UNCHANGED <<attestorVars, handler, forced, deadline, connErr, recordWg,
                 chanVars, late>>

\* <-ctx.Done(): close both listeners.
CloseListeners ==
  /\ proxy = "serve"
  /\ cancelled
  /\ listening' = {}
  /\ conn' = Reset
  /\ proxy' = "wait"
  /\ UNCHANGED <<attestorVars, ready, acceptor, handler, forced, deadline,
                 connErr, recordWg, chanVars, late>>

\* recordWg.Wait returns, Start returns, proxyDone is closed.
WaitRecordings ==
  /\ proxy = "wait"
  /\ recordWg = 0
  /\ proxy' = "done"
  /\ UNCHANGED <<attestorVars, ready, listening, acceptor, connVars, recordWg,
                 chanVars, late>>

\* listener.Accept returns a connection ...
Accept(l, c) ==
  /\ acceptor[l] = Free
  /\ l \in listening
  /\ conn[c] = "queued" /\ Family[c] = l
  /\ conn' = [conn EXCEPT ![c] = "accepted"]
  /\ acceptor' = [acceptor EXCEPT ![l] = c]
  /\ UNCHANGED <<attestorVars, proxyVars, handler, forced, deadline, connErr,
                 recordWg, chanVars, late>>

\* ... or an error that ends the loop: the listener is closed, or any other
\* error once the context is done.
AcceptFails(l) ==
  /\ acceptor[l] = Free
  /\ l \notin listening \/ cancelled
  /\ acceptor' = [acceptor EXCEPT ![l] = Gone]
  /\ UNCHANGED <<attestorVars, proxyVars, connVars, recordWg, chanVars, late>>

\* recordWg.Go(HandleConnection), a step after Accept.
SpawnHandler(l, c) ==
  /\ acceptor[l] = c
  /\ recordWg' = recordWg + 1
  /\ conn' = [conn EXCEPT ![c] = "handling"]
  /\ handler' = handler \cup {c}
  /\ acceptor' = [acceptor EXCEPT ![l] = Free]
  /\ late' = IF proxy = "done" THEN late \cup {c} ELSE late
  /\ UNCHANGED <<attestorVars, proxyVars, forced, deadline, connErr, chanVars>>

-----------------------------------------------------------------------------
(* HandleConnection and recordConnection                                   *)

\* The cookie, its metadata or the destination is missing: closed, and not
\* recorded.
HandleFails(c) ==
  /\ conn[c] = "handling"
  /\ conn' = [conn EXCEPT ![c] = "dropped"]
  /\ handler' = handler \ {c}
  /\ recordWg' = recordWg - 1
  /\ UNCHANGED <<attestorVars, proxyVars, acceptor, forced, deadline, connErr,
                 chanVars, late>>

\* Connected to the original destination; AfterFunc is armed.
Dial(c) ==
  /\ conn[c] = "handling"
  /\ conn' = [conn EXCEPT ![c] = "copying"]
  /\ UNCHANGED <<attestorVars, proxyVars, acceptor, handler, forced, deadline,
                 connErr, recordWg, chanVars, late>>

\* Mutants: only Start, before it waits, forces the open connections; the
\* deadlines are set before the mark.
ForceCloseOpenOnly(c) ==
  /\ cancelled /\ proxy = "serve"
  /\ conn[c] = "copying"
  /\ c \notin forced
  /\ forced' = forced \cup {c}
  /\ UNCHANGED <<attestorVars, proxyVars, acceptor, conn, handler, deadline,
                 connErr, recordWg, chanVars, late>>

SetDeadlineFirst(c) ==
  /\ cancelled
  /\ conn[c] = "copying"
  /\ c \notin deadline
  /\ deadline' = deadline \cup {c}
  /\ UNCHANGED <<attestorVars, proxyVars, acceptor, conn, handler, forced,
                 connErr, recordWg, chanVars, late>>

\* The AfterFunc of proxyCtx: mark, then set the deadlines.
ForceClose(c) ==
  /\ cancelled
  /\ conn[c] = "copying"
  /\ c \notin forced
  /\ forced' = forced \cup {c}
  /\ UNCHANGED <<attestorVars, proxyVars, acceptor, conn, handler, deadline,
                 connErr, recordWg, chanVars, late>>

SetDeadline(c) ==
  /\ conn[c] = "copying"
  /\ c \in forced \ deadline
  /\ deadline' = deadline \cup {c}
  /\ UNCHANGED <<attestorVars, proxyVars, acceptor, conn, handler, forced,
                 connErr, recordWg, chanVars, late>>

\* bidirectionalCopy returns the error of one direction or nil: both peers
\* closed, the network failed, or the deadline passed.
bidirectionalCopy(c) ==
  {"none", "network"} \cup (IF c \in deadline THEN {"timeout"} ELSE {})

\* The copy is over; its error is dropped when the connection was forced.  The
\* recorder goroutine is counted before the handler's own count is given up.
CopyEnds(c) ==
  /\ conn[c] = "copying"
  /\ \E e \in bidirectionalCopy(c) :
       connErr' = [connErr EXCEPT ![c] = IF c \in forced THEN "none" ELSE e]
  /\ conn' = [conn EXCEPT ![c] = "recording"]
  /\ recordWg' = recordWg + 1
  /\ UNCHANGED <<attestorVars, proxyVars, acceptor, handler, forced, deadline,
                 chanVars, late>>

\* HandleConnection returns to recordWg.Go.
HandlerReturns(c) ==
  /\ c \in handler
  /\ conn[c] \in {"recording", "sent", "panicked"}
  /\ handler' = handler \ {c}
  /\ recordWg' = recordWg - 1
  /\ UNCHANGED <<attestorVars, proxyVars, acceptor, conn, forced, deadline,
                 connErr, chanVars, late>>

\* recordConnection sends on ConnectionChan, which blocks while it is full and
\* panics once it is closed; then the recorder is done.
Send(c) ==
  /\ conn[c] = "recording"
  /\ \/ /\ ~ closed /\ Len(channel) < Cap
        /\ channel' = Append(channel, c)
        /\ conn' = [conn EXCEPT ![c] = "sent"]
        /\ UNCHANGED panicked
     \/ /\ closed
        /\ panicked' = panicked \cup {c}
        /\ conn' = [conn EXCEPT ![c] = "panicked"]
        /\ UNCHANGED channel
  /\ recordWg' = recordWg - 1
  /\ UNCHANGED <<attestorVars, proxyVars, acceptor, handler, forced, deadline,
                 connErr, closed, recorded, late>>

-----------------------------------------------------------------------------
(* networktrace.Attest                                                     *)

\* initProxies starts the collector and the proxy.
InitProxies ==
  /\ attestor = "start"
  /\ attestor' = "init"
  /\ proxy' = "listen6"
  /\ UNCHANGED <<shutdown, cancelled, ready, listening, acceptor, connVars,
                 recordWg, chanVars, late>>

\* <-proxyReady; then the hooks are registered.
AwaitReady ==
  /\ attestor = "init"
  /\ ready
  /\ attestor' = "running"
  /\ UNCHANGED <<shutdown, cancelled, proxyVars, acceptor, connVars, recordWg,
                 chanVars, late>>

\* waitAndCleanup: cancelProxy after the shutdown signal,
CancelProxy ==
  /\ attestor = "running"
  /\ shutdown
  /\ cancelled' = TRUE
  /\ attestor' = "stopping"
  /\ UNCHANGED <<shutdown, proxyVars, acceptor, connVars, recordWg, chanVars,
                 late>>

\* Mutant of CloseChannel: the proxy is not waited for.
CloseChannelAtOnce ==
  /\ attestor = "stopping"
  /\ closed' = TRUE
  /\ attestor' = "draining"
  /\ UNCHANGED <<shutdown, cancelled, proxyVars, acceptor, connVars, recordWg,
                 channel, recorded, panicked, late>>

\* <-proxyDone and close(connChannel),
CloseChannel ==
  /\ attestor = "stopping"
  /\ proxy = "done"
  /\ closed' = TRUE
  /\ attestor' = "draining"
  /\ UNCHANGED <<shutdown, cancelled, proxyVars, acceptor, connVars, recordWg,
                 channel, recorded, panicked, late>>

\* the collector appends what it receives,
Collect ==
  /\ channel # <<>>
  /\ recorded' = Append(recorded, Head(channel))
  /\ channel' = Tail(channel)
  /\ UNCHANGED <<attestorVars, proxyVars, acceptor, connVars, recordWg, closed,
                 panicked, late>>

\* and Attest returns when the channel is closed and drained.
AttestReturns ==
  /\ attestor = "draining"
  /\ channel = <<>>
  /\ attestor' = "returned"
  /\ UNCHANGED <<shutdown, cancelled, proxyVars, acceptor, connVars, recordWg,
                 chanVars, late>>

-----------------------------------------------------------------------------
(* The environment: the traced process connects, the PreExit hook or the   *)
(* caller's context ask for shutdown                                       *)

Connect(c) ==
  /\ conn[c] = "none"
  /\ Family[c] \in listening
  /\ conn' = [conn EXCEPT ![c] = "queued"]
  /\ UNCHANGED <<attestorVars, proxyVars, acceptor, handler, forced, deadline,
                 connErr, recordWg, chanVars, late>>

\* The hook is registered once Attest runs.
PreExitHook ==
  /\ attestor = "running"
  /\ ~ shutdown
  /\ shutdown' = TRUE
  /\ UNCHANGED <<attestor, cancelled, proxyVars, acceptor, connVars, recordWg,
                 chanVars, late>>

\* proxyCtx is derived from ctx.Context(): cancelling that cancels both.
CancelContext ==
  /\ attestor # "start"
  /\ ~ cancelled
  /\ shutdown' = TRUE
  /\ cancelled' = TRUE
  /\ UNCHANGED <<attestor, proxyVars, acceptor, connVars, recordWg, chanVars,
                 late>>

-----------------------------------------------------------------------------

Start == Listen6 \/ Listen4 \/ CloseListeners \/ WaitRecordings

AcceptLoop(l) ==
  \/ AcceptFails(l)
  \/ \E c \in Conn : Accept(l, c) \/ SpawnHandler(l, c)

Handle(c) ==
  \/ HandleFails(c) \/ Dial(c) \/ HandlerReturns(c) \/ Send(c)

Attest == InitProxies \/ AwaitReady \/ CancelProxy \/ CloseChannel \/ AttestReturns

Next ==
  \/ Start \/ Attest \/ Collect \/ PreExitHook \/ CancelContext
  \/ \E l \in Listener : AcceptLoop(l)
  \/ \E c \in Conn : Connect(c) \/ Handle(c) \/ ForceClose(c) \/ SetDeadline(c)
                       \/ CopyEnds(c)

\* Goroutines run and a dial times out; a copy ends only once its sockets have
\* a deadline, since a peer may stay silent for ever.
Fairness ==
  /\ WF_vars(Start) /\ WF_vars(Attest) /\ WF_vars(Collect)
  /\ \A l \in Listener : WF_vars(AcceptLoop(l))
  /\ \A c \in Conn :
       /\ WF_vars(Handle(c))
       /\ WF_vars(ForceClose(c))
       /\ WF_vars(SetDeadline(c))
       /\ WF_vars(c \in deadline /\ CopyEnds(c))

Spec == Init /\ [][Next]_vars /\ Fairness

-----------------------------------------------------------------------------
(* Properties                                                              *)

\* Every connection whose handler was counted before recordWg.Wait returned and
\* that reached its destination is in the attestation exactly once when Attest
\* returns: forced shutdown, a full channel and the close of the channel lose
\* and duplicate nothing, and none of them is sent on the closed channel.
CountedAreRecordedOnce ==
  attestor = "returned" =>
    \A c \in Conn \ late :
      /\ conn[c] \notin {"copying", "recording", "panicked"}
      /\ Cardinality({i \in DOMAIN recorded : recorded[i] = c})
           = IF conn[c] = "sent" THEN 1 ELSE 0

\* tcp.go, isForceClosed: a shutdown is never recorded as an error of the
\* connection, since the mark is set before the deadline that ends the copy.
ShutdownIsNotAnError == \A c \in Conn : connErr[c] # "timeout"

\* Shutdown completes once the proxy is up, whatever the peers of the open
\* connections do (the deadlocks networktrace.go and tcp.go warn about).
ShutdownCompletes == (shutdown /\ attestor = "running") ~> attestor = "returned"
=============================================================================
