-------------------------- MODULE NetworkTraceProofs --------------------------
(***************************************************************************)
(* For any number of connections and any capacity of the channel: when     *)
(* Attest returns, every connection that recordWg counted and that reached *)
(* its destination is recorded exactly once, and no shutdown is recorded   *)
(* as an error.                                                            *)
(*                                                                         *)
(* The argument: recordWg is the number of running handlers plus that of   *)
(* running recorders, because a recorder is counted before its handler is  *)
(* done.  So none is left when Wait returns, and the channel is closed     *)
(* after that.  What the recorders sent is, at any time, the list of the   *)
(* recorded connections followed by the channel.                           *)
(***************************************************************************)
EXTENDS NetworkTrace, FunctionTheorems, FiniteSetTheorems, SequenceTheorems, TLAPS

NTypes ==
  /\ attestor \in {"start", "init", "running", "stopping", "draining", "returned"}
  /\ acceptor \in [Listener -> Conn \cup {Free, Gone}]
  /\ conn \in [Conn -> {"none", "queued", "accepted", "handling", "copying",
                        "recording", "sent", "panicked", "dropped"}]
  /\ handler \subseteq Conn
  /\ DOMAIN connErr = Conn
  /\ deadline \subseteq forced
  /\ channel \in Seq(Conn)
  /\ recorded \in Seq(Conn)

\* A connection is handed over by one accept loop, and its handler runs until
\* its recorder has been started.
Handling ==
  /\ \A l \in Listener, c \in Conn :
       acceptor[l] = c => conn[c] = "accepted" /\ Family[c] = l
  /\ \A c \in handler :
       conn[c] \in {"handling", "copying", "recording", "sent", "panicked"}
  /\ \A c \in Conn : conn[c] \in {"handling", "copying"} => c \in handler

Recorders == {c \in Conn : conn[c] = "recording"}

\* What recordWg counts.
Counted == recordWg = Cardinality(handler) + Cardinality(Recorders)

\* After Wait has returned only late connections are still on their way.
Settled ==
  proxy = "done" =>
    \A c \in Conn \ late :
      /\ c \notin handler
      /\ conn[c] \notin {"handling", "copying", "recording", "panicked"}

\* The channel is closed after that, and then drained.
Closing ==
  /\ attestor = "start" => proxy = "idle"
  /\ closed => proxy = "done"
  /\ closed <=> attestor \in {"draining", "returned"}
  /\ attestor = "returned" => channel = <<>>
  /\ \A c \in Conn : conn[c] = "panicked" => closed

\* What was sent and not lost: recorded, or still in the channel.
Delivered == recorded \o channel

EachIsDeliveredOnce ==
  /\ \A i \in 1..Len(Delivered) : conn[Delivered[i]] = "sent"
  /\ \A i, j \in 1..Len(Delivered) : Delivered[i] = Delivered[j] => i = j
  /\ \A c \in Conn : conn[c] = "sent" => \E i \in 1..Len(Delivered) : Delivered[i] = c

NInv ==
  /\ NTypes /\ Handling /\ Counted /\ Settled /\ Closing /\ EachIsDeliveredOnce
  /\ ShutdownIsNotAnError

-----------------------------------------------------------------------------

LEMMA TraceInitially == Init => NInv
<1> SUFFICES ASSUME Init PROVE NInv
  OBVIOUS
<1>1. /\ conn = [c \in Conn |-> "none"] /\ connErr = [c \in Conn |-> "none"]
      /\ acceptor = [l \in Listener |-> Gone] /\ handler = {} /\ forced = {}
      /\ deadline = {} /\ channel = <<>> /\ recorded = <<>> /\ recordWg = 0
      /\ attestor = "start" /\ proxy = "idle"
  BY DEF Init
<1>2. NTypes
  BY <1>1 DEF NTypes
<1>3. Handling
  BY <1>1, ConnAssumption DEF Handling
<1>4. Counted
  <2>1. Recorders = {}
    BY <1>1 DEF Recorders
  <2> QED
    BY <1>1, <2>1, FS_EmptySet DEF Counted
<1>5. Settled /\ ShutdownIsNotAnError
  BY <1>1 DEF Settled, ShutdownIsNotAnError
<1>6. Closing
  BY <1>1 DEF Init, Closing
<1>7. EachIsDeliveredOnce
  <2>1. Delivered = <<>> /\ Len(Delivered) = 0
    BY <1>1 DEF Delivered
  <2> QED
    BY <1>1, <2>1 DEF EachIsDeliveredOnce
<1> QED
  BY <1>2, <1>3, <1>4, <1>5, <1>6, <1>7 DEF NInv

-----------------------------------------------------------------------------
(* Types, hand-over and errors                                             *)

LEMMA NTypesStep == NInv /\ [Next]_vars => NTypes'
<1> SUFFICES ASSUME NInv, [Next]_vars PROVE NTypes'
  OBVIOUS
<1> NTypes
  BY DEF NInv
<1>1. CASE Start
  BY <1>1 DEF Start, Listen6, Listen4, CloseListeners, WaitRecordings, Reset, NTypes,
     attestorVars, connVars, chanVars
<1>2. CASE Attest \/ PreExitHook \/ CancelContext
  BY <1>2 DEF Attest, InitProxies, AwaitReady, CancelProxy, CloseChannel,
     AttestReturns, PreExitHook, CancelContext, NTypes, attestorVars, connVars, chanVars
<1>3. CASE Collect
  <2>1. Head(channel) \in Conn /\ Tail(channel) \in Seq(Conn)
    BY <1>3 DEF Collect, NTypes
  <2> QED
    BY <1>3, <2>1 DEF Collect, NTypes, attestorVars, connVars
<1>4. ASSUME NEW l \in Listener, AcceptLoop(l) PROVE NTypes'
  BY <1>4 DEF AcceptLoop, AcceptFails, Accept, SpawnHandler, NTypes, attestorVars,
     connVars, chanVars
<1>5. ASSUME NEW c \in Conn, Connect(c) \/ HandleFails(c) \/ Dial(c) \/ HandlerReturns(c)
      PROVE  NTypes'
  BY <1>5 DEF Connect, HandleFails, Dial, HandlerReturns, NTypes, attestorVars, chanVars
<1>6. ASSUME NEW c \in Conn, Send(c) PROVE NTypes'
  <2>1. channel' \in Seq(Conn)
    <3>1. channel' = channel \/ channel' = Append(channel, c)
      BY <1>6 DEF Send
    <3>2. channel \in Seq(Conn)
      BY DEF NTypes
    <3> QED
      BY <3>1, <3>2
  <2>2. conn' = [conn EXCEPT ![c] = "sent"] \/ conn' = [conn EXCEPT ![c] = "panicked"]
    BY <1>6 DEF Send
  <2> QED
    BY <1>6, <2>1, <2>2 DEF Send, NTypes, attestorVars
<1>7. ASSUME NEW c \in Conn, ForceClose(c) \/ SetDeadline(c) \/ CopyEnds(c)
      PROVE  NTypes'
  BY <1>7 DEF ForceClose, SetDeadline, CopyEnds, NTypes, attestorVars, chanVars
<1>8. CASE UNCHANGED vars
  BY <1>8 DEF vars, NTypes
<1> QED
  BY <1>1, <1>2, <1>3, <1>4, <1>5, <1>6, <1>7, <1>8 DEF Next, Handle

\* A connection has one handler, from its accept loop on.
LEMMA HandlingStep == NInv /\ [Next]_vars => Handling'
<1> SUFFICES ASSUME NInv, [Next]_vars PROVE Handling'
  OBVIOUS
<1>1. NTypes /\ Handling /\ Free \notin Conn /\ Gone \notin Conn
  BY ConnAssumption DEF NInv
<1>2. CASE Start
  BY <1>1, <1>2 DEF Start, Listen6, Listen4, CloseListeners, WaitRecordings, Reset,
     NTypes, Handling, connVars, Listener
<1>3. CASE UNCHANGED <<conn, handler, acceptor>>
  BY <1>1, <1>3 DEF Handling
<1>4. CASE Attest \/ PreExitHook \/ CancelContext \/ Collect \/ UNCHANGED vars
  BY <1>3, <1>4 DEF Attest, InitProxies, AwaitReady, CancelProxy, CloseChannel,
     AttestReturns, PreExitHook, CancelContext, Collect, connVars, vars
<1>5. ASSUME NEW l \in Listener, AcceptFails(l) PROVE Handling'
  BY <1>1, <1>5 DEF AcceptFails, NTypes, Handling, connVars
<1>6. ASSUME NEW l \in Listener, NEW c \in Conn, Accept(l, c) PROVE Handling'
  BY <1>1, <1>6 DEF Accept, NTypes, Handling
<1>7. ASSUME NEW l \in Listener, NEW c \in Conn, SpawnHandler(l, c) PROVE Handling'
  BY <1>1, <1>7 DEF SpawnHandler, NTypes, Handling
<1>8. ASSUME NEW c \in Conn, Connect(c) \/ HandleFails(c) \/ Dial(c) \/ HandlerReturns(c)
      PROVE  Handling'
  BY <1>1, <1>8 DEF Connect, HandleFails, Dial, HandlerReturns, NTypes, Handling
<1>9. ASSUME NEW c \in Conn, Send(c) \/ CopyEnds(c) PROVE Handling'
  BY <1>1, <1>9 DEF Send, CopyEnds, NTypes, Handling
<1>10. ASSUME NEW c \in Conn, ForceClose(c) \/ SetDeadline(c) PROVE Handling'
  BY <1>3, <1>10 DEF ForceClose, SetDeadline
<1> QED
  BY <1>2, <1>4, <1>5, <1>6, <1>7, <1>8, <1>9, <1>10 DEF Next, AcceptLoop, Handle

\* Only a connection that is marked has a deadline to run into.
LEMMA ErrorStep == NInv /\ [Next]_vars => ShutdownIsNotAnError'
<1> SUFFICES ASSUME NInv, [Next]_vars PROVE ShutdownIsNotAnError'
  OBVIOUS
<1>1. NTypes /\ ShutdownIsNotAnError
  BY DEF NInv
<1>2. ASSUME NEW c \in Conn, CopyEnds(c) PROVE ShutdownIsNotAnError'
  <2>1. PICK e \in bidirectionalCopy(c) :
          connErr' = [connErr EXCEPT ![c] = IF c \in forced THEN "none" ELSE e]
    BY <1>2 DEF CopyEnds
  <2>2. (IF c \in forced THEN "none" ELSE e) # "timeout"
    BY <1>1, <2>1 DEF bidirectionalCopy, NTypes
  <2> QED
    BY <1>1, <2>1, <2>2 DEF ShutdownIsNotAnError, NTypes
<1>3. CASE connErr' = connErr
  BY <1>1, <1>3 DEF ShutdownIsNotAnError
<1>4. CASE Start \/ Attest \/ PreExitHook \/ CancelContext \/ Collect \/ UNCHANGED vars
  BY <1>3, <1>4 DEF Start, Listen6, Listen4, CloseListeners, WaitRecordings, Attest,
     InitProxies, AwaitReady, CancelProxy, CloseChannel, AttestReturns, PreExitHook,
     CancelContext, Collect, connVars, vars
<1>5. ASSUME NEW l \in Listener, AcceptLoop(l) PROVE ShutdownIsNotAnError'
  BY <1>3, <1>5 DEF AcceptLoop, AcceptFails, Accept, SpawnHandler, connVars
<1>6. ASSUME NEW c \in Conn, Connect(c) \/ Handle(c) \/ ForceClose(c) \/ SetDeadline(c)
      PROVE  ShutdownIsNotAnError'
  BY <1>3, <1>6 DEF Connect, Handle, HandleFails, Dial, HandlerReturns, Send,
     ForceClose, SetDeadline
<1> QED
  BY <1>2, <1>4, <1>5, <1>6 DEF Next

-----------------------------------------------------------------------------
(* What recordWg counts                                                    *)

\* Sets of connections are finite, and grow and shrink by one.
LEMMA ConnSets ==
  ASSUME NEW S \in SUBSET Conn, NEW c \in Conn
  PROVE  /\ Cardinality(S) \in Nat
         /\ c \notin S => Cardinality(S \cup {c}) = Cardinality(S) + 1
         /\ c \in S => Cardinality(S \ {c}) = Cardinality(S) - 1
         /\ Cardinality(S) = 0 => S = {}
<1>1. IsFiniteSet(S)
  BY ConnAssumption, FS_Subset
<1> QED
  BY <1>1, FS_CardinalityType, FS_AddElement, FS_RemoveElement, FS_EmptySet

LEMMA CountedStep == NInv /\ [Next]_vars => Counted'
<1> SUFFICES ASSUME NInv, [Next]_vars PROVE Counted'
  OBVIOUS
<1>1. NTypes /\ Handling /\ Counted /\ handler \subseteq Conn /\ Recorders \subseteq Conn
  BY DEF NInv, NTypes, Recorders
<1>2. Cardinality(handler) \in Nat /\ Cardinality(Recorders) \in Nat
  BY <1>1, ConnAssumption, FS_Subset, FS_CardinalityType
<1>3. CASE Recorders' = Recorders /\ handler' = handler /\ recordWg' = recordWg
  BY <1>1, <1>3 DEF Counted
<1>4. CASE Start
  <2>1. \A c \in Conn : (conn'[c] = "recording") = (conn[c] = "recording")
    BY <1>1, <1>4 DEF Start, Listen6, Listen4, CloseListeners, WaitRecordings, Reset,
       connVars
  <2> QED
    BY <1>3, <1>4, <2>1 DEF Recorders, Start, Listen6, Listen4, CloseListeners,
       WaitRecordings, connVars
<1>5. CASE Attest \/ PreExitHook \/ CancelContext \/ Collect \/ UNCHANGED vars
  BY <1>3, <1>5 DEF Attest, InitProxies, AwaitReady, CancelProxy, CloseChannel,
     AttestReturns, PreExitHook, CancelContext, Collect, connVars, vars, Recorders
<1>6. ASSUME NEW l \in Listener, AcceptFails(l) PROVE Counted'
  BY <1>3, <1>6 DEF AcceptFails, connVars, Recorders
<1>7. ASSUME NEW l \in Listener, NEW c \in Conn, Accept(l, c) PROVE Counted'
  BY <1>1, <1>3, <1>7 DEF Accept, NTypes, Recorders
<1>8. ASSUME NEW l \in Listener, NEW c \in Conn, SpawnHandler(l, c) PROVE Counted'
  <2>1. c \notin handler /\ conn[c] = "accepted"
    BY <1>1, <1>8 DEF SpawnHandler, Handling
  <2>2. Recorders' = Recorders
    BY <1>1, <1>8, <2>1 DEF SpawnHandler, NTypes, Recorders
  <2>3. handler' = handler \cup {c} /\ recordWg' = recordWg + 1
    BY <1>8 DEF SpawnHandler
  <2>4. Cardinality(handler') = Cardinality(handler) + 1
    BY <1>1, <2>1, <2>3, ConnSets
  <2> QED
    BY <1>2, <1>1, <2>2, <2>3, <2>4 DEF Counted
<1>9. ASSUME NEW c \in Conn, HandleFails(c) \/ HandlerReturns(c) PROVE Counted'
  <2>1. c \in handler /\ handler' = handler \ {c} /\ recordWg' = recordWg - 1
    BY <1>1, <1>9 DEF HandleFails, HandlerReturns, Handling
  <2>2. Recorders' = Recorders
    BY <1>1, <1>9 DEF HandleFails, HandlerReturns, NTypes, Recorders
  <2>3. Cardinality(handler') = Cardinality(handler) - 1
    BY <1>1, <2>1, ConnSets
  <2> QED
    BY <1>2, <1>1, <2>1, <2>2, <2>3 DEF Counted
<1>10. ASSUME NEW c \in Conn, Connect(c) \/ Dial(c) PROVE Counted'
  BY <1>1, <1>3, <1>10 DEF Connect, Dial, NTypes, Recorders
<1>11. ASSUME NEW c \in Conn, CopyEnds(c) PROVE Counted'
  <2>1. c \notin Recorders /\ Recorders' = Recorders \cup {c}
    BY <1>1, <1>11 DEF CopyEnds, NTypes, Recorders
  <2>2. handler' = handler /\ recordWg' = recordWg + 1
    BY <1>11 DEF CopyEnds
  <2>3. Cardinality(Recorders') = Cardinality(Recorders) + 1
    BY <1>1, <2>1, ConnSets
  <2> QED
    BY <1>2, <1>1, <2>2, <2>3 DEF Counted
<1>12. ASSUME NEW c \in Conn, Send(c) PROVE Counted'
  <2>1. c \in Recorders /\ Recorders' = Recorders \ {c}
    BY <1>1, <1>12 DEF Send, NTypes, Recorders
  <2>2. handler' = handler /\ recordWg' = recordWg - 1
    BY <1>12 DEF Send
  <2>3. Cardinality(Recorders') = Cardinality(Recorders) - 1
    BY <1>1, <2>1, ConnSets
  <2> QED
    BY <1>2, <1>1, <2>2, <2>3 DEF Counted
<1>13. ASSUME NEW c \in Conn, ForceClose(c) \/ SetDeadline(c) PROVE Counted'
  BY <1>3, <1>13 DEF ForceClose, SetDeadline, Recorders
<1> QED
  BY <1>4, <1>5, <1>6, <1>7, <1>8, <1>9, <1>10, <1>11, <1>12, <1>13
     DEF Next, AcceptLoop, Handle

\* When Wait returns nothing is counted; what is counted later is late.
LEMMA SettledStep == NInv /\ [Next]_vars => Settled'
<1> SUFFICES ASSUME NInv, [Next]_vars PROVE Settled'
  OBVIOUS
<1>1. NTypes /\ Handling /\ Counted /\ Settled /\ Closing
  BY DEF NInv
<1>2. CASE WaitRecordings
  <2>1. handler \subseteq Conn /\ Recorders \subseteq Conn
    BY <1>1 DEF NTypes, Recorders
  <2>2. IsFiniteSet(handler) /\ IsFiniteSet(Recorders)
    BY <2>1, ConnAssumption, FS_Subset
  <2>3. Cardinality(handler) \in Nat /\ Cardinality(Recorders) \in Nat
    BY <2>2, FS_CardinalityType
  <2>4. Cardinality(handler) = 0 /\ Cardinality(Recorders) = 0
    BY <1>1, <1>2, <2>3 DEF WaitRecordings, Counted
  <2>5. handler = {} /\ Recorders = {}
    BY <2>2, <2>4, FS_EmptySet
  <2>6. \A c \in Conn : conn[c] \notin {"handling", "copying", "recording", "panicked"}
    BY <1>1, <1>2, <2>5 DEF Handling, Recorders, Closing, WaitRecordings
  <2> QED
    BY <1>2, <2>5, <2>6 DEF WaitRecordings, connVars, Settled
<1>3. CASE proxy' # "done"
  BY <1>3 DEF Settled
<1>4. CASE Listen6 \/ Listen4 \/ CloseListeners \/ InitProxies
  BY <1>3, <1>4 DEF Listen6, Listen4, CloseListeners, InitProxies
<1>5. CASE UNCHANGED <<proxy, conn, handler, late>>
  BY <1>1, <1>5 DEF Settled
<1>6. CASE AwaitReady \/ CancelProxy \/ CloseChannel \/ AttestReturns \/ PreExitHook
           \/ CancelContext \/ Collect \/ UNCHANGED vars
  BY <1>5, <1>6 DEF AwaitReady, CancelProxy, CloseChannel, AttestReturns, PreExitHook,
     CancelContext, Collect, proxyVars, connVars, vars
<1>7. ASSUME NEW l \in Listener, AcceptFails(l) PROVE Settled'
  BY <1>5, <1>7 DEF AcceptFails, proxyVars, connVars
<1>8. ASSUME NEW l \in Listener, NEW c \in Conn, Accept(l, c) PROVE Settled'
  BY <1>1, <1>8 DEF Accept, Settled, NTypes, proxyVars
<1>9. ASSUME NEW l \in Listener, NEW c \in Conn, SpawnHandler(l, c) PROVE Settled'
  BY <1>1, <1>9 DEF SpawnHandler, Settled, NTypes, proxyVars
<1>10. ASSUME NEW c \in Conn, Connect(c) \/ HandleFails(c) \/ Dial(c) \/ HandlerReturns(c)
       PROVE  Settled'
  BY <1>1, <1>10 DEF Connect, HandleFails, Dial, HandlerReturns, Settled, NTypes, proxyVars
<1>11. ASSUME NEW c \in Conn, Send(c) \/ CopyEnds(c) PROVE Settled'
  BY <1>1, <1>11 DEF Send, CopyEnds, Settled, NTypes, proxyVars
<1>12. ASSUME NEW c \in Conn, ForceClose(c) \/ SetDeadline(c) PROVE Settled'
  BY <1>5, <1>12 DEF ForceClose, SetDeadline, proxyVars
<1> QED
  BY <1>2, <1>4, <1>6, <1>7, <1>8, <1>9, <1>10, <1>11, <1>12
     DEF Next, Start, Attest, AcceptLoop, Handle

\* The channel is closed once, after Wait, and nothing is sent on it then.
LEMMA ClosingStep == NInv /\ [Next]_vars => Closing'
<1> SUFFICES ASSUME NInv, [Next]_vars PROVE Closing'
  OBVIOUS
<1>1. NTypes /\ Closing
  BY DEF NInv
<1>2. CASE Start
  BY <1>1, <1>2 DEF Start, Listen6, Listen4, CloseListeners, WaitRecordings, Reset,
     NTypes, Closing, attestorVars, connVars, chanVars
<1>3. CASE Attest
  BY <1>1, <1>3 DEF Attest, InitProxies, AwaitReady, CancelProxy, CloseChannel,
     AttestReturns, Closing, proxyVars, connVars, chanVars
<1>4. CASE Collect
  BY <1>1, <1>4 DEF Collect, Closing, attestorVars, proxyVars, connVars
<1>5. CASE UNCHANGED <<attestor, proxy, closed, channel, conn>>
  BY <1>1, <1>5 DEF Closing
<1>6. CASE PreExitHook \/ CancelContext \/ UNCHANGED vars
  BY <1>5, <1>6 DEF PreExitHook, CancelContext, proxyVars, connVars, chanVars, vars
<1>7. ASSUME NEW l \in Listener, AcceptFails(l) PROVE Closing'
  BY <1>5, <1>7 DEF AcceptFails, attestorVars, proxyVars, connVars, chanVars
<1>8. ASSUME NEW l \in Listener, NEW c \in Conn, Accept(l, c) \/ SpawnHandler(l, c)
      PROVE  Closing'
  BY <1>1, <1>8 DEF Accept, SpawnHandler, Closing, NTypes, attestorVars, proxyVars,
     chanVars
<1>9. ASSUME NEW c \in Conn, Connect(c) \/ HandleFails(c) \/ Dial(c) \/ HandlerReturns(c)
      PROVE  Closing'
  BY <1>1, <1>9 DEF Connect, HandleFails, Dial, HandlerReturns, Closing, NTypes,
     attestorVars, proxyVars, chanVars
<1>10. ASSUME NEW c \in Conn, CopyEnds(c) PROVE Closing'
  BY <1>1, <1>10 DEF CopyEnds, Closing, NTypes, attestorVars, proxyVars, chanVars
<1>11. ASSUME NEW c \in Conn, Send(c) PROVE Closing'
  <2>1. /\ attestor' = attestor /\ proxy' = proxy /\ closed' = closed
        /\ closed => channel' = channel
        /\ ~ closed => conn' = [conn EXCEPT ![c] = "sent"]
    BY <1>11 DEF Send, attestorVars, proxyVars
  <2> QED
    BY <1>1, <2>1 DEF Closing, NTypes
<1>12. ASSUME NEW c \in Conn, ForceClose(c) \/ SetDeadline(c) PROVE Closing'
  BY <1>5, <1>12 DEF ForceClose, SetDeadline, attestorVars, proxyVars, chanVars
<1> QED
  BY <1>2, <1>3, <1>4, <1>6, <1>7, <1>8, <1>9, <1>10, <1>11, <1>12
     DEF Next, AcceptLoop, Handle

-----------------------------------------------------------------------------
(* What is delivered                                                       *)

\* The collector moves the head of the channel; what was delivered stays.
LEMMA CollectKeeps ==
  ASSUME NTypes, Collect
  PROVE  Delivered' = Delivered /\ conn' = conn
<1>1. /\ channel \in Seq(Conn) /\ recorded \in Seq(Conn) /\ channel # <<>>
      /\ recorded' = Append(recorded, Head(channel)) /\ channel' = Tail(channel)
  BY DEF NTypes, Collect
<1>2. Append(recorded, Head(channel)) \o Tail(channel) = recorded \o channel
  BY <1>1
<1> QED
  BY <1>1, <1>2 DEF Delivered, Collect, connVars

\* A recorder adds its connection at the end, or finds the channel closed.
LEMMA SendAdds ==
  ASSUME NTypes, NEW c \in Conn, Send(c)
  PROVE  /\ Delivered \in Seq(Conn)
         /\ \/ Delivered' = Append(Delivered, c) /\ conn' = [conn EXCEPT ![c] = "sent"]
            \/ Delivered' = Delivered /\ conn' = [conn EXCEPT ![c] = "panicked"]
<1>1. channel \in Seq(Conn) /\ recorded \in Seq(Conn) /\ recorded' = recorded
  BY DEF NTypes, Send
<1>2. recorded \o Append(channel, c) = Append(recorded \o channel, c)
  BY <1>1
<1>3. Delivered \in Seq(Conn)
  BY <1>1 DEF Delivered
<1> QED
  BY <1>1, <1>2, <1>3 DEF Delivered, Send

LEMMA DeliveredStep == NInv /\ [Next]_vars => EachIsDeliveredOnce'
<1> SUFFICES ASSUME NInv, [Next]_vars PROVE EachIsDeliveredOnce'
  OBVIOUS
<1>1. NTypes /\ EachIsDeliveredOnce
  BY DEF NInv
<1>2. Delivered \in Seq(Conn) /\ Len(Delivered) \in Nat
      /\ \A i \in 1..Len(Delivered) : Delivered[i] \in Conn
  BY <1>1 DEF Delivered, NTypes
<1>3. ASSUME Delivered' = Delivered,
             \A c \in Conn : (conn'[c] = "sent") = (conn[c] = "sent")
      PROVE  EachIsDeliveredOnce'
  BY <1>1, <1>2, <1>3 DEF EachIsDeliveredOnce
<1>4. CASE Collect
  BY <1>1, <1>3, <1>4, CollectKeeps
<1>5. ASSUME NEW c \in Conn, Send(c) PROVE EachIsDeliveredOnce'
  <2>1. conn[c] = "recording" /\ conn \in [Conn -> {"none", "queued", "accepted",
          "handling", "copying", "recording", "sent", "panicked", "dropped"}]
    BY <1>1, <1>5 DEF Send, NTypes
  <2>2. CASE Delivered' = Delivered /\ conn' = [conn EXCEPT ![c] = "panicked"]
    BY <1>3, <2>1, <2>2
  <2>3. CASE Delivered' = Append(Delivered, c) /\ conn' = [conn EXCEPT ![c] = "sent"]
    <3>1. /\ Len(Delivered') = Len(Delivered) + 1
          /\ Delivered'[Len(Delivered) + 1] = c
          /\ \A i \in 1..Len(Delivered) : Delivered'[i] = Delivered[i]
      BY <1>2, <2>3
    <3>2. \A i \in 1..Len(Delivered') : i \in 1..Len(Delivered) \/ i = Len(Delivered) + 1
      BY <1>2, <3>1
    <3>3. /\ Len(Delivered) + 1 \in 1..Len(Delivered')
          /\ \A i \in 1..Len(Delivered) : i \in 1..Len(Delivered')
      BY <1>2, <3>1
    <3>4. \A i \in 1..Len(Delivered) : Delivered[i] # c
      BY <1>1, <2>1 DEF EachIsDeliveredOnce
    <3>5. /\ conn'[c] = "sent" /\ \A d \in Conn : d # c => conn'[d] = conn[d]
      BY <2>1, <2>3
    <3>6. \A i \in 1..Len(Delivered') : conn'[Delivered'[i]] = "sent"
      BY <1>1, <1>2, <3>1, <3>2, <3>4, <3>5 DEF EachIsDeliveredOnce
    <3>7. \A i, j \in 1..Len(Delivered') : Delivered'[i] = Delivered'[j] => i = j
      BY <1>1, <3>1, <3>2, <3>4 DEF EachIsDeliveredOnce
    <3>8. \A d \in Conn : conn'[d] = "sent" => \E i \in 1..Len(Delivered') : Delivered'[i] = d
      BY <1>1, <3>1, <3>3, <3>5 DEF EachIsDeliveredOnce
    <3> QED
      BY <3>6, <3>7, <3>8 DEF EachIsDeliveredOnce
  <2> QED
    BY <1>1, <1>5, <2>2, <2>3, SendAdds
<1>6. CASE Start
  BY <1>1, <1>3, <1>6 DEF Start, Listen6, Listen4, CloseListeners, WaitRecordings, Reset,
     NTypes, Delivered, connVars, chanVars
<1>7. CASE UNCHANGED <<channel, recorded, conn>>
  BY <1>3, <1>7 DEF Delivered
<1>8. CASE Attest \/ PreExitHook \/ CancelContext \/ UNCHANGED vars
  BY <1>7, <1>8 DEF Attest, InitProxies, AwaitReady, CancelProxy, CloseChannel,
     AttestReturns, PreExitHook, CancelContext, connVars, chanVars, vars
<1>9. ASSUME NEW l \in Listener, AcceptFails(l) PROVE EachIsDeliveredOnce'
  BY <1>7, <1>9 DEF AcceptFails, connVars, chanVars
<1>10. ASSUME NEW l \in Listener, NEW c \in Conn, Accept(l, c) PROVE EachIsDeliveredOnce'
  BY <1>1, <1>3, <1>10 DEF Accept, NTypes, Delivered, chanVars
<1>11. ASSUME NEW l \in Listener, NEW c \in Conn, SpawnHandler(l, c)
       PROVE  EachIsDeliveredOnce'
  <2>1. conn[c] = "accepted"
    BY <1>11 DEF NInv, Handling, SpawnHandler
  <2> QED
    BY <1>1, <1>3, <1>11, <2>1 DEF SpawnHandler, NTypes, Delivered, chanVars
<1>12. ASSUME NEW c \in Conn, Connect(c) \/ HandleFails(c) \/ Dial(c) \/ CopyEnds(c)
       PROVE  EachIsDeliveredOnce'
  BY <1>1, <1>3, <1>12 DEF Connect, HandleFails, Dial, CopyEnds, NTypes, Delivered,
     chanVars
<1>13. ASSUME NEW c \in Conn, HandlerReturns(c) \/ ForceClose(c) \/ SetDeadline(c)
       PROVE  EachIsDeliveredOnce'
  BY <1>7, <1>13 DEF HandlerReturns, ForceClose, SetDeadline, chanVars
<1> QED
  BY <1>4, <1>5, <1>6, <1>8, <1>9, <1>10, <1>11, <1>12, <1>13
     DEF Next, AcceptLoop, Handle

-----------------------------------------------------------------------------

\* The invariant of the proxy and its recorders.
THEOREM TraceInvariant == Spec => []NInv
<1>1. NInv /\ [Next]_vars => NInv'
  BY NTypesStep, HandlingStep, CountedStep, SettledStep, ClosingStep, DeliveredStep,
     ErrorStep DEF NInv
<1> QED
  BY TraceInitially, <1>1, PTL DEF Spec

\* However many connections are open when the proxy is shut down, and however
\* small the channel, each one that recordWg counted and that was proxied is in
\* the attestation once.
THEOREM RecordedOnce == Spec => []CountedAreRecordedOnce
<1>1. ASSUME NInv PROVE CountedAreRecordedOnce
  <2> SUFFICES ASSUME attestor = "returned", NEW c \in Conn \ late
               PROVE  /\ conn[c] \notin {"copying", "recording", "panicked"}
                      /\ Cardinality({i \in DOMAIN recorded : recorded[i] = c})
                           = IF conn[c] = "sent" THEN 1 ELSE 0
    BY DEF CountedAreRecordedOnce
  <2> DEFINE At == {i \in DOMAIN recorded : recorded[i] = c}
  <2>1. closed /\ proxy = "done" /\ channel = <<>>
    BY <1>1 DEF NInv, Closing
  <2>2. conn[c] \notin {"copying", "recording", "panicked"}
    BY <1>1, <2>1 DEF NInv, Settled
  <2>3. Delivered = recorded /\ DOMAIN recorded = 1..Len(recorded)
    BY <1>1, <2>1 DEF NInv, NTypes, Delivered
  <2>4. CASE conn[c] = "sent"
    <3>1. PICK i \in 1..Len(recorded) : recorded[i] = c
      BY <1>1, <2>3, <2>4 DEF NInv, EachIsDeliveredOnce
    <3>2. At = {i}
      BY <1>1, <2>3, <3>1 DEF NInv, EachIsDeliveredOnce
    <3> QED
      BY <2>2, <2>4, <3>2, FS_Singleton
  <2>5. CASE conn[c] # "sent"
    <3>1. At = {}
      BY <1>1, <2>3, <2>5 DEF NInv, EachIsDeliveredOnce
    <3> QED
      BY <2>2, <2>5, <3>1, FS_EmptySet
  <2> QED
    BY <2>4, <2>5
<1> QED
  BY <1>1, TraceInvariant, PTL

\* No connection that the shutdown ended is recorded with an error.
THEOREM NoErrorByShutdown == Spec => []ShutdownIsNotAnError
<1>1. NInv => ShutdownIsNotAnError
  BY DEF NInv
<1> QED
  BY <1>1, TraceInvariant, PTL
=============================================================================
