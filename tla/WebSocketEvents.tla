--------------------------- MODULE WebSocketEvents ---------------------------
(***************************************************************************)
(* The server's event stream of a WebSocket (handlers/websocket.ts and     *)
(* pollingSse of handlers/sse.ts) on top of the executor's registry: it    *)
(* polls the executor, turns what it gets into server-sent events for the  *)
(* browser, waits 100 ms and polls again, until a poll says that the       *)
(* connection is not connected any more, or fails.  A stream is "closed"   *)
(* when the browser was told of a close as the executor's answer, "failed" *)
(* when it was told of a close because a call to the executor failed, and  *)
(* "lost" when the browser was cut off without a word: then its EventSource*)
(* asks again by itself.                                                   *)
(***************************************************************************)
EXTENDS WebSocketRegistry

CONSTANT SseMax  \* SSE_MAX_MESSAGES (50): what one poll of the relay asks for

ASSUME SseAssumption == SseMax \in Nat \ {0}

VARIABLE relay  \* the event stream of each connection

all == <<vars, relay>>

EventsInit == Init /\ relay = [c \in Conns |-> "none"]

\* The browser, told the id of a registered connection, opens its stream, and
\* again when it was cut off, whatever has become of the connection by then.
RelayOpen(c) ==
  /\ \/ relay[c] = "none" /\ c \in registry
     \/ relay[c] = "lost"
  /\ relay' = [relay EXCEPT ![c] = "due"]
  /\ UNCHANGED vars

\* The poll finds the connection, or is answered "not found": a close event.
RelayAsk(c) ==
  /\ relay[c] = "due"
  /\ wsMu = "free"
  /\ relay' = [relay EXCEPT ![c] = IF c \in registry THEN "found" ELSE "closed"]
  /\ UNCHANGED vars

\* Mutant: an answer without messages is taken for a close.
RelayDrain_Hasty(c) ==
  /\ relay[c] = "found"
  /\ Drain(c, SseMax)
  /\ relay' = [relay EXCEPT ![c] =
                 IF closed[c] \/ messages[c] = <<>> THEN "closed" ELSE "due"]
  /\ UNCHANGED <<registry, closed, socket, reader, pinger, sweepVars, rpc, panicked>>

\* WebSocketPoll drains the buffer and says whether the connection is open;
\* the events go out, the close event last, and then nothing is polled.
RelayDrain(c) ==
  /\ relay[c] = "found"
  /\ Drain(c, SseMax)
  /\ relay' = [relay EXCEPT ![c] = IF closed[c] THEN "closed" ELSE "due"]
  /\ UNCHANGED <<registry, closed, socket, reader, pinger, sweepVars, rpc, panicked>>

\* The call to the executor fails before it reaches the registry: the browser is
\* sent a close event with the error, and nothing is polled any more, although
\* the connection may well be open.
RelayFails(c) ==
  /\ relay[c] \in {"due", "found"}
  /\ relay' = [relay EXCEPT ![c] = "failed"]
  /\ UNCHANGED vars

\* The same after the executor drained the buffer: those messages are gone.
RelayAnswerLost(c) ==
  /\ relay[c] = "found"
  /\ Drain(c, SseMax)
  /\ relay' = [relay EXCEPT ![c] = "failed"]
  /\ UNCHANGED <<registry, closed, socket, reader, pinger, sweepVars, rpc, panicked>>

\* The browser is cut off or goes away: its stream is interrupted.
RelayLost(c) ==
  /\ relay[c] \in {"due", "found"}
  /\ relay' = [relay EXCEPT ![c] = "lost"]
  /\ UNCHANGED vars

Relay(c) == RelayOpen(c) \/ RelayAsk(c) \/ RelayDrain(c) \/ RelayFails(c)
            \/ RelayAnswerLost(c) \/ RelayLost(c)

EventsNext ==
  \/ Next /\ UNCHANGED relay
  \/ ~panicked /\ \E c \in Conns : Relay(c)

EventsSpec == EventsInit /\ [][EventsNext]_all

\* The registry's fairness; and the relay polls on while its browser listens.
EventsFairSpec ==
  /\ EventsSpec
  /\ Fairness
  /\ \A c \in Conns :
       /\ WF_all(~panicked /\ RelayDrain(c))
       /\ SF_all(~panicked /\ RelayAsk(c))

-----------------------------------------------------------------------------
(* Properties.                                                             *)

\* The browser learns of the end: once a connection is marked closed, by its
\* reader, a failed send, a ping or a close, its event stream ends too,
\* whether or not the connection is still registered.
RelayEnds ==
  \A c \in Conns :
    (closed[c] /\ relay[c] \in {"due", "found"})
      ~> (relay[c] \in {"closed", "failed", "lost"} \/ panicked)

\* A browser that the executor's answer tells of a close is told no lie: the
\* connection was marked closed, or the registry does not hold it any more,
\* however polls, closes, sweeps and streams that were opened again are
\* interleaved.  The close event of a stream that "failed" is another one: it
\* says that a call failed, and its connection may be open and registered.
CloseIsTrue ==
  \A c \in Conns : relay[c] = "closed" => (closed[c] \/ c \notin registry)

\* What is closed comes to rest: the relay of a connection that ended ends, the
\* socket of a closed connection is shut, its goroutines end, and a call that
\* was made on it returns.
ClosingSettles == RelayEnds /\ ClosedIsShut /\ GoroutinesEnd /\ CallsOnClosedReturn

\* For the checked instance: one text frame of one byte.
OneFrame == {[kind |-> "text", len |-> 1]}
=============================================================================
