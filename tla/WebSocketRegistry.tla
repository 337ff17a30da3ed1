------------------------- MODULE WebSocketRegistry --------------------------
(***************************************************************************)
(* The executor's WebSocket service: a registry of connections guarded by  *)
(* wsMu, and for each connection a reader goroutine, a ping goroutine and  *)
(* the RPC handlers (connect, send, poll, close) that reach it, each with  *)
(* the connection's own mutex held only for short sections.                *)
(*                                                                         *)
(* One action is one section the code runs without giving up a lock, or    *)
(* one call on the socket.  Steps of a handler that only read or return an *)
(* error to the caller without touching any state (an unknown connection   *)
(* id, a dial that failed) are not actions.                                *)
(***************************************************************************)
EXTENDS Integers, Sequences, FiniteSetsExt

(***************************************************************************)
(* The per-connection message buffer of the executor's WebSocket relay     *)
(* (executor/internal/executor/websocket.go): a slice of messages that     *)
(* only ever grows at the end and shrinks at the front.                    *)
(*                                                                         *)
(* A message keeps its direction and the length of its body.  `seq' is an  *)
(* auxiliary field, the position of the message among everything ever      *)
(* appended for its connection; the code does not have it.                 *)
(***************************************************************************)
CONSTANTS
  MaxMessages,    \* messages kept per connection             (500)
  MaxBufferBytes, \* maxBufferBytes                           (16 MB)
  MaxPoll,        \* largest and default answer of one poll   (100)
  SystemLen       \* body length of a handshake, warning or close message

ASSUME BufferAssumption ==
  /\ MaxMessages \in Nat \ {0}
  /\ MaxBufferBytes \in Nat
  /\ MaxPoll \in Nat \ {0}
  /\ SystemLen \in Nat

Directions == {"in", "out", "system"}
Message    == [seq : Nat, dir : Directions, size : Nat]
Msg(s, d, n) == [seq |-> s, dir |-> d, size |-> n]

\* A frame as it travels on the wire: text is kept as is, binary data becomes
\* a base64 body of four characters for every three bytes begun.
FrameKinds == {"text", "binary"}
Frame      == [kind : FrameKinds, len : Nat]
BodyLen(f) == IF f.kind = "binary" THEN 4 * ((f.len + 2) \div 3) ELSE f.len

-----------------------------------------------------------------------------
Oldest(s, n)  == SubSeq(s, 1, n)
Without(s, n) == SubSeq(s, n + 1, Len(s))

\* s is the run of the newest messages, last being the newest of all.
NewestRun(s, last) == \A i \in 1..Len(s) : s[i].seq = last - Len(s) + i

\* The length of all bodies in s.
Bytes(s) == MapThenSumSet(LAMBDA i : s[i].size, DOMAIN s)

\* Mutant: the length is tested before the append.
appendWebSocketMessage_LateTrim(s, m) ==
  Append(IF Len(s) > MaxMessages THEN Without(s, Len(s) - MaxMessages) ELSE s, m)

\* Append, keeping the last MaxMessages messages.  The bytes of a message that
\* falls off the front are not given back to the connection's byte count.
appendWebSocketMessage(s, m) ==
  LET longer == Append(s, m)
  IN  IF Len(longer) > MaxMessages
      THEN Without(longer, Len(longer) - MaxMessages)
      ELSE longer

\* How many messages an overflow discards: the oldest half.
Half(s) == Len(s) \div 2

\* The number of messages a poll that asked for n of them may return.
PollLimit(n) == IF n <= 0 \/ n > MaxPoll THEN MaxPoll ELSE n
PollCount(s, n) == IF Len(s) < PollLimit(n) THEN Len(s) ELSE PollLimit(n)

-----------------------------------------------------------------------------
CONSTANTS
  Conns,      \* connection ids; every successful dial draws a fresh one
  Rpcs,       \* concurrent RPC handlers of the executor
  NoConn,     \* what an idle handler works on
  Frames,     \* the frames that peers and clients send
  PollSizes,  \* the max_messages values that pollers ask for
  MaxAppends  \* bound: no new input once a connection logged this many

ASSUME RegistryAssumption ==
  /\ NoConn \notin Conns
  /\ Frames \subseteq Frame
  /\ PollSizes \subseteq Int
  /\ MaxAppends \in Nat

VARIABLES
  registry,   \* the keys of wsConnections
  messages,   \* wsConnection.messages
  totalBytes, \* wsConnection.totalBytes
  closed,     \* wsConnection.closed
  expired,    \* is wsConnection.lastUsed more than 30 minutes ago?
  socket,     \* the gorilla connection: not dialed, open, or shut by us
  reader,     \* the goroutine readWebSocket
  pinger,     \* the goroutine pingWebSocket
  wsMu,       \* who sweeps the registry under wsMu, if anyone
  todo,       \* connections that sweep has still to look at
  doomed,     \* the connection it found expired and is about to close
  rpc,        \* the handlers: where they are, and on which connection
  panicked,   \* the process died in a concurrent write
  appended,   \* auxiliary: how many messages were ever appended
  handed      \* auxiliary: seq of the last message a poll returned

bufferVars == <<messages, totalBytes, appended, handed>>
sweepVars  == <<wsMu, todo, doomed>>
vars == <<registry, bufferVars, closed, expired, socket, reader, pinger,
          sweepVars, rpc, panicked>>

Idle       == [pc |-> "idle", conn |-> NoConn]
At(pc, c)  == [pc |-> pc, conn |-> c]
HandlerPcs == {"idle", "dialed", "sweeping", "found", "writing", "sent",
               "sendFailed", "polling", "removed", "marked"}

Init ==
  /\ registry   = {}
  /\ messages   = [c \in Conns |-> <<>>]
  /\ totalBytes = [c \in Conns |-> 0]
  /\ closed     = [c \in Conns |-> FALSE]
  /\ expired    = [c \in Conns |-> FALSE]
  /\ socket     = [c \in Conns |-> "none"]
  /\ reader     = [c \in Conns |-> "none"]
  /\ pinger     = [c \in Conns |-> "none"]
  /\ wsMu = "free" /\ todo = {} /\ doomed = {}
  /\ rpc        = [t \in Rpcs |-> Idle]
  /\ panicked   = FALSE
  /\ appended   = [c \in Conns |-> 0]
  /\ handed     = [c \in Conns |-> 0]

\* One message is appended to connection c's buffer.
Log(c, dir, size) ==
  /\ messages' = [messages EXCEPT ![c] =
                    appendWebSocketMessage(@, Msg(appended[c] + 1, dir, size))]
  /\ appended' = [appended EXCEPT ![c] = @ + 1]

Touch(c) == expired' = [expired EXCEPT ![c] = FALSE]

-----------------------------------------------------------------------------
(* WebSocketConnect: dial, then register under wsMu after sweeping.        *)

Dial(t, c) ==
  /\ rpc[t] = Idle
  /\ socket[c] = "none"
  /\ socket' = [socket EXCEPT ![c] = "open"]
  /\ Log(c, "system", SystemLen)
  /\ rpc' = [rpc EXCEPT ![t] = At("dialed", c)]
  /\ UNCHANGED <<registry, totalBytes, handed, closed, expired, reader, pinger,
                 sweepVars, panicked>>

ConnectLock(t) ==
  /\ rpc[t].pc = "dialed"
  /\ wsMu = "free"
  /\ wsMu' = "connect"
  /\ todo' = registry
  /\ rpc' = [rpc EXCEPT ![t].pc = "sweeping"]
  /\ UNCHANGED <<registry, bufferVars, closed, expired, socket, reader, pinger,
                 doomed, panicked>>

ConnectRegister(t) ==
  /\ rpc[t].pc = "sweeping"
  /\ todo = {} /\ doomed = {}
  /\ registry' = registry \union {rpc[t].conn}
  /\ wsMu' = "free"
  /\ reader' = [reader EXCEPT ![rpc[t].conn] = "reading"]
  /\ pinger' = [pinger EXCEPT ![rpc[t].conn] = "waiting"]
  /\ rpc' = [rpc EXCEPT ![t] = Idle]
  /\ UNCHANGED <<bufferVars, closed, expired, socket, todo, doomed, panicked>>

-----------------------------------------------------------------------------
(* cleanupWebSocketsLocked, run by the ticker and by every connect.        *)

TickerLock ==
  /\ wsMu = "free"
  /\ wsMu' = "ticker"
  /\ todo' = registry
  /\ UNCHANGED <<registry, bufferVars, closed, expired, socket, reader, pinger,
                 doomed, rpc, panicked>>

\* Mutant: only idle connections are collected.
SweepJudge_IdleOnly(c) ==
  /\ c \in todo
  /\ doomed = {}
  /\ todo' = todo \ {c}
  /\ doomed' = IF expired[c] THEN {c} ELSE {}
  /\ UNCHANGED <<registry, bufferVars, closed, expired, socket, reader, pinger,
                 wsMu, rpc, panicked>>

\* The verdict is taken under the connection's mutex, which is then released.
SweepJudge(c) ==
  /\ c \in todo
  /\ doomed = {}
  /\ todo' = todo \ {c}
  /\ doomed' = IF closed[c] \/ expired[c] THEN {c} ELSE {}
  /\ UNCHANGED <<registry, bufferVars, closed, expired, socket, reader, pinger,
                 wsMu, rpc, panicked>>

\* Mutant: the connection is forgotten but its socket is not closed.
SweepClose_NoClose(c) ==
  /\ c \in doomed
  /\ registry' = registry \ {c}
  /\ doomed' = {}
  /\ UNCHANGED <<bufferVars, closed, expired, socket, reader, pinger, wsMu, todo,
                 rpc, panicked>>

SweepClose(c) ==
  /\ c \in doomed
  /\ socket' = [socket EXCEPT ![c] = "shut"]
  /\ registry' = registry \ {c}
  /\ doomed' = {}
  /\ UNCHANGED <<bufferVars, closed, expired, reader, pinger, wsMu, todo, rpc,
                 panicked>>

TickerUnlock ==
  /\ wsMu = "ticker"
  /\ todo = {} /\ doomed = {}
  /\ wsMu' = "free"
  /\ UNCHANGED <<registry, bufferVars, closed, expired, socket, reader, pinger,
                 todo, doomed, rpc, panicked>>

\* Thirty minutes pass in which nobody used connection c.
TimePasses(c) ==
  /\ c \in registry
  /\ ~expired[c]
  /\ expired' = [expired EXCEPT ![c] = TRUE]
  /\ UNCHANGED <<registry, bufferVars, closed, socket, reader, pinger,
                 sweepVars, rpc, panicked>>

-----------------------------------------------------------------------------
(* websocketByID: a handler gets hold of a registered connection.          *)

\* Mutant: the registry is read without wsMu.
Lookup_Unlocked(t, c, pc) ==
  /\ rpc[t] = Idle
  /\ c \in registry
  /\ rpc' = [rpc EXCEPT ![t] = At(pc, c)]
  /\ UNCHANGED <<bufferVars, closed, expired, socket, reader, pinger,
                 sweepVars, panicked>>

Lookup(t, c, pc) ==
  /\ rpc[t] = Idle
  /\ wsMu = "free"
  /\ c \in registry
  /\ rpc' = [rpc EXCEPT ![t] = At(pc, c)]
  /\ UNCHANGED <<bufferVars, closed, expired, socket, reader, pinger,
                 sweepVars, panicked>>

SendLookup(t, c) == Lookup(t, c, "found") /\ UNCHANGED registry
PollLookup(t, c) == Lookup(t, c, "polling") /\ UNCHANGED registry

(* WebSocketSend.  The closed flag is read under the mutex, the frame is    *)
(* written without it, and the outcome is recorded under it again.          *)
SendCheck(t) ==
  LET c == rpc[t].conn
  IN  /\ rpc[t].pc = "found"
      /\ \/ rpc' = [rpc EXCEPT ![t] = Idle]  \* closed, or a body that is not base64
         \/ /\ ~closed[c]
            /\ appended[c] < MaxAppends
            /\ rpc' = [rpc EXCEPT ![t].pc = "writing"]
      /\ UNCHANGED <<registry, bufferVars, closed, expired, socket, reader,
                     pinger, sweepVars, panicked>>

\* A write on a socket we shut always fails; any other write may.
SendWrite(t) ==
  /\ rpc[t].pc = "writing"
  /\ \/ /\ socket[rpc[t].conn] = "open"
        /\ rpc' = [rpc EXCEPT ![t].pc = "sent"]
     \/ rpc' = [rpc EXCEPT ![t].pc = "sendFailed"]
  /\ UNCHANGED <<registry, bufferVars, closed, expired, socket, reader, pinger,
                 sweepVars, panicked>>

\* gorilla panics when it catches two WriteMessage calls on one connection.
ConcurrentWrite(t, u) ==
  /\ t # u
  /\ rpc[t].pc = "writing" /\ rpc[u].pc = "writing"
  /\ rpc[t].conn = rpc[u].conn
  /\ panicked' = TRUE
  /\ UNCHANGED <<registry, bufferVars, closed, expired, socket, reader, pinger,
                 sweepVars, rpc>>

SendRecord(t, f) ==
  LET c == rpc[t].conn
  IN  /\ rpc[t].pc \in {"sent", "sendFailed"}
      /\ Touch(c)
      /\ Log(c, "out", BodyLen(f))
      /\ closed' = [closed EXCEPT ![c] = @ \/ rpc[t].pc = "sendFailed"]
      /\ rpc' = [rpc EXCEPT ![t] = Idle]
      /\ UNCHANGED <<registry, totalBytes, handed, socket, reader, pinger,
                     sweepVars, panicked>>

\* Mutants: a poll that leaves what it returned in the buffer, and one that
\* removes one message more than it returned.
Drain_Removing(c, n, k) ==
  /\ Touch(c)
  /\ handed' = [handed EXCEPT ![c] =
                  IF messages[c] = <<>> THEN @
                  ELSE messages[c][PollCount(messages[c], n)].seq]
  /\ messages' = [messages EXCEPT ![c] = Without(@, k)]
  /\ UNCHANGED <<appended, totalBytes>>
Drain_Keeps(c, n)    == Drain_Removing(c, n, 0)
Drain_SkipsOne(c, n) == Drain_Removing(c, n, PollCount(messages[c], n) + 1)

(* WebSocketPoll.                                                           *)
\* The oldest messages are handed out, at most n, and their bytes deducted.
Drain(c, n) ==
  LET k == PollCount(messages[c], n)
  IN  /\ Touch(c)
      /\ handed' = [handed EXCEPT ![c] = IF k = 0 THEN @ ELSE messages[c][k].seq]
      /\ totalBytes' = [totalBytes EXCEPT ![c] = @ - Bytes(Oldest(messages[c], k))]
      /\ messages' = [messages EXCEPT ![c] = Without(@, k)]
      /\ UNCHANGED appended

PollDrain(t, n) ==
  /\ rpc[t].pc = "polling"
  /\ Drain(rpc[t].conn, n)
  /\ rpc' = [rpc EXCEPT ![t] = Idle]
  /\ UNCHANGED <<registry, closed, socket, reader, pinger, sweepVars, panicked>>

(* WebSocketClose: unregister, mark, close the socket.                      *)
CloseRemove(t, c) ==
  /\ Lookup(t, c, "removed")
  /\ registry' = registry \ {c}

CloseMark(t) ==
  /\ rpc[t].pc = "removed"
  /\ closed' = [closed EXCEPT ![rpc[t].conn] = TRUE]
  /\ rpc' = [rpc EXCEPT ![t].pc = "marked"]
  /\ UNCHANGED <<registry, bufferVars, expired, socket, reader, pinger,
                 sweepVars, panicked>>

CloseSocket(t) ==
  /\ rpc[t].pc = "marked"
  /\ socket' = [socket EXCEPT ![rpc[t].conn] = "shut"]
  /\ rpc' = [rpc EXCEPT ![t] = Idle]
  /\ UNCHANGED <<registry, bufferVars, closed, expired, reader, pinger,
                 sweepVars, panicked>>

-----------------------------------------------------------------------------
(* readWebSocket.  A frame that ReadMessage returned is buffered under the  *)
(* mutex, so other goroutines may run in between.                           *)

ReaderReceive(c) ==
  /\ reader[c] = "reading"
  /\ socket[c] = "open"
  /\ appended[c] < MaxAppends
  /\ reader' = [reader EXCEPT ![c] = "holding"]
  /\ UNCHANGED <<registry, bufferVars, closed, expired, socket, pinger,
                 sweepVars, rpc, panicked>>

\* The buffer and the byte count after a frame of the peer was taken in.
ReaderBuffer(c, f) ==
  LET overflow == totalBytes[c] + f.len > MaxBufferBytes
      cut  == IF overflow THEN Half(messages[c]) ELSE 0
      kept == Without(messages[c], cut)
      base == IF overflow
              THEN appendWebSocketMessage(kept, Msg(appended[c] + 1, "system", SystemLen))
              ELSE kept
      last == appended[c] + (IF overflow THEN 2 ELSE 1)
  IN  /\ reader[c] = "holding"
      /\ Touch(c)
      /\ messages' = [messages EXCEPT ![c] =
                        appendWebSocketMessage(base, Msg(last, "in", BodyLen(f)))]
      /\ totalBytes' = [totalBytes EXCEPT ![c] =
                          @ - Bytes(Oldest(messages[c], cut)) + f.len]
      /\ appended' = [appended EXCEPT ![c] = last]
      /\ reader' = [reader EXCEPT ![c] = "reading"]
      /\ UNCHANGED <<registry, handed, closed, socket, pinger, sweepVars, rpc,
                     panicked>>

\* Mutant: the failed reader does not mark the connection.
ReaderFail_Unmarked(c) ==
  /\ reader[c] = "reading"
  /\ Touch(c)
  /\ Log(c, "system", SystemLen)
  /\ reader' = [reader EXCEPT ![c] = "done"]
  /\ UNCHANGED <<registry, totalBytes, handed, closed, socket, pinger, sweepVars, rpc,
                 panicked>>

\* ReadMessage fails: the peer closed, the pong deadline passed, a frame was
\* too long, or the socket was shut on this side.
ReaderFail(c) ==
  /\ reader[c] = "reading"
  /\ Touch(c)
  /\ closed' = [closed EXCEPT ![c] = TRUE]
  /\ Log(c, "system", SystemLen)
  /\ reader' = [reader EXCEPT ![c] = "done"]
  /\ UNCHANGED <<registry, totalBytes, handed, socket, pinger, sweepVars, rpc,
                 panicked>>

(* pingWebSocket: every 30 seconds.                                         *)
PingTick(c) ==
  /\ pinger[c] = "waiting"
  /\ pinger' = [pinger EXCEPT ![c] = IF closed[c] THEN "done" ELSE "pinging"]
  /\ UNCHANGED <<registry, bufferVars, closed, expired, socket, reader,
                 sweepVars, rpc, panicked>>

PingWrite(c) ==
  /\ pinger[c] = "pinging"
  /\ \/ /\ socket[c] = "open"
        /\ pinger' = [pinger EXCEPT ![c] = "waiting"]
        /\ UNCHANGED closed
     \/ /\ pinger' = [pinger EXCEPT ![c] = "done"]
        /\ closed' = [closed EXCEPT ![c] = TRUE]
  /\ UNCHANGED <<registry, bufferVars, expired, socket, reader, sweepVars, rpc,
                 panicked>>

-----------------------------------------------------------------------------
Handler(t) ==
  \/ \E c \in Conns : Dial(t, c) \/ SendLookup(t, c) \/ PollLookup(t, c)
                      \/ CloseRemove(t, c)
  \/ ConnectLock(t) \/ ConnectRegister(t)
  \/ SendCheck(t) \/ SendWrite(t)
  \/ \E u \in Rpcs : ConcurrentWrite(t, u)
  \/ \E f \in Frames : SendRecord(t, f)
  \/ \E n \in PollSizes : PollDrain(t, n)
  \/ CloseMark(t) \/ CloseSocket(t)

Goroutine(c) ==
  \/ ReaderReceive(c) \/ ReaderFail(c)
  \/ \E f \in Frames : ReaderBuffer(c, f)
  \/ PingTick(c) \/ PingWrite(c)

Sweep ==
  \/ TickerLock \/ TickerUnlock
  \/ \E c \in Conns : SweepJudge(c) \/ SweepClose(c)

Next ==
  /\ ~panicked
  /\ \/ \E t \in Rpcs : Handler(t)
     \/ \E c \in Conns : Goroutine(c) \/ TimePasses(c)
     \/ Sweep

Spec == Init /\ [][Next]_vars

(***************************************************************************)
(* Fairness.  Goroutines and handlers are scheduled, tickers fire, and a   *)
(* mutex that is free again and again is eventually taken (Go's mutexes    *)
(* are starvation free).  Nothing makes a peer send, read or hang up: a    *)
(* read or a write on an open socket may block for ever, one on a socket   *)
(* that was shut returns an error.                                         *)
(***************************************************************************)
Fairness ==
  /\ WF_vars(~panicked /\ Sweep)
  /\ \A c \in Conns :
       /\ WF_vars(~panicked /\ ReaderFail(c) /\ socket[c] = "shut")
       /\ WF_vars(~panicked /\ \E f \in Frames : ReaderBuffer(c, f))
       /\ WF_vars(~panicked /\ (PingTick(c) \/ PingWrite(c)))
  /\ \A t \in Rpcs :
       /\ SF_vars(~panicked /\ ConnectLock(t))
       /\ WF_vars(~panicked /\ ConnectRegister(t))
       /\ WF_vars(~panicked /\ SendCheck(t))
       /\ WF_vars(~panicked /\ SendWrite(t) /\ socket[rpc[t].conn] = "shut")
       /\ WF_vars(~panicked /\ \E f \in Frames : SendRecord(t, f))
       /\ WF_vars(~panicked /\ \E n \in PollSizes : PollDrain(t, n))
       /\ WF_vars(~panicked /\ (CloseMark(t) \/ CloseSocket(t)))

FairSpec == Spec /\ Fairness

-----------------------------------------------------------------------------
(* Properties.                                                             *)

BufferTypeOK ==
  /\ messages \in [Conns -> Seq(Message)]
  /\ \A c \in Conns : Len(messages[c]) <= MaxMessages
  /\ DOMAIN totalBytes = Conns
  /\ appended \in [Conns -> Nat]
  /\ handed \in [Conns -> Nat]

ConnectionTypeOK ==
  /\ registry \subseteq Conns
  /\ closed \in [Conns -> BOOLEAN]
  /\ expired \in [Conns -> BOOLEAN]
  /\ socket \in [Conns -> {"none", "open", "shut"}]
  /\ reader \in [Conns -> {"none", "reading", "holding", "done"}]
  /\ pinger \in [Conns -> {"none", "waiting", "pinging", "done"}]

HandlerTypeOK ==
  /\ rpc \in [Rpcs -> [pc : HandlerPcs, conn : Conns \union {NoConn}]]
  /\ \A t \in Rpcs : rpc[t].pc = "idle" <=> rpc[t].conn = NoConn

SweepTypeOK ==
  /\ wsMu \in {"free", "ticker", "connect"}
  /\ todo \subseteq Conns
  /\ doomed \subseteq Conns
  /\ panicked \in BOOLEAN

\* Every variable has its type, no buffer outgrows the 500 messages that
\* appendWebSocketMessage keeps, and a busy handler works on a connection.
TypeOK == BufferTypeOK /\ ConnectionTypeOK /\ HandlerTypeOK /\ SweepTypeOK

\* No socket leaks: an open socket is in the registry, where a close or the
\* sweep finds it, or it is in the hands of the connect that dialed it or of
\* the close that is about to shut it.
NoOrphanSocket ==
  \A c \in Conns :
    socket[c] = "open" =>
      \/ c \in registry
      \/ \E t \in Rpcs : /\ rpc[t].conn = c
                         /\ rpc[t].pc \in {"dialed", "sweeping", "removed", "marked"}

\* The buffer of a connection is, at every moment, the run of its newest
\* messages, in order and without a gap, and none of them was handed to a
\* poller before: appending trims, overflows halve and polls drain, from
\* several goroutines, but always at the front.
BufferIsNewestRun ==
  \A c \in Conns :
    /\ NewestRun(messages[c], appended[c])
    /\ handed[c] <= appended[c] - Len(messages[c])

\* A connection whose reader or ping goroutine is gone is marked closed, so
\* that polls report it and sweeps collect it: a browser is never told that a
\* connection nobody reads any more is connected.
DeadConnectionIsMarked ==
  \A c \in Conns : (reader[c] = "done" \/ pinger[c] = "done") => closed[c]

\* The sweep works on connections of the registry only, because it owns wsMu:
\* no connection it is about to close was closed and removed by somebody else.
SweepOwnsRegistry ==
  /\ todo \union doomed \subseteq registry
  /\ wsMu = "free" => todo = {} /\ doomed = {}
  /\ \A t, u \in Rpcs :
       rpc[t].pc = "sweeping" /\ rpc[u].pc = "sweeping" => t = u

\* What appendWebSocketMessage, WebSocketPoll and readWebSocket do to a buffer,
\* in whatever order the goroutines do it, is what a lossy mailbox allows: a
\* poller sees the messages in order, none of them twice, and misses only
\* messages older than some message that is still to come.
Mailbox(c) == INSTANCE LossyMailbox WITH
  count <- appended[c],
  box   <- {messages[c][i].seq : i \in 1..Len(messages[c])},
  taken <- handed[c]
MailboxDelivery ==
  /\ \A c \in Conns : Mailbox(c)!Init
  /\ [][\A c \in Conns : [Mailbox(c)!Next]_(Mailbox(c)!mailbox)]_vars

\* A connection that was marked closed, by whichever goroutine noticed, is
\* eventually shut on this side too: the sweep gets to it.
ClosedIsShut ==
  \A c \in Conns :
    (closed[c] /\ socket[c] = "open") ~> (socket[c] = "shut" \/ panicked)

\* No goroutine leaks: once the socket is shut, by WebSocketClose or by the
\* sweep of an idle connection, the reader and the ping goroutine end.
GoroutinesEnd ==
  \A c \in Conns :
    socket[c] = "shut" ~> ((reader[c] = "done" /\ pinger[c] = "done") \/ panicked)

\* A handler that holds a connection when it is marked closed returns: even a
\* send that blocks in WriteMessage, which has no deadline, fails once the
\* sweep shuts the socket.
CallsOnClosedReturn ==
  \A t \in Rpcs : \A c \in Conns :
    (rpc[t].conn = c /\ closed[c]) ~> (rpc[t] = Idle \/ panicked)
=============================================================================
