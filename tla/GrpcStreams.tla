----------------------------- MODULE GrpcStreams -----------------------------
(***************************************************************************)
(* The executor's managed gRPC streams (grpc_stream.go): client-streaming  *)
(* and bidirectional calls that live across many HTTP requests.  A stream  *)
(* is registered in three maps (stream, sender, closer) that are always    *)
(* changed together while grpcStreamMu is held; they are one set here.     *)
(*                                                                         *)
(* One action is one section that a handler, the reader goroutine of a     *)
(* bidi stream or the cleanup ticker runs without giving up a lock, or one *)
(* call that may block.  Answers that only report an error (an unknown     *)
(* stream id, a body that is not JSON) are not actions.                    *)
(***************************************************************************)
EXTENDS Integers, Sequences

CONSTANTS
  Streams,    \* stream ids; every open draws a fresh one
  Rpcs,       \* concurrent RPC handlers of the executor
  NoStream,   \* what an idle handler works on
  PollSizes,  \* the max_messages values that pollers ask for
  MaxPoll,    \* what a poll that asks for none or fewer gets    (50)
  MaxReceived \* bound: messages a peer sends on one stream

ASSUME StreamsAssumption ==
  /\ NoStream \notin Streams
  /\ PollSizes \subseteq Int
  /\ MaxPoll \in Nat \ {0}
  /\ MaxReceived \in Nat

VARIABLES
  registry,  \* the keys of grpcStreams, grpcStreamSenders, grpcStreamClosers
  kind,      \* client-streaming or bidi: methodDesc.IsStreamingServer()
  conn,      \* the stream's grpc.ClientConn and context: open, or cancelled
  messages,  \* grpcManagedStream.messages
  done,      \* grpcManagedStream.done
  expired,   \* is lastUsed more than 10 minutes ago?
  reader,    \* the goroutine that receives on a bidi stream
  mu,        \* does the ticker hold grpcStreamMu?
  todo,      \* streams that the ticker has still to look at
  doomed,    \* the stream it found stale and is about to cancel
  rpc,       \* the handlers: where they are, and on which stream
  received,  \* auxiliary: messages ever appended, the last one included
  handed     \* auxiliary: messages that polls returned

bufferVars == <<messages, done, received, handed>>
sweepVars  == <<mu, todo, doomed>>
vars == <<registry, kind, conn, bufferVars, expired, reader, sweepVars, rpc>>

Message == [seq : Nat, done : BOOLEAN]
Kinds   == {"client", "bidi"}

Idle       == [pc |-> "idle", stream |-> NoStream]
At(pc, s)  == [pc |-> pc, stream |-> s]
Opening    == {"dialed", "opened"}
Closing    == {"removed", "awaiting", "answered"}
HandlerPcs == {"idle", "found", "sending", "polling"} \union Opening \union Closing

Init ==
  /\ registry = {}
  /\ kind     = [s \in Streams |-> "client"]
  /\ conn     = [s \in Streams |-> "none"]
  /\ messages = [s \in Streams |-> <<>>]
  /\ done     = [s \in Streams |-> FALSE]
  /\ expired  = [s \in Streams |-> FALSE]
  /\ reader   = [s \in Streams |-> "none"]
  /\ mu = "free" /\ todo = {} /\ doomed = {}
  /\ rpc      = [t \in Rpcs |-> Idle]
  /\ received = [s \in Streams |-> 0]
  /\ handed   = [s \in Streams |-> 0]

Goto(t, pc) == rpc' = [rpc EXCEPT ![t].pc = pc]
Return(t)   == rpc' = [rpc EXCEPT ![t] = Idle]
Touch(s)    == expired' = [expired EXCEPT ![s] = FALSE]

\* cancel() and conn.Close(), which always come together.
Cancel(s) == conn' = [conn EXCEPT ![s] = "closed"]

-----------------------------------------------------------------------------
(* GrpcStreamOpen: connect, resolve the method, open the stream, register.  *)

OpenDial(t, s, k) ==
  /\ rpc[t] = Idle
  /\ conn[s] = "none"
  /\ conn' = [conn EXCEPT ![s] = "open"]
  /\ kind' = [kind EXCEPT ![s] = k]
  /\ rpc' = [rpc EXCEPT ![t] = At("dialed", s)]
  /\ UNCHANGED <<registry, bufferVars, expired, reader, sweepVars>>

\* Mutant: an error path that forgets the connection.
OpenFail_NoClose(t) ==
  /\ rpc[t].pc = "dialed"
  /\ Return(t)
  /\ UNCHANGED <<registry, kind, conn, bufferVars, expired, reader, sweepVars>>

\* No descriptor, no such method, not client-streaming, or no stream.
OpenFail(t) ==
  /\ rpc[t].pc = "dialed"
  /\ Cancel(rpc[t].stream)
  /\ Return(t)
  /\ UNCHANGED <<registry, kind, bufferVars, expired, reader, sweepVars>>

\* The reader of a bidi stream starts before the stream is registered.
OpenStream(t) ==
  LET s == rpc[t].stream
  IN  /\ rpc[t].pc = "dialed"
      /\ reader' = [reader EXCEPT ![s] = IF kind[s] = "bidi" THEN "reading" ELSE "none"]
      /\ Goto(t, "opened")
      /\ UNCHANGED <<registry, kind, conn, bufferVars, expired, sweepVars>>

\* Mutant: the stream is registered before its id was drawn.
OpenRegister_NoId(t) ==
  /\ rpc[t].pc = "opened"
  /\ mu = "free"
  /\ registry' = registry \union {NoStream}
  /\ Return(t)
  /\ UNCHANGED <<kind, conn, bufferVars, expired, reader, sweepVars>>

OpenRegister(t) ==
  /\ rpc[t].pc = "opened"
  /\ mu = "free"
  /\ registry' = registry \union {rpc[t].stream}
  /\ Return(t)
  /\ UNCHANGED <<kind, conn, bufferVars, expired, reader, sweepVars>>

-----------------------------------------------------------------------------
(* The reader goroutine of a bidi stream.                                   *)

\* RecvMsg returns a message, which is appended once ms.mu is taken.
ReaderReceive(s) ==
  /\ reader[s] = "reading"
  /\ conn[s] = "open"
  /\ received[s] < MaxReceived
  /\ reader' = [reader EXCEPT ![s] = "holding"]
  /\ UNCHANGED <<registry, kind, conn, bufferVars, expired, sweepVars, rpc>>

Log(s, last) ==
  /\ messages' = [messages EXCEPT ![s] =
                    Append(@, [seq |-> received[s] + 1, done |-> last])]
  /\ received' = [received EXCEPT ![s] = @ + 1]

ReaderBuffer(s) ==
  /\ reader[s] = "holding"
  /\ Log(s, FALSE)
  /\ reader' = [reader EXCEPT ![s] = "reading"]
  /\ UNCHANGED <<registry, kind, conn, done, handed, expired, sweepVars, rpc>>

\* RecvMsg fails: the server finished, the connection broke or was cancelled,
\* or the 30 minutes of the stream's context are over.
ReaderEnd(s) ==
  /\ reader[s] = "reading"
  /\ Log(s, TRUE)
  /\ done' = [done EXCEPT ![s] = TRUE]
  /\ reader' = [reader EXCEPT ![s] = "done"]
  /\ UNCHANGED <<registry, kind, conn, handed, expired, sweepVars, rpc>>

-----------------------------------------------------------------------------
(* GrpcStreamSend, GrpcStreamPoll and GrpcStreamClose.                      *)

Lookup(t, s, pc) ==
  /\ rpc[t] = Idle
  /\ mu = "free"
  /\ s \in registry
  /\ rpc' = [rpc EXCEPT ![t] = At(pc, s)]
  /\ UNCHANGED <<kind, conn, bufferVars, expired, reader, sweepVars>>

SendLookup(t, s) == Lookup(t, s, "found") /\ UNCHANGED registry
PollLookup(t, s) == Lookup(t, s, "polling") /\ UNCHANGED registry

SendTouch(t) ==
  /\ rpc[t].pc = "found"
  /\ Touch(rpc[t].stream)
  /\ Goto(t, "sending")
  /\ UNCHANGED <<registry, kind, conn, bufferVars, reader, sweepVars>>

\* The message is not JSON, or SendMsg returns: it may have waited for flow
\* control, and it fails once the stream has ended.
SendMsg(t) ==
  /\ rpc[t].pc = "sending"
  /\ Return(t)
  /\ UNCHANGED <<registry, kind, conn, bufferVars, expired, reader, sweepVars>>

PollLimit(n) == IF n <= 0 THEN MaxPoll ELSE n
PollCount(s, n) ==
  IF PollLimit(n) > Len(messages[s]) THEN Len(messages[s]) ELSE PollLimit(n)

\* Mutant: what is drained is not what is removed.
PollDrain_All(t, n) ==
  LET s == rpc[t].stream
  IN  /\ rpc[t].pc = "polling"
      /\ handed' = [handed EXCEPT ![s] = @ + PollCount(s, n)]
      /\ messages' = [messages EXCEPT ![s] = <<>>]
      /\ Touch(s)
      /\ Return(t)
      /\ UNCHANGED <<registry, kind, conn, done, received, reader, sweepVars>>

PollDrain(t, n) ==
  LET s == rpc[t].stream
      k == PollCount(s, n)
  IN  /\ rpc[t].pc = "polling"
      /\ handed' = [handed EXCEPT ![s] = @ + k]
      /\ messages' = [messages EXCEPT ![s] = SubSeq(@, k + 1, Len(@))]
      /\ Touch(s)
      /\ Return(t)
      /\ UNCHANGED <<registry, kind, conn, done, received, reader, sweepVars>>

\* Mutant: the stream stays registered until it is closed.
CloseRemove_Late(t, s) == Lookup(t, s, "removed") /\ UNCHANGED registry

CloseRemove(t, s) ==
  /\ Lookup(t, s, "removed")
  /\ registry' = registry \ {s}

\* closer(): CloseSend, after which a client-streaming call awaits its answer.
CloseSend(t) ==
  /\ rpc[t].pc = "removed"
  /\ \/ Goto(t, "answered")  \* a bidi stream, or CloseSend failed
     \/ kind[rpc[t].stream] = "client" /\ Goto(t, "awaiting")
  /\ UNCHANGED <<registry, kind, conn, bufferVars, expired, reader, sweepVars>>

\* RecvMsg returns the server's only message, or fails as in ReaderEnd.
CloseReceive(t) ==
  /\ rpc[t].pc = "awaiting"
  /\ Goto(t, "answered")
  /\ UNCHANGED <<registry, kind, conn, bufferVars, expired, reader, sweepVars>>

CloseCancel(t) ==
  /\ rpc[t].pc = "answered"
  /\ Cancel(rpc[t].stream)
  /\ Return(t)
  /\ UNCHANGED <<registry, kind, bufferVars, expired, reader, sweepVars>>

-----------------------------------------------------------------------------
(* startGrpcStreamCleanupTicker: every two minutes.                         *)

TickerLock ==
  /\ mu = "free"
  /\ mu' = "ticker"
  /\ todo' = registry
  /\ UNCHANGED <<registry, kind, conn, bufferVars, expired, reader, doomed, rpc>>

\* Mutant: only streams that ended are collected.
SweepJudge_DoneOnly(s) ==
  /\ s \in todo /\ doomed = {}
  /\ todo' = todo \ {s}
  /\ doomed' = IF done[s] THEN {s} ELSE {}
  /\ UNCHANGED <<registry, kind, conn, bufferVars, expired, reader, mu, rpc>>

\* The verdict is taken under ms.mu, which is then released.
SweepJudge(s) ==
  /\ s \in todo /\ doomed = {}
  /\ todo' = todo \ {s}
  /\ doomed' = IF done[s] \/ expired[s] THEN {s} ELSE {}
  /\ UNCHANGED <<registry, kind, conn, bufferVars, expired, reader, mu, rpc>>

SweepClose(s) ==
  /\ s \in doomed
  /\ Cancel(s)
  /\ registry' = registry \ {s}
  /\ doomed' = {}
  /\ UNCHANGED <<kind, bufferVars, expired, reader, mu, todo, rpc>>

TickerUnlock ==
  /\ mu = "ticker" /\ todo = {} /\ doomed = {}
  /\ mu' = "free"
  /\ UNCHANGED <<registry, kind, conn, bufferVars, expired, reader, todo, doomed,
                 rpc>>

\* Ten minutes pass in which nobody sent on stream s or polled it.
TimePasses(s) ==
  /\ s \in registry
  /\ ~expired[s]
  /\ expired' = [expired EXCEPT ![s] = TRUE]
  /\ UNCHANGED <<registry, kind, conn, bufferVars, reader, sweepVars, rpc>>

-----------------------------------------------------------------------------
Handler(t) ==
  \/ \E s \in Streams : \/ \E k \in Kinds : OpenDial(t, s, k)
                        \/ SendLookup(t, s) \/ PollLookup(t, s) \/ CloseRemove(t, s)
  \/ OpenFail(t) \/ OpenStream(t) \/ OpenRegister(t)
  \/ SendTouch(t) \/ SendMsg(t)
  \/ \E n \in PollSizes : PollDrain(t, n)
  \/ CloseSend(t) \/ CloseReceive(t) \/ CloseCancel(t)

Reader(s) == ReaderReceive(s) \/ ReaderBuffer(s) \/ ReaderEnd(s)

Sweep ==
  \/ TickerLock \/ TickerUnlock
  \/ \E s \in Streams : SweepJudge(s) \/ SweepClose(s)

Next ==
  \/ \E t \in Rpcs : Handler(t)
  \/ \E s \in Streams : Reader(s) \/ TimePasses(s)
  \/ Sweep

Spec == Init /\ [][Next]_vars

(***************************************************************************)
(* Fairness.  The ticker runs and handlers are scheduled; a mutex that is  *)
(* free again and again is eventually taken.  Every stream has a context   *)
(* of 30 minutes, so a RecvMsg returns at last (ReaderEnd, CloseReceive),  *)
(* and so does a SendMsg that waits.  Nothing makes a client use a stream, *)
(* and a stream that nobody uses grows old.                                *)
(***************************************************************************)
Fairness ==
  /\ WF_vars(Sweep)
  /\ \A s \in Streams :
       /\ WF_vars(TimePasses(s))
       /\ WF_vars(ReaderBuffer(s))
       /\ WF_vars(ReaderEnd(s))
  /\ \A t \in Rpcs :
       /\ WF_vars(OpenFail(t) \/ OpenStream(t))
       /\ SF_vars(OpenRegister(t))
       /\ WF_vars(SendTouch(t) \/ SendMsg(t))
       /\ WF_vars(\E n \in PollSizes : PollDrain(t, n))
       /\ WF_vars(CloseSend(t) \/ CloseReceive(t) \/ CloseCancel(t))

FairSpec == Spec /\ Fairness

-----------------------------------------------------------------------------
(* Properties.                                                             *)

\* Every variable has its type, and a busy handler works on a stream.
TypeOK ==
  /\ registry \subseteq Streams
  /\ kind \in [Streams -> Kinds]
  /\ conn \in [Streams -> {"none", "open", "closed"}]
  /\ messages \in [Streams -> Seq(Message)]
  /\ done \in [Streams -> BOOLEAN]
  /\ expired \in [Streams -> BOOLEAN]
  /\ reader \in [Streams -> {"none", "reading", "holding", "done"}]
  /\ mu \in {"free", "ticker"}
  /\ todo \subseteq Streams /\ doomed \subseteq Streams
  /\ rpc \in [Rpcs -> [pc : HandlerPcs, stream : Streams \union {NoStream}]]
  /\ \A t \in Rpcs : rpc[t].pc = "idle" <=> rpc[t].stream = NoStream
  /\ received \in [Streams -> Nat]
  /\ handed \in [Streams -> Nat]

\* No connection leaks: one that is open is registered, or a handler that
\* opens or closes it holds it and will cancel or register it.
NoLeakedConn ==
  \A s \in Streams :
    conn[s] = "open" =>
      \/ s \in registry
      \/ \E t \in Rpcs : rpc[t].stream = s /\ rpc[t].pc \in Opening \union Closing

\* A stream has one owner: a handler that closes it does so alone, after the
\* stream left the registry, so that neither a second close nor the ticker
\* cancels the call whose answer it awaits.
OneOwner ==
  \A t \in Rpcs :
    rpc[t].pc \in Opening \union Closing =>
      /\ conn[rpc[t].stream] = "open"
      /\ rpc[t].stream \notin registry
      /\ \A u \in Rpcs :
           (rpc[u].stream = rpc[t].stream /\ rpc[u].pc \in Opening \union Closing)
             => u = t

\* The buffer loses nothing: what polls returned and what still waits are, in
\* order, all messages the reader received; the end of the stream is the last
\* of them, and it is there once the stream is flagged done.
NothingLost ==
  \A s \in Streams :
    /\ received[s] = handed[s] + Len(messages[s])
    /\ \A i \in 1..Len(messages[s]) :
         /\ messages[s][i].seq = handed[s] + i
         /\ messages[s][i].done <=> (done[s] /\ i = Len(messages[s]))
    /\ done[s] <=> reader[s] = "done"

\* A stream that is used only finitely often is released: its connection is
\* closed, by a close, by its end, or by the ticker when it grew old.
Used(s) == \E t \in Rpcs : /\ rpc[t].stream = s
                           /\ \/ SendTouch(t)
                              \/ \E n \in PollSizes : PollDrain(t, n)
ConnReleased ==
  \A s \in Streams :
    []<><<Used(s)>>_vars \/ (conn[s] = "open" ~> conn[s] = "closed")

\* A bidi stream is released even if it is polled for ever: its context ends
\* after 30 minutes, its reader flags it done, and the ticker collects it.
BidiReleased ==
  \A s \in Streams :
    (conn[s] = "open" /\ kind[s] = "bidi") ~> (conn[s] = "closed")

\* No goroutine leaks: the reader of a cancelled stream returns.
ReaderEnds ==
  \A s \in Streams : (conn[s] = "closed") ~> (reader[s] \in {"none", "done"})

=============================================================================
