------------------------------ MODULE GrpcSession ------------------------------
(***************************************************************************)
(* The calls of the gRPC page (features/grpc of the UI) and what the page  *)
(* shows of them: unary calls, server streams that are relayed as events,  *)
(* and managed streams, which are opened, read and closed by requests of   *)
(* their own.  Every call is an asynchronous function that writes to one   *)
(* store; the guards against a second call look at that store, and are     *)
(* passed before the pre-request script of the first one has ended.        *)
(*                                                                         *)
(* A fetch that is aborted rejects before anything else runs, so that the  *)
(* canceller and the catch of the call it cancels are one step.  What a    *)
(* response contains is abstracted to the call that it is of.              *)
(***************************************************************************)
EXTENDS Naturals, FiniteSets

CONSTANTS
  GrpcCallIds,  \* calls of the page
  NoGrpc,       \* no call
  MaxCloses     \* bound: Close Stream clicks per stream

ASSUME GrpcCallsAssumption == NoGrpc \notin GrpcCallIds /\ MaxCloses \in Nat

VARIABLES
  grpcPage,   \* the store: spinner, controllers, stream, countdown, what is shown
  grpcCalls,  \* the calls
  alone       \* auxiliary: no call was begun before the ones before it were over

grpcVars == <<grpcPage, grpcCalls, alone>>

Managed == {"client", "bidi"}
Unused == [pc |-> "idle", kind |-> "unary", timed |-> FALSE, timer |-> "off", reader |-> FALSE, closes |-> 0]

\* Is nothing of the call left that could still run?
AtRest(k) == k.pc \in {"idle", "done"} /\ k.timer = "off" /\ ~k.reader /\ k.closes = 0

GrpcInit ==
  /\ grpcPage = [streaming |-> FALSE, streamCtl |-> NoGrpc, execCtl |-> NoGrpc, streamId |-> NoGrpc,
                 deadline |-> NoGrpc, response |-> NoGrpc, messages |-> {}, received |-> {}]
  /\ grpcCalls = [c \in GrpcCallIds |-> Unused]
  /\ alone = TRUE

Call(c, k) == grpcCalls' = [grpcCalls EXCEPT ![c] = k]
Moved(c, pc) == [grpcCalls[c] EXCEPT !.pc = pc]
Over(c)    == [grpcCalls[c] EXCEPT !.pc = "done", !.timer = "off"]

Deadline(c) == IF grpcCalls[c].timed THEN c ELSE NoGrpc

\* What the ends of calls write to the store.
ExecuteOver == [grpcPage EXCEPT !.execCtl = NoGrpc, !.deadline = NoGrpc]
StreamOver  == [grpcPage EXCEPT !.streaming = FALSE, !.streamCtl = NoGrpc, !.deadline = NoGrpc]
StreamGone  == [StreamOver EXCEPT !.streamId = NoGrpc]

\* Call, Open Stream or Ctrl+Enter: offered when the store shows nothing running.
Execute(c, kind, timed) ==
  /\ grpcCalls[c].pc = "idle"
  /\ grpcPage.streamId = NoGrpc /\ ~grpcPage.streaming /\ grpcPage.execCtl = NoGrpc
  /\ Call(c, [Unused EXCEPT !.pc = "script", !.kind = kind, !.timed = timed])
  /\ alone' = (alone /\ \A d \in GrpcCallIds : AtRest(grpcCalls[d]))
  /\ UNCHANGED grpcPage

\* The pre-request script has ended, or was ended; its failure is only logged.
runGrpcUnary(c) ==
  /\ grpcCalls[c].pc = "script" /\ grpcCalls[c].kind = "unary"
  /\ Call(c, [Moved(c, "asked") EXCEPT !.timer = IF grpcCalls[c].timed THEN "armed" ELSE "off"])
  /\ grpcPage' = [grpcPage EXCEPT !.execCtl = c, !.response = NoGrpc, !.messages = {}, !.deadline = Deadline(c)]
  /\ UNCHANGED alone

runGrpcServerStream(c) ==
  /\ grpcCalls[c].pc = "script" /\ grpcCalls[c].kind = "server"
  /\ Call(c, [Moved(c, "asked") EXCEPT !.timer = IF grpcCalls[c].timed THEN "armed" ELSE "off"])
  /\ grpcPage' = [grpcPage EXCEPT !.streaming = TRUE, !.streamCtl = c, !.response = NoGrpc,
                                  !.messages = {}, !.deadline = Deadline(c)]
  /\ UNCHANGED alone

openGrpcClientStream(c) ==
  /\ grpcCalls[c].pc = "script" /\ grpcCalls[c].kind \in Managed
  /\ Call(c, Moved(c, "opening"))
  /\ grpcPage' = [grpcPage EXCEPT !.streaming = TRUE, !.received = {}, !.deadline = Deadline(c)]
  /\ UNCHANGED alone

-----------------------------------------------------------------------------
(* Unary calls.                                                             *)

\* The answer is here: the timer is cleared and the post-response script runs.
UnaryAnswered(c) ==
  /\ grpcCalls[c].pc = "asked" /\ grpcCalls[c].kind = "unary"
  /\ Call(c, [Moved(c, "post") EXCEPT !.timer = "off"])
  /\ UNCHANGED <<grpcPage, alone>>

\* The catch of a unary call: it failed, was not to be read, or its checks threw.
UnaryCaught(c) ==
  /\ grpcCalls[c].kind = "unary" /\ grpcCalls[c].pc \in {"asked", "post", "filing"}
  /\ Call(c, Over(c)) /\ grpcPage' = ExecuteOver
  /\ UNCHANGED alone

\* Assertions and extraction, then the response is shown.
UnaryShown(c) ==
  /\ grpcCalls[c].pc = "post"
  /\ Call(c, Moved(c, "filing"))
  /\ grpcPage' = [ExecuteOver EXCEPT !.response = c]
  /\ UNCHANGED alone

\* addHistory has ended.
UnaryFiled(c) ==
  /\ grpcCalls[c].pc = "filing" /\ Call(c, Moved(c, "done"))
  /\ UNCHANGED <<grpcPage, alone>>

-----------------------------------------------------------------------------
(* Server streams.                                                          *)

\* How the executor's answer ends: with a message that is marked as the last one,
\* whatever the call came to, or broken off, when it is not to be sent.
GrpcServerStream == {"last message", "broken"}

\* Does the relay send a last event?  The server puts one where the answer broke.
serverStream(end) == end \in {"last message", "broken"}

ServerStreamBegins(c) ==
  /\ grpcCalls[c].pc = "asked" /\ grpcCalls[c].kind = "server"
  /\ Call(c, Moved(c, "reading"))
  /\ UNCHANGED <<grpcPage, alone>>

\* onMessage of either kind of stream.
StreamMessage(c) ==
  /\ \/ /\ grpcCalls[c].pc = "reading"
        /\ grpcPage' = [grpcPage EXCEPT !.messages = @ \union {c}]
     \/ /\ grpcCalls[c].reader
        /\ grpcPage' = [grpcPage EXCEPT !.received = @ \union {c}]
  /\ UNCHANGED <<grpcCalls, alone>>

\* onDone, if there is a last event; the page is only told by it.
ServerStreamLast(c) ==
  /\ grpcCalls[c].pc = "reading" /\ Call(c, [Moved(c, "ended") EXCEPT !.timer = "off"])
  /\ \E end \in GrpcServerStream :
       grpcPage' = IF serverStream(end) THEN [StreamOver EXCEPT !.messages = @ \union {c}] ELSE grpcPage
  /\ UNCHANGED alone

\* The body ends after it, and the call with it; the store is not written.
ServerStreamEnds(c) ==
  /\ grpcCalls[c].pc = "ended" /\ Call(c, Moved(c, "done"))
  /\ UNCHANGED <<grpcPage, alone>>

\* The catch of a server stream: it was refused, or its connection broke.
ServerStreamCaught(c) ==
  /\ grpcCalls[c].kind = "server" /\ grpcCalls[c].pc \in {"asked", "reading", "ended"}
  /\ Call(c, Over(c)) /\ grpcPage' = StreamOver
  /\ UNCHANGED alone

-----------------------------------------------------------------------------
(* Managed streams.                                                         *)

StreamOpened(c) ==
  /\ grpcCalls[c].pc = "opening"
  /\ Call(c, [Moved(c, "open") EXCEPT !.timer = IF grpcCalls[c].timed THEN "armed" ELSE "off",
                                   !.reader = grpcCalls[c].kind = "bidi"])
  /\ grpcPage' = [grpcPage EXCEPT !.streamId = c, !.streamCtl = c]
  /\ UNCHANGED alone

StreamNotOpened(c) ==
  /\ grpcCalls[c].pc = "opening" /\ Call(c, Moved(c, "done"))
  /\ grpcPage' = [grpcPage EXCEPT !.streaming = FALSE, !.deadline = NoGrpc]
  /\ UNCHANGED alone

\* What a poll of the relay can find, and whether it ends the events with a last one.
StreamPolls == {"messages", "done", "disconnected", "not found"}
streamEvents(result) == result # "messages"

\* onDone of the events of a managed stream.
ManagedStreamLast(c) ==
  /\ grpcCalls[c].reader /\ \E result \in StreamPolls : streamEvents(result)
  /\ Call(c, [Moved(c, "done") EXCEPT !.reader = FALSE, !.timer = IF @ = "armed" THEN "off" ELSE @])
  /\ grpcPage' = [StreamGone EXCEPT !.received = @ \union {c}]
  /\ UNCHANGED alone

\* The events break off, or were not to be had: nobody is told.
EventsLost(c) ==
  /\ grpcCalls[c].reader /\ Call(c, [grpcCalls[c] EXCEPT !.reader = FALSE])
  /\ UNCHANGED <<grpcPage, alone>>

\* The deadline of a managed stream: it is closed, then forgotten, and with it
\* whatever stream the store shows by then.
ManagedDeadline(c) ==
  /\ grpcCalls[c].kind \in Managed /\ grpcCalls[c].timer = "armed"
  /\ Call(c, [grpcCalls[c] EXCEPT !.timer = "closing"])
  /\ UNCHANGED <<grpcPage, alone>>

ManagedDeadlineDone(c) ==
  /\ grpcCalls[c].timer = "closing"
  /\ Call(c, [Over(c) EXCEPT !.reader = FALSE]) /\ grpcPage' = StreamGone
  /\ UNCHANGED alone

-----------------------------------------------------------------------------
(* What the user stops.                                                     *)

\* Aborting the controller of a call: a fetch that is under way rejects, and the
\* call with it; a unary call whose answer is here goes on.
Aborted(k) ==
  CASE k.kind = "unary" /\ k.pc = "asked" -> [k EXCEPT !.pc = "done", !.timer = "off"]
    [] k.kind = "server" /\ k.pc \in {"asked", "reading", "ended"} -> [k EXCEPT !.pc = "done", !.timer = "off"]
    [] k.kind \in Managed -> [k EXCEPT !.reader = FALSE]
    [] OTHER -> k

Abort(ctl, calls) == [c \in GrpcCallIds |-> IF c = ctl THEN Aborted(calls[c]) ELSE calls[c]]

\* The deadline of the other calls aborts their own controller.
CallDeadline(c) ==
  /\ grpcCalls[c].kind \notin Managed /\ grpcCalls[c].timer = "armed"
  /\ grpcCalls' = Abort(c, grpcCalls)
  /\ grpcPage' = IF grpcCalls[c].kind = "unary" THEN ExecuteOver ELSE StreamOver
  /\ UNCHANGED alone

cancelGrpcStream ==
  /\ grpcPage.streaming /\ grpcPage.streamId = NoGrpc
  /\ grpcCalls' = Abort(grpcPage.streamCtl, grpcCalls)
  /\ grpcPage' = StreamOver
  /\ UNCHANGED alone

cancelGrpcExecute ==
  /\ grpcPage.execCtl # NoGrpc /\ grpcPage.streamId = NoGrpc /\ ~grpcPage.streaming
  /\ grpcCalls' = Abort(grpcPage.execCtl, grpcCalls)
  /\ grpcPage' = ExecuteOver
  /\ UNCHANGED alone

\* Close Stream asks the executor to close the stream that is shown.
closeGrpcStream(c) ==
  /\ grpcPage.streamId = c /\ grpcCalls[c].closes < MaxCloses
  /\ Call(c, [grpcCalls[c] EXCEPT !.closes = @ + 1])
  /\ UNCHANGED <<grpcPage, alone>>

\* Its answer ends whatever stream is shown by then.  An answer without a body
\* leaves no response.
closeGrpcStreamAnswered(c, body) ==
  /\ grpcCalls[c].closes > 0
  /\ LET closed == [grpcCalls[c] EXCEPT !.closes = @ - 1, !.pc = IF @ = "open" THEN "done" ELSE @]
     IN grpcCalls' = Abort(grpcPage.streamCtl, [grpcCalls EXCEPT ![c] = closed])
  /\ grpcPage' = [StreamGone EXCEPT !.response = IF body THEN c ELSE NoGrpc]
  /\ UNCHANGED alone

closeGrpcStreamFailed(c) ==
  /\ grpcCalls[c].closes > 0
  /\ Call(c, [grpcCalls[c] EXCEPT !.closes = @ - 1])
  /\ UNCHANGED <<grpcPage, alone>>

-----------------------------------------------------------------------------
Begin(c) == runGrpcUnary(c) \/ runGrpcServerStream(c) \/ openGrpcClientStream(c)

\* What becomes of a call that nobody stops.
Settle(c) ==
  \/ Begin(c) \/ UnaryAnswered(c) \/ UnaryCaught(c) \/ UnaryShown(c) \/ UnaryFiled(c)
  \/ ServerStreamBegins(c) \/ ServerStreamLast(c) \/ ServerStreamEnds(c) \/ ServerStreamCaught(c)
  \/ StreamOpened(c) \/ StreamNotOpened(c) \/ CallDeadline(c)
Expire(c) == ManagedDeadline(c) \/ ManagedDeadlineDone(c)

GrpcNext ==
  \/ \E c \in GrpcCallIds :
       \/ \E kind \in {"unary", "server"} \union Managed, timed \in BOOLEAN : Execute(c, kind, timed)
       \/ Settle(c) \/ Expire(c)
       \/ StreamMessage(c) \/ ManagedStreamLast(c) \/ EventsLost(c)
       \/ closeGrpcStream(c) \/ closeGrpcStreamFailed(c)
       \/ \E body \in BOOLEAN : closeGrpcStreamAnswered(c, body)
  \/ cancelGrpcStream \/ cancelGrpcExecute

\* Scripts are ended after five seconds, the executor answers a call within its
\* timeout (a minute, if the request has none), and timers fire.
GrpcFairness ==
  \A c \in GrpcCallIds : WF_grpcVars(Settle(c)) /\ WF_grpcVars(Expire(c))

-----------------------------------------------------------------------------
(* Properties.                                                             *)

GrpcTypeOK ==
  /\ grpcPage.streaming \in BOOLEAN
  /\ \A f \in {"streamCtl", "execCtl", "streamId", "deadline", "response"} :
       grpcPage[f] \in GrpcCallIds \union {NoGrpc}
  /\ grpcPage.messages \subseteq GrpcCallIds /\ grpcPage.received \subseteq GrpcCallIds
  /\ \A c \in GrpcCallIds :
       /\ grpcCalls[c].timer \in {"off", "armed", "closing"} /\ grpcCalls[c].closes \in 0..MaxCloses
       /\ grpcCalls[c].pc \in {"idle", "script", "asked", "post", "filing", "reading", "ended", "opening", "open", "done"}

\* What the page offers to stop is there to be stopped: a controller, a stream
\* and a countdown belong to a call that is not over, and the page says that it
\* streams only while some call does.  However calls overlap, the page never
\* stays busy after the last of them.
ControlsAreLive ==
  LET pc(c) == grpcCalls[c].pc
  IN \A c \in GrpcCallIds :
       /\ grpcPage.execCtl = c => pc(c) \in {"asked", "post"}
       /\ grpcPage.streamCtl = c => pc(c) \in {"asked", "reading", "open"}
       /\ grpcPage.streamId = c => pc(c) = "open"
       /\ grpcPage.deadline = c => pc(c) \in {"asked", "post", "reading", "opening", "open"}
       /\ (grpcPage.streaming /\ \A d \in GrpcCallIds : pc(d) \notin {"asked", "reading", "opening"}) =>
            grpcPage.streamId # NoGrpc

\* One call at a time can always be stopped: while the target works for it, the
\* page holds its controller or its stream.  And what is shown is of one call.
AloneCanBeStopped ==
  alone =>
    /\ \A c \in GrpcCallIds :
         LET k == grpcCalls[c]
         IN /\ k.kind = "unary" /\ k.pc = "asked" => grpcPage.execCtl = c
            /\ k.kind = "server" /\ k.pc \in {"asked", "reading"} => grpcPage.streamCtl = c /\ grpcPage.streaming
            /\ k.pc = "open" => grpcPage.streamId = c
    /\ Cardinality(grpcPage.messages) <= 1 /\ Cardinality(grpcPage.received) <= 1

\* A managed stream with a deadline does not stay on the page for ever, also
\* when the target has stopped and nobody reads its events.
DeadlineEnforced ==
  \A c \in GrpcCallIds :
    (grpcPage.streamId = c /\ grpcCalls[c].timed) ~> (grpcPage.streamId # c)
=============================================================================
