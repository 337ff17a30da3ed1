--------------------------- MODULE WebSocketSession ---------------------------
(***************************************************************************)
(* A WebSocket session of the UI (useWebSocketBar, useWebSocketEventStream,*)
(* WebSocketSessionTabs): attempts to connect, by the user and by timers   *)
(* of the automatic reconnect, the event source that reports what comes in *)
(* and when the peer is gone, disconnecting, closing the tab, and leaving  *)
(* the page.  The session is in the store and outlives the page; the maps  *)
(* of controllers and event sources belong to one instance of the bar, but *)
(* the attempts and timers of an instance that is gone go on.              *)
(*                                                                         *)
(* A connection has the number of the attempt that opened it.  The         *)
(* executor's end of it is external; MCWebSocketRegistry models that.      *)
(***************************************************************************)
EXTENDS Naturals, FiniteSets

CONSTANTS
  MaxAttempts,          \* bound: attempts to connect
  MaxMounts,            \* bound: instances of the bar
  MaxDisconnects,       \* bound: Disconnect clicks per connection
  reconnectMaxRetries   \* of the request

ASSUME SessionAssumption ==
  MaxAttempts \in Nat /\ MaxMounts \in Nat \ {0} /\ MaxDisconnects \in Nat

VARIABLES
  session,     \* the store: is there a tab, its state, its connectionId
  autoReconnect, \* of the request
  attempts,    \* calls of connect, and timers that will be ones
  refs,        \* controllersRef and eventSourcesRef of every instance
  mount,       \* the instance that is on the page
  sources,     \* event sources that are open, registered or not
  peers,       \* external: the connections in the executor
  leaving      \* calls of disconnect that wait, per connection

sessionVars == <<session, autoReconnect, attempts, refs, mount, sources, peers, leaving>>

Attempts == 1..MaxAttempts
None == 0
Mounts == 1..MaxMounts

SessionInit ==
  /\ session = [tab |-> TRUE, state |-> "disconnected", connectionId |-> None]
  /\ autoReconnect \in BOOLEAN
  /\ attempts = [a \in Attempts |-> [pc |-> "idle", retry |-> 0, mount |-> 0]]
  /\ refs = [m \in Mounts |-> [controller |-> None, source |-> None]]
  /\ mount = 1
  /\ sources = {}
  /\ peers = [a \in Attempts |-> "none"]
  /\ leaving = [a \in Attempts |-> 0]

\* setWsSession: nothing happens to a session whose tab is closed.
setWsSession(state, connectionId) ==
  session' = IF session.tab THEN [session EXCEPT !.state = state, !.connectionId = connectionId] ELSE session

\* The attempts are taken in order.
Fresh(a) == attempts[a].pc = "idle" /\ \A b \in 1..(a - 1) : attempts[b].pc # "idle"

\* connect, up to the fetch.
Connecting(a, retry, m) ==
  /\ attempts' = [attempts EXCEPT ![a] = [pc |-> "pending", retry |-> retry, mount |-> m]]
  /\ refs' = [refs EXCEPT ![m].controller = a]
  /\ setWsSession("connecting", session.connectionId)

connect(a) ==
  /\ session.tab /\ session.state = "disconnected" /\ Fresh(a)
  /\ Connecting(a, 0, mount)
  /\ UNCHANGED <<autoReconnect, mount, sources, peers, leaving>>

\* A timer fires; nothing has cancelled it and nothing is asked again.
reconnect(a) ==
  /\ attempts[a].pc = "timer"
  /\ Connecting(a, attempts[a].retry, attempts[a].mount)
  /\ UNCHANGED <<autoReconnect, mount, sources, peers, leaving>>

canRetry(retry) == autoReconnect /\ retry <= reconnectMaxRetries

\* The attempts after one has ended, with a timer for the next one if there is
\* to be one (a timer beyond the bound does not fire).
WithTimer(after, retry, m) ==
  attempts' = [b \in Attempts |->
    IF canRetry(retry) /\ Fresh(b) THEN [pc |-> "timer", retry |-> retry, mount |-> m] ELSE after[b]]

Ended(a) == [attempts EXCEPT ![a].pc = "done"]

\* The connection is open in the executor, and the page is not told yet.
PeerAccepts(a) ==
  /\ attempts[a].pc = "pending" /\ peers[a] = "none"
  /\ peers' = [peers EXCEPT ![a] = "open"]
  /\ UNCHANGED <<session, autoReconnect, attempts, refs, mount, sources, leaving>>

\* Mutant: the events are asked for before the session has its connection.
Connected_Unregistered(a) ==
  /\ attempts[a].pc = "pending" /\ peers[a] # "none"
  /\ setWsSession("connected", a)
  /\ sources' = sources \union {a}
  /\ refs' = [refs EXCEPT ![attempts[a].mount].controller = None]
  /\ attempts' = Ended(a)
  /\ UNCHANGED <<autoReconnect, mount, peers, leaving>>

\* The events of the connection are watched from now on.  The controller that
\* is deleted is that of whichever attempt is the last.
Connected(a) ==
  /\ attempts[a].pc = "pending" /\ peers[a] # "none"
  /\ setWsSession("connected", a)
  /\ sources' = sources \union {a}
  /\ refs' = [refs EXCEPT ![attempts[a].mount] = [controller |-> None, source |-> a]]
  /\ attempts' = Ended(a)
  /\ UNCHANGED <<autoReconnect, mount, peers, leaving>>

\* The attempt fails; if it was a reconnect, another one may follow.
ConnectFails(a) ==
  LET k == attempts[a]
  IN /\ k.pc = "pending"
     /\ refs' = [refs EXCEPT ![k.mount].controller = None]
     /\ setWsSession("disconnected", None)
     /\ \/ k.retry = 0 /\ attempts' = Ended(a)
        \/ k.retry > 0 /\ WithTimer(Ended(a), k.retry + 1, k.mount)
     /\ UNCHANGED <<autoReconnect, mount, sources, peers, leaving>>

\* The attempt whose controller is registered is aborted, if there is one.
cancelConnect ==
  /\ session.tab /\ session.state = "connecting"
  /\ LET a == refs[mount].controller
     IN attempts' = [b \in Attempts |-> IF b = a THEN [attempts[b] EXCEPT !.pc = "done"] ELSE attempts[b]]
  /\ refs' = [refs EXCEPT ![mount].controller = None]
  /\ setWsSession("disconnected", None)
  /\ UNCHANGED <<autoReconnect, mount, sources, peers, leaving>>

\* disconnect: the registered event source is closed at once, whoever's it is;
\* the state changes when the executor has answered, whatever it is by then.
disconnect(a) ==
  /\ session.tab /\ session.state = "connected" /\ session.connectionId = a
  /\ leaving[a] < MaxDisconnects
  /\ sources' = sources \ {refs[mount].source}
  /\ refs' = [refs EXCEPT ![mount].source = None]
  /\ leaving' = [leaving EXCEPT ![a] = @ + 1]
  /\ UNCHANGED <<session, autoReconnect, attempts, mount, peers>>

\* The executor has closed the connection, or the request failed.
Disconnected(a) ==
  /\ leaving[a] > 0
  /\ leaving' = [leaving EXCEPT ![a] = @ - 1]
  /\ \E p \in {"closed", peers[a]} : peers' = [peers EXCEPT ![a] = p]
  /\ setWsSession("disconnected", None)
  /\ UNCHANGED <<autoReconnect, attempts, refs, mount, sources>>

closeWsSession == session' = [tab |-> FALSE, state |-> "disconnected", connectionId |-> None]

\* The tab is closed: its connection is, unless that fails; its event source is not.
closeTab ==
  /\ session.tab /\ closeWsSession
  /\ \E gone \in SUBSET ({session.connectionId} \ {None}) :
       peers' = [a \in Attempts |-> IF a \in gone THEN "closed" ELSE peers[a]]
  /\ UNCHANGED <<autoReconnect, attempts, refs, mount, sources, leaving>>

PeerCloses(a) ==
  /\ peers[a] = "open"
  /\ peers' = [peers EXCEPT ![a] = "closed"]
  /\ UNCHANGED <<session, autoReconnect, attempts, refs, mount, sources, leaving>>

\* What a close event does: the session is disconnected, whichever connection it
\* has, and the entry of its event source removed, whichever that is.  The count
\* of attempts begins anew.
SourceCloses(a) ==
  LET m == attempts[a].mount
  IN /\ a \in sources
     /\ sources' = sources \ {a}
     /\ refs' = [refs EXCEPT ![m].source = None]
     /\ setWsSession("disconnected", None)
     /\ WithTimer(attempts, 1, m)
     /\ UNCHANGED <<autoReconnect, mount, peers, leaving>>

\* Mutant: the close event is only listened to by sessions that reconnect.
CloseEvent_Reconnecting(a) == autoReconnect /\ peers[a] = "closed" /\ SourceCloses(a)

\* The close event of a connection that is closed.
CloseEvent(a) == peers[a] = "closed" /\ SourceCloses(a)

\* The server's poll for the event source fails: the browser is sent a close
\* event of a connection that is open, and stays so.
FailedEvent(a) == peers[a] = "open" /\ SourceCloses(a)

\* Another protocol is shown and then this one again: the registered event
\* sources are closed, and the maps are new.
Remount ==
  /\ mount < MaxMounts
  /\ sources' = sources \ {refs[mount].source}
  /\ mount' = mount + 1
  /\ UNCHANGED <<session, autoReconnect, attempts, refs, peers, leaving>>

SessionStep(a) == reconnect(a) \/ Connected(a) \/ ConnectFails(a) \/ Disconnected(a) \/ CloseEvent(a)

SessionNext ==
  \/ \E a \in Attempts : connect(a) \/ SessionStep(a) \/ FailedEvent(a)
                       \/ PeerAccepts(a) \/ disconnect(a) \/ PeerCloses(a)
  \/ cancelConnect \/ closeTab \/ Remount

\* Timers fire, requests are answered or fail, and the relay reports a closed
\* connection with its next poll.  An event source whose request is refused for
\* good is left out: the page does not listen to its errors, and no relay is
\* there to report.
SessionFairness == \A a \in Attempts : WF_sessionVars(SessionStep(a))

-----------------------------------------------------------------------------
(* Properties.                                                             *)

SessionTypeOK ==
  /\ session \in [tab : BOOLEAN, state : {"disconnected", "connecting", "connected"}, connectionId : 0..MaxAttempts]
  /\ mount \in Mounts /\ sources \subseteq Attempts
  /\ attempts \in [Attempts -> [pc : {"idle", "timer", "pending", "done"}, retry : Nat, mount : 0..MaxMounts]]
  /\ peers \in [Attempts -> {"none", "open", "closed"}] /\ leaving \in [Attempts -> 0..MaxDisconnects]

\* What is shown as connected is watched: its event source is open, and is the
\* one that Disconnect will close, however attempts, timers, old event sources
\* and clicks were interleaved (unless the page was left since, or a
\* disconnect is under way).
ConnectedIsWatched ==
  LET a == session.connectionId
  IN (session.state = "connected" /\ \A b \in Attempts : leaving[b] = 0) =>
       /\ a \in Attempts
       /\ attempts[a].mount = mount => a \in sources /\ refs[mount].source = a

\* The page waits for a connection only while an attempt is under way: it never
\* hangs after the last one has failed or was cancelled.
ConnectingIsPending ==
  session.state = "connecting" => \E a \in Attempts : attempts[a].pc = "pending"

\* The end of the connection that is shown is shown, too, while the page stays.
PeerCloseNoticed ==
  \A a \in Attempts :
    (session.state = "connected" /\ session.connectionId = a /\ peers[a] = "closed" /\ attempts[a].mount = mount)
      ~> (session.connectionId # a \/ attempts[a].mount # mount \/ session.state # "connected")
=============================================================================
