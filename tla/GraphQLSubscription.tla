-------------------------- MODULE GraphQLSubscription --------------------------
(***************************************************************************)
(* GraphQL subscriptions of the UI (useGraphQLSubscription): a connection  *)
(* through the WebSocket service, graphql-transport-ws on top of it, and   *)
(* an interval that polls for frames.  Intervals do not wait for the poll  *)
(* before; polls, closing and unsubscribing all wait for the server, and   *)
(* write to the same refs when they go on.                                 *)
(*                                                                         *)
(* The subscription with number s connects as connection s and has the id  *)
(* s.  The target is external; its pings, which are answered without any   *)
(* other effect, are left out, and so is what waits in a connection that   *)
(* is closed, since no poll hands it on.  The states idle, complete and    *)
(* error, and the frames that lead to them, differ in what is shown only:  *)
(* they are "over" and "end" here.                                         *)
(***************************************************************************)
EXTENDS Naturals, Sequences

CONSTANTS
  MaxSubs,     \* bound: subscriptions
  Polls,       \* bound: polls that are under way
  MaxPending,  \* bound: terminations and unsubscriptions that wait, of each kind
  MaxFrames    \* bound: frames that wait in a connection

ASSUME SubscriptionAssumption == MaxSubs \in Nat

VARIABLES
  gql,    \* state, refs, intervals that run, terminations and unsubscriptions that wait
  subs,   \* calls of subscribe
  polls,  \* calls of poll
  links   \* external: connections, with what the target was told (0: connection_init,
          \* s: to subscribe) and has not ended, and the frames that wait

gqlVars == <<gql, subs, polls, links>>

Subs == 1..MaxSubs
Closed == [state |-> "closed", told |-> {}, frames |-> <<>>]
IdlePoll == [pc |-> "idle", id |-> 0, frames |-> <<>>, subId |-> 0]

GqlInit ==
  /\ gql = [state |-> "over", connId |-> 0, pollRef |-> 0, subId |-> 0, ack |-> FALSE, shown |-> {},
            intervals |-> {}, terminating |-> [s \in Subs |-> 0],
            leaving |-> [s \in 0..MaxSubs |-> 0]]
  /\ subs = [s \in Subs |-> "idle"]
  /\ polls = [p \in Polls |-> IdlePoll]
  /\ links = [s \in Subs |-> [state |-> "none", told |-> {}, frames |-> <<>>]]

stopPolling(g) == [g EXCEPT !.intervals = @ \ {g.pollRef}, !.pollRef = 0]

\* A state after terminate: if there is a connection, it is closed first.
terminate(g, connId) ==
  IF connId = 0 THEN [stopPolling(g) EXCEPT !.state = "over"]
  ELSE [stopPolling(g) EXCEPT !.terminating[connId] = @ + 1]

Bounded(g) == \A s \in Subs : g.terminating[s] <= MaxPending

\* What follows the close, whatever connection the ref holds by then.
Terminated(s) ==
  /\ gql.terminating[s] > 0
  /\ gql' = [gql EXCEPT !.terminating[s] = @ - 1, !.connId = 0, !.state = "over"]
  /\ links' = [links EXCEPT ![s] = Closed]
  /\ UNCHANGED <<subs, polls>>

subscribe(s) ==
  /\ subs[s] = "idle" /\ \A t \in 1..(s - 1) : subs[t] # "idle"
  /\ gql.state \notin {"connecting", "subscribed"}
  /\ gql' = [gql EXCEPT !.state = "connecting", !.shown = {}, !.ack = FALSE, !.subId = s]
  /\ subs' = [subs EXCEPT ![s] = "connecting"]
  /\ UNCHANGED <<polls, links>>

SubConnected(s) ==
  /\ subs[s] = "connecting"
  /\ gql' = [gql EXCEPT !.connId = s]
  /\ subs' = [subs EXCEPT ![s] = "init"]
  /\ links' = [links EXCEPT ![s].state = "open"]
  /\ UNCHANGED polls

\* connection_init is sent; the interval before, if there is one, goes on.
SubPolls(s) ==
  /\ subs[s] = "init"
  /\ gql' = [gql EXCEPT !.pollRef = s, !.intervals = @ \union {s}]
  /\ subs' = [subs EXCEPT ![s] = "polling"]
  /\ links' = [links EXCEPT ![s].told = IF links[s].state = "open" THEN {0} ELSE {}]
  /\ UNCHANGED polls

SubFails(s) ==
  /\ subs[s] \in {"connecting", "init"}
  /\ gql' = terminate(gql, gql.connId) /\ Bounded(gql')
  /\ subs' = [subs EXCEPT ![s] = "failed"]
  /\ UNCHANGED <<polls, links>>

\* An interval ticks: it polls the connection in the ref, whichever that is.
Tick(s, p) ==
  /\ s \in gql.intervals
  /\ \/ /\ gql.connId = 0
        /\ gql' = stopPolling(gql)
        /\ UNCHANGED polls
     \/ /\ gql.connId # 0 /\ polls[p] = IdlePoll
        /\ polls' = [polls EXCEPT ![p].pc = "asked", ![p].id = gql.connId]
        /\ UNCHANGED gql
  /\ UNCHANGED <<subs, links>>

\* The poll takes the frames that wait; those of a closed connection are dropped.
PollAnswered(p) ==
  /\ polls[p].pc = "asked"
  /\ links' = [links EXCEPT ![polls[p].id].frames = <<>>]
  /\ LET link == links[polls[p].id]
     IN \/ /\ link.state = "open"
           /\ polls' = [polls EXCEPT ![p].pc = "frames", ![p].frames = link.frames]
           /\ UNCHANGED gql
        \/ /\ link.state # "open"
           /\ polls' = [polls EXCEPT ![p] = IdlePoll]
           /\ gql' = terminate(gql, 0)
  /\ UNCHANGED subs

\* A request of a poll fails: it is given up, with the frames it still has.
PollFails(p) ==
  /\ polls[p].pc \in {"asked", "subscribing"}
  /\ polls' = [polls EXCEPT ![p] = IdlePoll]
  /\ UNCHANGED <<gql, subs, links>>

PollEnds(p) ==
  /\ polls[p].pc = "frames" /\ polls[p].frames = <<>>
  /\ polls' = [polls EXCEPT ![p] = IdlePoll]
  /\ UNCHANGED <<gql, subs, links>>

Frame(type, id) == [type |-> type, id |-> id]

\* What handleFrame does at once with a frame of connection c.
FrameHandled(g, c, frame) ==
  CASE frame.type = "connection_ack" -> IF g.ack THEN g ELSE [g EXCEPT !.ack = TRUE]
    [] frame.type = "next" /\ frame.id = g.subId -> [g EXCEPT !.shown = @ \union {frame.id}]
    [] frame.type = "end" /\ frame.id = g.subId -> terminate(g, c)
    [] OTHER -> g

\* One frame.  The first connection_ack subscribes, on the connection that it
\* came from, with the id that is current now.
handleFrame(p) ==
  /\ polls[p].pc = "frames" /\ polls[p].frames # <<>>
  /\ LET frame == Head(polls[p].frames)
         rest == [polls[p] EXCEPT !.frames = Tail(@)]
     IN /\ gql' = FrameHandled(gql, polls[p].id, frame) /\ Bounded(gql')
        /\ polls' = [polls EXCEPT ![p] =
             IF frame.type = "connection_ack" /\ ~gql.ack
             THEN [rest EXCEPT !.pc = "subscribing", !.subId = gql.subId] ELSE rest]
  /\ UNCHANGED <<subs, links>>

\* sendSubscribeFrame has ended.
Subscribed(p) ==
  /\ polls[p].pc = "subscribing"
  /\ links' = [links EXCEPT ![polls[p].id].told =
       IF links[polls[p].id].state = "open" THEN @ \union {polls[p].subId} ELSE @]
  /\ gql' = [gql EXCEPT !.state = "subscribed"]
  /\ polls' = [polls EXCEPT ![p].pc = "frames", ![p].subId = 0]
  /\ UNCHANGED subs

\* Unsubscribe is offered while connecting, too.
unsubscribe ==
  /\ gql.state \in {"connecting", "subscribed"}
  /\ gql.leaving[gql.connId] < MaxPending
  /\ gql' = IF gql.connId = 0 THEN terminate(gql, 0) ELSE [gql EXCEPT !.leaving[gql.connId] = @ + 1]
  /\ UNCHANGED <<subs, polls, links>>

\* The target has been told, or could not be.
Unsubscribed(s) ==
  /\ gql.leaving[s] > 0
  /\ gql' = [terminate(gql, s) EXCEPT !.leaving[s] = @ - 1] /\ Bounded(gql')
  /\ links' = [links EXCEPT ![s].told = @ \ {gql.subId}]
  /\ UNCHANGED <<subs, polls>>

clearMessages ==
  /\ gql.shown # {} /\ gql' = [gql EXCEPT !.shown = {}]
  /\ UNCHANGED <<subs, polls, links>>

\* External: the target acknowledges, answers what was subscribed, or goes away.
TargetSends(s, frame) ==
  /\ links[s].state = "open" /\ Len(links[s].frames) < MaxFrames
  /\ frame.id \in links[s].told
  /\ links' = [links EXCEPT ![s].frames = Append(@, frame),
                            ![s].told = IF frame.type = "next" THEN @ ELSE @ \ {frame.id}]
  /\ UNCHANGED <<gql, subs, polls>>

TargetCloses(s) ==
  /\ links[s].state = "open" /\ links' = [links EXCEPT ![s] = Closed]
  /\ UNCHANGED <<gql, subs, polls>>

PollStep(p) == PollAnswered(p) \/ PollEnds(p) \/ handleFrame(p) \/ Subscribed(p)

GqlNext ==
  \/ \E s \in Subs : \/ subscribe(s) \/ SubConnected(s) \/ SubPolls(s) \/ SubFails(s)
                     \/ Unsubscribed(s) \/ Terminated(s) \/ TargetCloses(s)
                     \/ \E p \in Polls : Tick(s, p)
                     \/ TargetSends(s, Frame("connection_ack", 0))
                     \/ \E type \in {"next", "end"}, id \in Subs : TargetSends(s, Frame(type, id))
  \/ \E p \in Polls : PollStep(p) \/ PollFails(p)
  \/ unsubscribe \/ clearMessages

\* Intervals tick, and requests are answered: polls do not fail for ever.
GqlFairness ==
  /\ \A s \in Subs : WF_gqlVars(\E p \in Polls : Tick(s, p)) /\ WF_gqlVars(Terminated(s))
  /\ \A p \in Polls : SF_gqlVars(PollStep(p))

-----------------------------------------------------------------------------
(* Properties.                                                             *)

GqlTypeOK ==
  /\ gql.state \in {"over", "connecting", "subscribed"}
  /\ gql.connId \in 0..MaxSubs /\ gql.pollRef \in 0..MaxSubs /\ gql.intervals \subseteq Subs
  /\ subs \in [Subs -> {"idle", "connecting", "init", "polling", "failed"}]
  /\ \A p \in Polls : polls[p].pc \in {"idle", "asked", "frames", "subscribing"}

\* The data that is shown is that of the subscription that was asked for last:
\* late polls, connections that were not closed in time and a subscription
\* that was begun meanwhile never mix the data of two.
ShownDataIsCurrent == gql.shown \subseteq {gql.subId}

\* The page does not stay subscribed to a connection that is gone, as long as
\* its interval runs: neither failed polls nor older intervals hide the end.
SubscriptionEndNoticed ==
  \A s \in Subs :
    (gql.state = "subscribed" /\ gql.connId = s /\ links[s].state = "closed" /\ gql.pollRef # 0)
      ~> (gql.state # "subscribed" \/ gql.connId # s)
=============================================================================
