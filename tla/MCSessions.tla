------------------------------ MODULE MCSessions ------------------------------
(***************************************************************************)
(* Flows and sessions that a page keeps with a peer, checked part          *)
(* by part: a behaviour is about an OAuth2 flow, a WebSocket session, or a *)
(* GraphQL subscription.  The parts share no state.                        *)
(***************************************************************************)
EXTENDS OAuth2Flow, WebSocketSession, GraphQLSubscription

VARIABLE area

MCInit ==
  /\ area \in {"oauth2", "websocket", "graphql"}
  /\ Init /\ SessionInit /\ GqlInit
  /\ area # "websocket" => autoReconnect

MCNext ==
  \/ /\ area = "oauth2" /\ Next
     /\ UNCHANGED <<sessionVars, gqlVars, area>>
  \/ /\ area = "websocket" /\ SessionNext
     /\ UNCHANGED <<vars, gqlVars, area>>
  \/ /\ area = "graphql" /\ GqlNext
     /\ UNCHANGED <<vars, sessionVars, area>>

MCSpec ==
  /\ MCInit /\ [][MCNext]_<<vars, sessionVars, gqlVars, area>>
  /\ Fairness /\ SessionFairness /\ GqlFairness

\* A session the page shows is a session it follows: a connected one is
\* watched, a connecting one has an attempt under way, and the data that is
\* shown is that of the subscription that was asked for last.
SessionsAreFollowed ==
  /\ SessionTypeOK /\ GqlTypeOK
  /\ ConnectedIsWatched /\ ConnectingIsPending /\ ShownDataIsCurrent

\* Flows and sessions reach an end the user sees: an OAuth2 flow whose callback
\* arrived gets one outcome and keeps it, and the page notices when the peer
\* closes a socket or ends a subscription.
EndsAreSeen == OneCallbackIsFinal /\ FlowEnds /\ PeerCloseNoticed /\ SubscriptionEndNoticed
=============================================================================
