---------------------------- MODULE SessionProofs ----------------------------
(***************************************************************************)
(* Proofs about the flows and sessions of a page: the OAuth2 authorization *)
(* code flow, for any number of flows, codes and concurrent callbacks; the *)
(* WebSocket session, for any number of attempts, pages and disconnects;   *)
(* and the GraphQL subscription, for any number of subscriptions and       *)
(* polls.                                                                  *)
(***************************************************************************)
EXTENDS MCSessions, FiniteSetTheorems, TLAPS

LEMMA TypeInit ==
  ASSUME Init
  PROVE  TypeOK
  BY FlowsAssumption DEF Init, TypeOK

\* What a step that ends a callback leaves of the callbacks.
LEMMA FinishFacts ==
  ASSUME TypeOK, NEW c \in Callbacks, Finish(c)
  PROVE  /\ callback[c].flow \in Flows /\ callback[c].code \in Codes
         /\ callback' \in [Callbacks -> [flow : Flows, code : Codes, tokenUrl : BOOLEAN]
                                         \union {Idle}]
  BY DEF TypeOK, Finish

LEMMA TypeStep ==
  ASSUME TypeOK, [Next]_vars
  PROVE  TypeOK'
<1> USE DEF Terminal, Entries, history
<1>1. ASSUME NEW s \in Flows, authCodeStart(s) PROVE TypeOK'
  BY <1>1 DEF TypeOK, authCodeStart
<1>2. ASSUME NEW s \in Flows, CallbackRefused(s) PROVE TypeOK'
  BY <1>2 DEF TypeOK, CallbackRefused, Arrive, Write
<1>3. ASSUME NEW s \in Flows, getAndDeleteIfTerminal(s) PROVE TypeOK'
  BY <1>3 DEF TypeOK, getAndDeleteIfTerminal, Returned
<1>4. ASSUME NEW s \in Flows, NEW c \in Callbacks, NEW code \in Codes,
             CallbackCode(c, s, code)
      PROVE  TypeOK'
  <2>1. [flow |-> s, code |-> code, tokenUrl |-> store[s] = "pending"]
          \in [flow : Flows, code : Codes, tokenUrl : BOOLEAN]
    OBVIOUS
  <2> QED  BY <1>4, <2>1 DEF TypeOK, CallbackCode, Arrive
<1>5. ASSUME NEW c \in Callbacks, Exchange(c) PROVE TypeOK'
  <2>1. CASE ExchangeFails(c)
    BY <2>1, FinishFacts DEF TypeOK, ExchangeFails, Write, Redeem
  <2>2. CASE ExchangeRejected(c)
    BY <2>2, FinishFacts DEF TypeOK, ExchangeRejected, Write
  <2>3. CASE ExchangeGranted(c)
    BY <2>3, FinishFacts DEF TypeOK, ExchangeGranted, Write, Redeem
  <2>4. CASE ExchangeUnreadable(c)
    BY <2>4, FinishFacts DEF TypeOK, ExchangeUnreadable
  <2> QED  BY <1>5, <2>1, <2>2, <2>3, <2>4 DEF Exchange
<1>6. CASE UNCHANGED vars
  BY <1>6 DEF TypeOK, vars
<1> QED  BY <1>1, <1>2, <1>3, <1>4, <1>5, <1>6 DEF Next

\* The store, the callbacks and the history keep their types.
THEOREM TypeCorrect == Spec => []TypeOK
  BY TypeInit, TypeStep, PTL DEF Spec

(***************************************************************************)
(* Counting.  Both properties are inductive given the types: every write   *)
(* adds to what they bound by at least what it adds to what is bounded.    *)
(***************************************************************************)
Counts(s) ==
  /\ tokens[s] + errors[s] + Waiting(s, "done") + Waiting(s, "error") <= written[s]
  /\ tokens[s] + Waiting(s, "done") <= Cardinality(redeemed[s])

LEMMA RedeemFacts ==
  ASSUME TypeOK, NEW s \in Flows
  PROVE  /\ Cardinality(redeemed[s]) \in Nat
         /\ \A code \in Codes \ redeemed[s] :
              Cardinality(redeemed[s] \union {code}) = Cardinality(redeemed[s]) + 1
<1>1. redeemed[s] \subseteq Codes
  BY DEF TypeOK
<1>2. IsFiniteSet(redeemed[s])
  BY <1>1, FlowsAssumption, FS_Subset
<1> QED  BY <1>2, FS_AddElement, FS_CardinalityType

\* A callback that writes an outcome to flow s, with a token only if it
\* redeemed a code.
LEMMA WriteCounts ==
  ASSUME TypeOK, NEW s \in Flows, NEW outcome \in Terminal, Write(s, outcome),
         Counts(s), UNCHANGED <<tokens, errors>>,
         \/ outcome = "error" /\ redeemed'[s] = redeemed[s]
         \/ \E code \in Codes \ redeemed[s] : redeemed'[s] = redeemed[s] \union {code}
  PROVE  Counts(s)'
<1>1. /\ tokens[s] \in Nat /\ errors[s] \in Nat /\ written[s] \in Nat
      /\ Cardinality(redeemed[s]) \in Nat
  BY RedeemFacts DEF TypeOK
<1>2. store'[s] = outcome /\ written'[s] = written[s] + 1
  BY DEF Write, TypeOK
<1>3. /\ Cardinality(redeemed'[s]) \in Nat
      /\ Cardinality(redeemed'[s]) >= Cardinality(redeemed[s])
      /\ outcome = "done" => Cardinality(redeemed'[s]) = Cardinality(redeemed[s]) + 1
  BY <1>1, RedeemFacts
<1> QED  BY <1>1, <1>2, <1>3 DEF Counts, Waiting, Terminal

\* A poll moves what waits into what was returned.
LEMMA PollCounts ==
  ASSUME TypeOK, NEW s \in Flows, getAndDeleteIfTerminal(s), Counts(s)
  PROVE  Counts(s)'
<1>1. /\ tokens[s] \in Nat /\ errors[s] \in Nat /\ written[s] \in Nat
      /\ Cardinality(redeemed[s]) \in Nat
  BY RedeemFacts DEF TypeOK
<1>2. /\ store'[s] = "absent" /\ written'[s] = written[s] /\ redeemed'[s] = redeemed[s]
      /\ tokens'[s] = tokens[s] + IF store[s] = "done" THEN 1 ELSE 0
      /\ errors'[s] = errors[s] + IF store[s] = "error" THEN 1 ELSE 0
  BY DEF getAndDeleteIfTerminal, Returned, TypeOK
<1> QED  BY <1>1, <1>2 DEF Counts, Waiting

\* The step leaves flow s alone.
Alone(s) ==
  /\ store'[s] = store[s] /\ redeemed'[s] = redeemed[s] /\ written'[s] = written[s]
  /\ tokens'[s] = tokens[s] /\ errors'[s] = errors[s]

LEMMA CountsStep ==
  ASSUME TypeOK, [Next]_vars, NEW s \in Flows, Counts(s)
  PROVE  Counts(s)'
<1>1. ASSUME Alone(s) PROVE Counts(s)'
  BY <1>1 DEF Alone, Counts, Waiting
<1>2. ASSUME NEW r \in Flows, authCodeStart(r) PROVE Counts(s)'
  <2>1. CASE r = s
    <3>1. /\ store[s] = "unused" /\ store'[s] = "pending" /\ tokens'[s] = tokens[s]
          /\ errors'[s] = errors[s] /\ written'[s] = written[s]
          /\ redeemed'[s] = redeemed[s]
      BY <1>2, <2>1 DEF authCodeStart, history, TypeOK
    <3> QED  BY <3>1 DEF Counts, Waiting
  <2>2. CASE r # s
    BY <1>1, <1>2, <2>2 DEF authCodeStart, history, TypeOK, Alone
  <2> QED  BY <2>1, <2>2
<1>3. ASSUME NEW r \in Flows, CallbackRefused(r) PROVE Counts(s)'
  <2>1. CASE r = s
    BY <1>3, <2>1, WriteCounts DEF CallbackRefused, Terminal
  <2>2. CASE r # s
    BY <1>1, <1>3, <2>2 DEF CallbackRefused, Write, TypeOK, Alone
  <2> QED  BY <2>1, <2>2
<1>4. ASSUME NEW r \in Flows, getAndDeleteIfTerminal(r) PROVE Counts(s)'
  <2>1. CASE r = s
    BY <1>4, <2>1, PollCounts
  <2>2. CASE r # s
    BY <1>1, <1>4, <2>2 DEF getAndDeleteIfTerminal, Returned, TypeOK, Alone
  <2> QED  BY <2>1, <2>2
<1>5. ASSUME NEW r \in Flows, NEW c \in Callbacks, NEW code \in Codes,
             CallbackCode(c, r, code)
      PROVE  Counts(s)'
  BY <1>1, <1>5 DEF CallbackCode, Alone
<1>6. ASSUME NEW c \in Callbacks, Exchange(c) PROVE Counts(s)'
  <2> DEFINE r == callback[c].flow
  <2>1. r \in Flows /\ callback[c].code \in Codes
    BY <1>6, FinishFacts
       DEF Exchange, ExchangeFails, ExchangeRejected, ExchangeGranted, ExchangeUnreadable
  <2>2. CASE r # s
    BY <1>1, <1>6, <2>1, <2>2
       DEF Exchange, ExchangeFails, ExchangeRejected, ExchangeGranted,
           ExchangeUnreadable, Write, Redeem, TypeOK, Alone
  <2>3. CASE r = s
    <3>1. CASE ExchangeFails(c)
      BY <2>1, <2>3, <3>1, WriteCounts DEF ExchangeFails, Redeem, Terminal, TypeOK
    <3>2. CASE ExchangeRejected(c)
      BY <2>3, <3>2, WriteCounts DEF ExchangeRejected, Terminal
    <3>3. CASE ExchangeGranted(c)
      BY <2>1, <2>3, <3>3, WriteCounts DEF ExchangeGranted, Redeem, Terminal, TypeOK
    <3>4. CASE ExchangeUnreadable(c)
      BY <1>1, <3>4 DEF ExchangeUnreadable, Alone
    <3> QED  BY <1>6, <3>1, <3>2, <3>3, <3>4 DEF Exchange
  <2> QED  BY <2>2, <2>3
<1>7. CASE UNCHANGED vars
  BY <1>1, <1>7 DEF vars, history, Alone
<1> QED  BY <1>2, <1>3, <1>4, <1>5, <1>6, <1>7 DEF Next

LEMMA Counted == Spec => [](\A s \in Flows : Counts(s))
<1>1. Init => \A s \in Flows : Counts(s)
  BY FS_EmptySet DEF Init, Counts, Waiting
<1>2. TypeOK /\ (\A s \in Flows : Counts(s)) /\ [Next]_vars
        => (\A s \in Flows : Counts(s))'
  BY CountsStep
<1> QED  BY <1>1, <1>2, TypeCorrect, PTL DEF Spec

\* getAndDeleteIfTerminal hands every outcome that a callback wrote to at most
\* one poll.
THEOREM ReadOnce == Spec => []OutcomeReadOnce
<1>1. (\A s \in Flows : Counts(s)) => OutcomeReadOnce
  BY DEF Counts, OutcomeReadOnce
<1> QED  BY <1>1, Counted, PTL

\* Repeated and concurrent callbacks never make more tokens than the provider
\* granted.
THEOREM TokensGranted == Spec => []TokenOnce
<1>1. (\A s \in Flows : Counts(s)) => TokenOnce
  BY DEF Counts, TokenOnce
<1> QED  BY <1>1, Counted, PTL

(***************************************************************************)
(* One callback.  As long as no second one arrived for a flow, at most one *)
(* handler works for it, and only on an entry that is still pending.       *)
(***************************************************************************)
Single(s) ==
  /\ arrived[s] = 0 => store[s] \in {"unused", "pending"} /\ \A c \in Callbacks : callback[c].flow # s
  /\ arrived[s] <= 1 => \A c \in Callbacks : callback[c].flow = s =>
       store[s] = "pending" /\ \A d \in Callbacks : callback[d].flow = s => c = d

LEMMA SingleStep ==
  ASSUME TypeOK, NEW s \in Flows, Single(s), [Next]_vars
  PROVE  /\ Single(s)'
         /\ arrived'[s] <= 1 => Progress(store[s], store'[s])
<1> USE DEF Progress, Terminal
<1>0. arrived[s] \in Nat
  BY DEF TypeOK
\* A step that leaves the flow and its handlers alone.
<1>1. ASSUME store'[s] = store[s], arrived'[s] = arrived[s],
             \A c \in Callbacks : callback'[c].flow = s => callback[c].flow = s
      PROVE  Single(s)' /\ (arrived'[s] <= 1 => Progress(store[s], store'[s]))
  BY <1>1 DEF Single
<1>2. ASSUME NEW r \in Flows, authCodeStart(r)
      PROVE  Single(s)' /\ (arrived'[s] <= 1 => Progress(store[s], store'[s]))
  BY <1>0, <1>2 DEF authCodeStart, history, Single, TypeOK
<1>3. ASSUME NEW r \in Flows, CallbackRefused(r)
      PROVE  Single(s)' /\ (arrived'[s] <= 1 => Progress(store[s], store'[s]))
  <2>1. CASE r # s
    BY <1>1, <1>3, <2>1 DEF CallbackRefused, Arrive, Write, TypeOK
  <2>2. CASE r = s
    <3>1. /\ arrived'[s] = arrived[s] + 1 /\ store'[s] = "error" /\ callback' = callback
          /\ store[s] \in Entries
      BY <1>3, <2>2 DEF CallbackRefused, Arrive, Write, TypeOK
    <3> QED
      BY <1>0, <3>1 DEF Single, Entries
  <2> QED  BY <2>1, <2>2
<1>4. ASSUME NEW r \in Flows, getAndDeleteIfTerminal(r)
      PROVE  Single(s)' /\ (arrived'[s] <= 1 => Progress(store[s], store'[s]))
  <2>1. CASE r # s
    BY <1>1, <1>4, <2>1 DEF getAndDeleteIfTerminal, TypeOK
  <2>2. CASE r = s
    <3>1. /\ arrived' = arrived /\ store'[s] = "absent" /\ callback' = callback
          /\ store[s] \in {"done", "error"}
      BY <1>4, <2>2 DEF getAndDeleteIfTerminal, TypeOK
    <3> QED
      BY <1>0, <3>1 DEF Single
  <2> QED  BY <2>1, <2>2
<1>5. ASSUME NEW r \in Flows, NEW c \in Callbacks, NEW code \in Codes, CallbackCode(c, r, code)
      PROVE  Single(s)' /\ (arrived'[s] <= 1 => Progress(store[s], store'[s]))
  <2>1. /\ store' = store /\ callback'[c].flow = r
        /\ \A d \in Callbacks : d # c => callback'[d] = callback[d]
    BY <1>5 DEF CallbackCode, TypeOK
  <2>2. CASE r # s
    BY <1>1, <1>5, <2>1, <2>2 DEF CallbackCode, Arrive, TypeOK
  <2>3. CASE r = s
    <3>1. arrived'[s] = arrived[s] + 1 /\ store[s] \in Entries
      BY <1>5, <2>3 DEF CallbackCode, Arrive, TypeOK
    <3> QED
      BY <1>0, <2>1, <2>3, <3>1 DEF Single, Entries
  <2> QED  BY <2>2, <2>3
<1>6. ASSUME NEW c \in Callbacks, Exchange(c)
      PROVE  Single(s)' /\ (arrived'[s] <= 1 => Progress(store[s], store'[s]))
  <2>1. /\ callback[c] # Idle /\ callback'[c].flow # s /\ arrived' = arrived
        /\ \A d \in Callbacks : d # c => callback'[d] = callback[d]
        /\ store' = store \/ \E outcome \in {"done", "error"} :
                               store' = [store EXCEPT ![callback[c].flow] = outcome]
    BY <1>6, FlowsAssumption
       DEF Exchange, ExchangeFails, ExchangeRejected, ExchangeGranted, ExchangeUnreadable, Finish, Write,
           Idle, TypeOK
  <2>2. CASE callback[c].flow # s
    BY <1>1, <2>1, <2>2 DEF TypeOK
  <2>3. CASE callback[c].flow = s
    <3>1. arrived[s] <= 1 => store[s] = "pending" /\ \A d \in Callbacks : callback[d].flow = s => c = d
      BY <2>3 DEF Single
    <3>2. store'[s] \in {store[s], "done", "error"}
      BY <2>1, <2>3 DEF TypeOK
    <3>3. arrived[s] # 0
      BY <2>3 DEF Single
    <3> QED
      BY <1>0, <2>1, <3>1, <3>2, <3>3 DEF Single
  <2> QED  BY <2>2, <2>3
<1>7. CASE UNCHANGED vars
  BY <1>1, <1>7 DEF vars, history
<1> QED
  BY <1>2, <1>3, <1>4, <1>5, <1>6, <1>7 DEF Next

\* A flow whose callback arrived once gets one outcome and keeps it, however the
\* exchange and the polls of the page interleave (authCodeStart, the callback
\* handler, getAndDeleteIfTerminal).
THEOREM OneCallbackDecides == Spec => OneCallbackIsFinal
<1> DEFINE Final == \A s \in Flows : arrived'[s] <= 1 => Progress(store[s], store'[s])
<1>1. Init => \A s \in Flows : Single(s)
  BY FlowsAssumption DEF Init, Single, Idle
<1>2. TypeOK /\ (\A s \in Flows : Single(s)) /\ [Next]_vars => (\A s \in Flows : Single(s))' /\ Final
  BY SingleStep
<1>3. Final => [Final]_vars
  OBVIOUS
<1>4. Spec => [][Final]_vars
  <2> HIDE DEF Final
  <2> QED  BY <1>1, <1>2, <1>3, TypeCorrect, PTL DEF Spec
<1> QED
  BY <1>4 DEF OneCallbackIsFinal

(***************************************************************************)
(* The WebSocket session.  That a connected session is watched needs more  *)
(* than the types: a tab that is gone shows nothing, and no attempt is of  *)
(* an instance of the page that does not exist yet, so a new one finds no  *)
(* attempt of its own.                                                     *)
(***************************************************************************)
SessionInv ==
  /\ SessionTypeOK
  /\ refs \in [Mounts -> [controller : 0..MaxAttempts, source : 0..MaxAttempts]]
  /\ ~session.tab => session.state = "disconnected"
  /\ \A a \in Attempts : attempts[a].mount <= mount
  /\ ConnectedIsWatched /\ ConnectingIsPending

\* No session is shown and nothing was attempted at first.
LEMMA SessionInitially == SessionInit => SessionInv
BY SessionAssumption DEF SessionInit, SessionInv, SessionTypeOK, Attempts, Mounts, None,
   ConnectedIsWatched, ConnectingIsPending

\* What setWsSession leaves: a tab that is gone is not shown again.
LEMMA SessionSet ==
  ASSUME SessionTypeOK, NEW state \in {"disconnected", "connecting", "connected"},
         NEW id \in 0..MaxAttempts, setWsSession(state, id)
  PROVE  /\ session' \in [tab : BOOLEAN, state : {"disconnected", "connecting", "connected"},
                          connectionId : 0..MaxAttempts]
         /\ session'.tab = session.tab
         /\ session.tab => session'.state = state /\ session'.connectionId = id
         /\ ~session.tab => session' = session
BY DEF setWsSession, SessionTypeOK

\* Each attempt, retry, timer, click and event of a source keeps it.
LEMMA SessionKept ==
  ASSUME SessionInv, [SessionNext]_sessionVars
  PROVE  SessionInv'
<1> USE SessionAssumption
<1>0. 0 \in 0..MaxAttempts /\ Attempts \subseteq 0..MaxAttempts /\ mount \in Mounts
      /\ session.connectionId \in 0..MaxAttempts
  BY DEF Attempts, SessionInv, SessionTypeOK
\* An attempt begins.
<1>1. ASSUME NEW a \in Attempts, NEW retry \in Nat, NEW m \in 0..MaxMounts, m <= mount,
             Connecting(a, retry, m), UNCHANGED <<autoReconnect, mount, sources, peers, leaving>>
      PROVE  SessionInv'
  <2>1. setWsSession("connecting", session.connectionId)
    BY <1>1 DEF Connecting
  <2>2. /\ attempts' \in [Attempts -> [pc : {"idle", "timer", "pending", "done"}, retry : Nat,
                                       mount : 0..MaxMounts]]
        /\ attempts'[a].pc = "pending"
        /\ \A b \in Attempts : attempts'[b].mount <= mount
        /\ refs' \in [Mounts -> [controller : 0..MaxAttempts, source : 0..MaxAttempts]]
    BY <1>0, <1>1 DEF SessionInv, SessionTypeOK, Connecting, Mounts
  <2>3. session'.state \in {"connecting", "disconnected"} /\ (~session'.tab => session'.state = "disconnected")
        /\ session' \in [tab : BOOLEAN, state : {"disconnected", "connecting", "connected"},
                          connectionId : 0..MaxAttempts]
    BY <1>0, <2>1, SessionSet DEF SessionInv
  <2> QED
    BY <1>1, <2>2, <2>3 DEF SessionInv, SessionTypeOK, ConnectedIsWatched, ConnectingIsPending
\* A session is shown as disconnected: whatever else happens, only the types
\* and the instances of the attempts matter.
<1>2. ASSUME setWsSession("disconnected", None), mount' = mount,
             /\ attempts' \in [Attempts -> [pc : {"idle", "timer", "pending", "done"}, retry : Nat,
                                            mount : 0..MaxMounts]]
             /\ \A b \in Attempts : attempts'[b].mount <= mount,
             refs' \in [Mounts -> [controller : 0..MaxAttempts, source : 0..MaxAttempts]],
             sources' \subseteq Attempts, peers' \in [Attempts -> {"none", "open", "closed"}],
             leaving' \in [Attempts -> 0..MaxDisconnects]
      PROVE  SessionInv'
  <2>1. session'.state = "disconnected"
        /\ session' \in [tab : BOOLEAN, state : {"disconnected", "connecting", "connected"},
                          connectionId : 0..MaxAttempts]
    BY <1>0, <1>2, SessionSet DEF SessionInv, None
  <2> QED
    BY <1>0, <1>2, <2>1 DEF SessionInv, SessionTypeOK, ConnectedIsWatched, ConnectingIsPending
\* A timer for the next attempt.
<1>3. ASSUME NEW after \in [Attempts -> [pc : {"idle", "timer", "pending", "done"}, retry : Nat,
                                        mount : 0..MaxMounts]],
             \A b \in Attempts : after[b].mount <= mount,
             NEW retry \in Nat, NEW m \in 0..MaxMounts, m <= mount, WithTimer(after, retry, m)
      PROVE  /\ attempts' \in [Attempts -> [pc : {"idle", "timer", "pending", "done"}, retry : Nat,
                                            mount : 0..MaxMounts]]
             /\ \A b \in Attempts : attempts'[b].mount <= mount
  BY <1>3 DEF WithTimer
<1>4. ASSUME NEW a \in Attempts
      PROVE  /\ Ended(a) \in [Attempts -> [pc : {"idle", "timer", "pending", "done"}, retry : Nat,
                                            mount : 0..MaxMounts]]
             /\ \A b \in Attempts : Ended(a)[b].mount <= mount
             /\ attempts[a].retry \in Nat /\ attempts[a].retry + 1 \in Nat
             /\ attempts[a].mount \in 0..MaxMounts /\ attempts[a].mount <= mount
  BY DEF SessionInv, SessionTypeOK, Ended
<1>5. ASSUME NEW a \in Attempts, connect(a) PROVE SessionInv'
  <2>1. mount \in 0..MaxMounts /\ mount <= mount /\ 0 \in Nat
    BY <1>0 DEF Mounts
  <2> QED
    BY <1>1, <1>5, <2>1 DEF connect
<1>6. ASSUME NEW a \in Attempts, reconnect(a) PROVE SessionInv'
  BY <1>1, <1>4, <1>6 DEF reconnect
<1>7. ASSUME NEW a \in Attempts, PeerAccepts(a) \/ PeerCloses(a) PROVE SessionInv'
  BY <1>7 DEF PeerAccepts, PeerCloses, SessionInv, SessionTypeOK, ConnectedIsWatched, ConnectingIsPending
<1>8. ASSUME NEW a \in Attempts, Connected(a) PROVE SessionInv'
  <2>1. /\ attempts' = Ended(a) /\ sources' = sources \union {a}
        /\ refs' = [refs EXCEPT ![attempts[a].mount] = [controller |-> None, source |-> a]]
        /\ attempts'[a].mount = attempts[a].mount
    BY <1>8 DEF Connected, Ended, SessionInv, SessionTypeOK
  <2>2. refs' \in [Mounts -> [controller : 0..MaxAttempts, source : 0..MaxAttempts]]
    BY <1>0, <2>1 DEF SessionInv, None
  <2>3. attempts'[a].mount = mount => a \in sources' /\ refs'[mount].source = a
    BY <1>0, <2>1 DEF SessionInv, SessionTypeOK
  <2>4. session'.state \in {"connected", "disconnected"} /\ (~session'.tab => session'.state = "disconnected")
        /\ session' \in [tab : BOOLEAN, state : {"disconnected", "connecting", "connected"},
                          connectionId : 0..MaxAttempts]
        /\ (session'.state = "connected" => session'.connectionId = a)
    BY <1>0, <1>8, SessionSet DEF SessionInv, Connected
  <2>5. /\ attempts' \in [Attempts -> [pc : {"idle", "timer", "pending", "done"}, retry : Nat,
                                       mount : 0..MaxMounts]]
        /\ \A b \in Attempts : attempts'[b].mount <= mount
    BY <1>4, <2>1
  <2>6. ConnectedIsWatched' /\ ConnectingIsPending'
    BY <1>8, <2>3, <2>4 DEF Connected, ConnectedIsWatched, ConnectingIsPending
  <2> QED
    BY <1>8, <2>1, <2>2, <2>4, <2>5, <2>6 DEF Connected, SessionInv, SessionTypeOK
<1>9. ASSUME NEW a \in Attempts, ConnectFails(a) PROVE SessionInv'
  <2>1. refs' \in [Mounts -> [controller : 0..MaxAttempts, source : 0..MaxAttempts]]
    BY <1>0, <1>9 DEF ConnectFails, SessionInv, None
  <2>2. /\ attempts' \in [Attempts -> [pc : {"idle", "timer", "pending", "done"}, retry : Nat,
                                       mount : 0..MaxMounts]]
        /\ \A b \in Attempts : attempts'[b].mount <= mount
    <3>1. CASE attempts' = Ended(a)
      BY <1>4, <3>1
    <3>2. CASE WithTimer(Ended(a), attempts[a].retry + 1, attempts[a].mount)
      BY <1>3, <1>4, <3>2
    <3> QED  BY <1>9, <3>1, <3>2 DEF ConnectFails
  <2> QED
    BY <1>2, <1>9, <2>1, <2>2 DEF ConnectFails, SessionInv, SessionTypeOK
<1>10. ASSUME cancelConnect PROVE SessionInv'
  <2>1. refs' \in [Mounts -> [controller : 0..MaxAttempts, source : 0..MaxAttempts]]
    BY <1>0, <1>10 DEF cancelConnect, SessionInv, None
  <2>2. /\ attempts' \in [Attempts -> [pc : {"idle", "timer", "pending", "done"}, retry : Nat,
                                       mount : 0..MaxMounts]]
        /\ \A b \in Attempts : attempts'[b].mount <= mount
    <3>1. \A b \in Attempts :
            /\ attempts'[b] = attempts[b] \/ attempts'[b] = [attempts[b] EXCEPT !.pc = "done"]
            /\ attempts[b] \in [pc : {"idle", "timer", "pending", "done"}, retry : Nat, mount : 0..MaxMounts]
            /\ attempts[b].mount <= mount
      BY <1>10 DEF cancelConnect, SessionInv, SessionTypeOK
    <3>2. \A b \in Attempts :
            /\ attempts'[b] \in [pc : {"idle", "timer", "pending", "done"}, retry : Nat, mount : 0..MaxMounts]
            /\ attempts'[b].mount <= mount
      BY <3>1
    <3>3. attempts' = [b \in Attempts |-> attempts'[b]]
      BY <1>10 DEF cancelConnect
    <3> QED  BY <3>2, <3>3
  <2> QED
    BY <1>2, <1>10, <2>1, <2>2 DEF cancelConnect, SessionInv, SessionTypeOK
<1>11. ASSUME NEW a \in Attempts, disconnect(a) PROVE SessionInv'
  <2>1. refs' \in [Mounts -> [controller : 0..MaxAttempts, source : 0..MaxAttempts]]
    BY <1>0, <1>11 DEF disconnect, SessionInv, None
  <2>2. leaving' \in [Attempts -> 0..MaxDisconnects] /\ leaving'[a] # 0
    BY <1>11 DEF disconnect, SessionInv, SessionTypeOK
  <2> QED
    BY <1>11, <2>1, <2>2 DEF disconnect, SessionInv, SessionTypeOK, ConnectedIsWatched, ConnectingIsPending
<1>12. ASSUME NEW a \in Attempts, Disconnected(a) PROVE SessionInv'
  <2>1. leaving' \in [Attempts -> 0..MaxDisconnects] /\ peers' \in [Attempts -> {"none", "open", "closed"}]
    BY <1>12 DEF Disconnected, SessionInv, SessionTypeOK
  <2> QED
    BY <1>2, <1>12, <2>1 DEF Disconnected, SessionInv, SessionTypeOK
<1>13. ASSUME closeTab PROVE SessionInv'
  <2>1. peers' \in [Attempts -> {"none", "open", "closed"}]
    BY <1>13 DEF closeTab, SessionInv, SessionTypeOK
  <2> QED
    BY <1>0, <1>13, <2>1 DEF closeTab, closeWsSession, None, SessionInv, SessionTypeOK, ConnectedIsWatched,
       ConnectingIsPending
<1>14. ASSUME NEW a \in Attempts, CloseEvent(a) \/ FailedEvent(a) PROVE SessionInv'
  <2>0. SourceCloses(a)
    BY <1>14 DEF CloseEvent, FailedEvent
  <2>1. refs' \in [Mounts -> [controller : 0..MaxAttempts, source : 0..MaxAttempts]]
    BY <1>0, <2>0 DEF SourceCloses, SessionInv, None
  <2>2. /\ attempts' \in [Attempts -> [pc : {"idle", "timer", "pending", "done"}, retry : Nat,
                                       mount : 0..MaxMounts]]
        /\ \A b \in Attempts : attempts'[b].mount <= mount
    <3>1. WithTimer(attempts, 1, attempts[a].mount)
      BY <2>0 DEF SourceCloses
    <3> QED  BY <1>3, <1>4, <3>1 DEF SessionInv, SessionTypeOK
  <2> QED
    BY <1>2, <2>0, <2>1, <2>2 DEF SourceCloses, SessionInv, SessionTypeOK
<1>15. ASSUME Remount PROVE SessionInv'
  <2>1. mount' = mount + 1 /\ mount' \in Mounts /\ sources' \subseteq Attempts
    BY <1>15 DEF Remount, SessionInv, SessionTypeOK, Mounts
  <2>2. \A a \in Attempts : attempts[a].mount <= mount /\ attempts[a].mount \in Nat /\ mount \in Nat
    BY DEF SessionInv, SessionTypeOK, Mounts
  <2>3. \A a \in Attempts : attempts[a].mount <= mount' /\ attempts[a].mount # mount'
    BY <2>1, <2>2
  <2>4. ConnectedIsWatched' /\ ConnectingIsPending'
    <3>1. session.state = "connected" /\ (\A b \in Attempts : leaving[b] = 0)
            => session.connectionId \in Attempts
      BY DEF SessionInv, ConnectedIsWatched
    <3> QED
      BY <1>15, <2>3, <3>1 DEF Remount, SessionInv, ConnectedIsWatched, ConnectingIsPending
  <2> QED
    BY <1>15, <2>1, <2>3, <2>4 DEF Remount, SessionInv, SessionTypeOK
<1>16. CASE UNCHANGED sessionVars
  BY <1>16 DEF sessionVars, SessionInv, SessionTypeOK, ConnectedIsWatched, ConnectingIsPending
<1> QED
  BY <1>5, <1>6, <1>7, <1>8, <1>9, <1>10, <1>11, <1>12, <1>13, <1>14, <1>15, <1>16 DEF SessionNext, SessionStep

(***************************************************************************)
(* The GraphQL subscription.  Frames reach the page through a poll that    *)
(* may be of an older subscription; the shown data is reset with subId and *)
(* grows only by frames that carry it.                                     *)
(***************************************************************************)
GqlRec ==
  [state : {"over", "connecting", "subscribed"}, connId : 0..MaxSubs, pollRef : 0..MaxSubs,
   subId : 0..MaxSubs, ack : BOOLEAN, shown : SUBSET (0..MaxSubs), intervals : SUBSET Subs,
   terminating : [Subs -> Int], leaving : [0..MaxSubs -> Int]]
FrameRec == [type : {"connection_ack", "next", "end"}, id : 0..MaxSubs]
PollRec  == [pc : {"idle", "asked", "frames", "subscribing"}, id : 0..MaxSubs,
             frames : Seq(FrameRec), subId : 0..MaxSubs]
LinkRec  == [state : {"none", "open", "closed"}, told : SUBSET (0..MaxSubs), frames : Seq(FrameRec)]

GqlInv ==
  /\ gql \in GqlRec
  /\ subs \in [Subs -> {"idle", "connecting", "init", "polling", "failed"}]
  /\ polls \in [Polls -> PollRec]
  /\ links \in [Subs -> LinkRec]
  /\ \A p \in Polls : polls[p].pc # "idle" => polls[p].id \in Subs
  /\ ShownDataIsCurrent

\* Nothing is shown and no poll is under way at first.
LEMMA GqlInitially == GqlInit => GqlInv
<1> SUFFICES ASSUME GqlInit PROVE GqlInv
  OBVIOUS
<1> USE SubscriptionAssumption DEF GqlInit
<1>1. gql \in GqlRec
  BY DEF GqlRec, Subs
<1>2. <<>> \in Seq(FrameRec)
  OBVIOUS
<1>3. polls \in [Polls -> PollRec] /\ \A p \in Polls : polls[p].pc = "idle"
  BY <1>2 DEF PollRec, IdlePoll
<1>4. links \in [Subs -> LinkRec]
  BY <1>2 DEF LinkRec
<1> QED
  BY <1>1, <1>3, <1>4 DEF GqlInv, ShownDataIsCurrent

\* What ends a subscription: it shows nothing else.
LEMMA Terminates ==
  ASSUME NEW g \in GqlRec, NEW c \in 0..MaxSubs
  PROVE  /\ stopPolling(g) \in GqlRec /\ stopPolling(g).shown = g.shown /\ stopPolling(g).subId = g.subId
         /\ terminate(g, c) \in GqlRec /\ terminate(g, c).shown = g.shown /\ terminate(g, c).subId = g.subId
<1> USE SubscriptionAssumption
<1>1. /\ stopPolling(g) \in GqlRec /\ stopPolling(g).shown = g.shown /\ stopPolling(g).subId = g.subId
  <2> DEFINE h == [g EXCEPT !.intervals = g.intervals \ {g.pollRef}]
  <2>1. h \in GqlRec /\ h.shown = g.shown /\ h.subId = g.subId
    BY DEF GqlRec
  <2>2. stopPolling(g) = [h EXCEPT !.pollRef = 0]
    BY DEF stopPolling
  <2>3. 0 \in 0..MaxSubs
    OBVIOUS
  <2> HIDE DEF h
  <2> QED
    BY <2>1, <2>2, <2>3 DEF GqlRec
<1>2. CASE c = 0
  <2> HIDE DEF GqlRec
  <2>1. terminate(g, c) = [stopPolling(g) EXCEPT !.state = "over"]
    BY <1>2 DEF terminate
  <2> QED
    BY <1>1, <2>1 DEF GqlRec
<1>3. CASE c # 0
  <2> DEFINE h == stopPolling(g)
  <2>1. terminate(g, c) = [h EXCEPT !.terminating = [h.terminating EXCEPT ![c] = h.terminating[c] + 1]]
    BY <1>3 DEF terminate
  <2>2. h.terminating \in [Subs -> Int] /\ c \in Subs
    BY <1>1, <1>3 DEF GqlRec, Subs
  <2>3. [h.terminating EXCEPT ![c] = h.terminating[c] + 1] \in [Subs -> Int]
    BY <2>2
  <2> HIDE DEF h
  <2> QED
    BY <1>1, <2>1, <2>3 DEF GqlRec, h
<1> QED
  BY <1>1, <1>2, <1>3

\* A frame of any connection adds only what is of the subscription asked for.
LEMMA Handled ==
  ASSUME NEW g \in GqlRec, NEW c \in 0..MaxSubs, NEW frame \in FrameRec, g.shown \subseteq {g.subId}
  PROVE  FrameHandled(g, c, frame) \in GqlRec
         /\ FrameHandled(g, c, frame).shown \subseteq {FrameHandled(g, c, frame).subId}
<1>1. CASE frame.type = "connection_ack"
  BY <1>1 DEF FrameHandled, GqlRec
<1>2. CASE frame.type = "next" /\ frame.id = g.subId
  BY <1>2 DEF FrameHandled, GqlRec, FrameRec
<1>3. CASE frame.type = "end" /\ frame.id = g.subId
  BY <1>3, Terminates DEF FrameHandled
<1>4. CASE frame.type \in {"next", "end"} /\ frame.id # g.subId
  BY <1>4 DEF FrameHandled
<1> QED
  BY <1>1, <1>2, <1>3, <1>4 DEF FrameRec

\* Each subscription, poll, tick, answer and frame keeps it.
LEMMA GqlKept ==
  ASSUME GqlInv, [GqlNext]_gqlVars
  PROVE  GqlInv'
<1> USE SubscriptionAssumption
<1>0. /\ gql \in GqlRec /\ gql.shown \subseteq {gql.subId} /\ Subs \subseteq 0..MaxSubs /\ 0 \in 0..MaxSubs
      /\ gql.connId \in 0..MaxSubs /\ polls \in [Polls -> PollRec] /\ links \in [Subs -> LinkRec]
  BY SMTT(30) DEF GqlInv, GqlRec, Subs, ShownDataIsCurrent
<1>1. ASSUME NEW s \in Subs, subscribe(s) PROVE GqlInv'
  <2> DEFINE g1 == [gql EXCEPT !.state = "connecting"]
             g2 == [g1 EXCEPT !.shown = {}]
             g3 == [g2 EXCEPT !.ack = FALSE]
  <2>1. g1 \in GqlRec
    BY <1>0 DEF GqlRec
  <2>2. g2 \in GqlRec /\ g2.shown = {}
    <3> HIDE DEF g1
    <3> QED  BY <2>1 DEF GqlRec
  <2>3. g3 \in GqlRec /\ g3.shown = {}
    <3> HIDE DEF g2
    <3> QED  BY <2>2 DEF GqlRec
  <2>4. gql' = [g3 EXCEPT !.subId = s]
    BY <1>1 DEF subscribe
  <2>5. gql' \in GqlRec /\ gql'.shown = {}
    <3> HIDE DEF g3
    <3> QED  BY <1>0, <2>3, <2>4 DEF GqlRec
  <2> QED
    BY <1>1, <2>5 DEF subscribe, GqlInv, ShownDataIsCurrent
<1>2. ASSUME NEW s \in Subs, SubConnected(s) PROVE GqlInv'
  <2>1. gql' \in GqlRec /\ gql'.shown = gql.shown /\ gql'.subId = gql.subId
    BY <1>0, <1>2 DEF SubConnected, GqlRec
  <2>2. links' \in [Subs -> LinkRec]
    BY <1>0, <1>2 DEF SubConnected, LinkRec
  <2> QED
    BY <1>2, <2>1, <2>2 DEF SubConnected, GqlInv, ShownDataIsCurrent
<1>3. ASSUME NEW s \in Subs, SubPolls(s) PROVE GqlInv'
  <2>1. gql' \in GqlRec /\ gql'.shown = gql.shown /\ gql'.subId = gql.subId
    <3> DEFINE h == [gql EXCEPT !.pollRef = s]
    <3>1. h \in GqlRec /\ h.shown = gql.shown /\ h.subId = gql.subId /\ h.intervals = gql.intervals
      BY <1>0 DEF GqlRec
    <3>2. gql' = [h EXCEPT !.intervals = gql.intervals \union {s}]
      BY <1>3 DEF SubPolls
    <3> HIDE DEF h
    <3> QED  BY <1>0, <3>1, <3>2 DEF GqlRec
  <2>2. links' \in [Subs -> LinkRec]
    BY <1>0, <1>3 DEF SubPolls, LinkRec
  <2> QED
    BY <1>3, <2>1, <2>2 DEF SubPolls, GqlInv, ShownDataIsCurrent
<1>4. ASSUME NEW s \in Subs, SubFails(s) PROVE GqlInv'
  BY <1>0, <1>4, Terminates DEF SubFails, GqlInv, ShownDataIsCurrent
<1>5. ASSUME NEW s \in Subs, Unsubscribed(s) PROVE GqlInv'
  <2> DEFINE h == terminate(gql, s)
  <2>1. h \in GqlRec /\ h.shown = gql.shown /\ h.subId = gql.subId
    BY <1>0, Terminates
  <2>2. gql' = [h EXCEPT !.leaving = [h.leaving EXCEPT ![s] = h.leaving[s] - 1]]
    BY <1>5 DEF Unsubscribed
  <2> HIDE DEF h
  <2>3. gql' \in GqlRec /\ gql'.shown = gql.shown /\ gql'.subId = gql.subId
    <3>1. h.leaving \in [0..MaxSubs -> Int] /\ s \in 0..MaxSubs
      BY <1>0, <2>1 DEF GqlRec
    <3>2. [h.leaving EXCEPT ![s] = h.leaving[s] - 1] \in [0..MaxSubs -> Int]
      BY <3>1
    <3> QED  BY <2>1, <2>2, <3>2 DEF GqlRec
  <2>4. links' \in [Subs -> LinkRec]
    BY <1>0, <1>5 DEF Unsubscribed, LinkRec
  <2> QED
    BY <1>5, <2>3, <2>4 DEF Unsubscribed, GqlInv, ShownDataIsCurrent
<1>6. ASSUME NEW s \in Subs, Terminated(s) PROVE GqlInv'
  <2> DEFINE g1 == [gql EXCEPT !.terminating = [gql.terminating EXCEPT ![s] = gql.terminating[s] - 1]]
             g2 == [g1 EXCEPT !.connId = 0]
  <2>1. g1 \in GqlRec /\ g1.shown = gql.shown /\ g1.subId = gql.subId
    <3>1. gql.terminating \in [Subs -> Int]
      BY <1>0 DEF GqlRec
    <3>2. [gql.terminating EXCEPT ![s] = gql.terminating[s] - 1] \in [Subs -> Int]
      BY <3>1
    <3> QED  BY <1>0, <3>2 DEF GqlRec
  <2>2. g2 \in GqlRec /\ g2.shown = gql.shown /\ g2.subId = gql.subId
    <3> HIDE DEF g1
    <3> QED  BY <1>0, <2>1 DEF GqlRec
  <2>3. gql' = [g2 EXCEPT !.state = "over"]
    BY <1>6 DEF Terminated
  <2>4. gql' \in GqlRec /\ gql'.shown = gql.shown /\ gql'.subId = gql.subId
    <3> HIDE DEF g2
    <3> QED  BY <2>2, <2>3 DEF GqlRec
  <2>5. links' \in [Subs -> LinkRec]
    <3>1. Closed \in LinkRec
      BY DEF Closed, LinkRec
    <3> QED  BY <1>0, <1>6, <3>1 DEF Terminated
  <2> QED
    BY <1>6, <2>4, <2>5 DEF Terminated, GqlInv, ShownDataIsCurrent
<1>7. ASSUME NEW s \in Subs, TargetCloses(s) PROVE GqlInv'
  <2>1. Closed \in LinkRec
    BY DEF Closed, LinkRec
  <2> QED
    BY <1>0, <1>7, <2>1 DEF TargetCloses, GqlInv, ShownDataIsCurrent
<1>8. ASSUME NEW s \in Subs, NEW p \in Polls, Tick(s, p) PROVE GqlInv'
  <2>1. CASE gql' = stopPolling(gql) /\ UNCHANGED polls
    BY <1>0, <1>8, <2>1, Terminates DEF Tick, GqlInv, ShownDataIsCurrent
  <2>2. CASE gql.connId # 0 /\ polls' = [polls EXCEPT ![p].pc = "asked", ![p].id = gql.connId] /\ UNCHANGED gql
    <3> DEFINE ps == [polls EXCEPT ![p] = [polls[p] EXCEPT !.pc = "asked"]]
    <3>1. ps \in [Polls -> PollRec]
      BY <1>0 DEF PollRec
    <3>2. polls' = [ps EXCEPT ![p] = [ps[p] EXCEPT !.id = gql.connId]]
      BY <2>2
    <3>3. \A q \in Polls : q # p => ps[q] = polls[q]
      OBVIOUS
    <3> HIDE DEF ps
    <3>4. polls' \in [Polls -> PollRec] /\ polls'[p].id = gql.connId /\ (\A q \in Polls : q # p => polls'[q] = polls[q])
      BY <1>0, <3>1, <3>2, <3>3 DEF PollRec
    <3>5. gql.connId \in Subs
      BY <1>0, <2>2 DEF Subs
    <3> QED
      BY <1>8, <2>2, <3>4, <3>5 DEF Tick, GqlInv, ShownDataIsCurrent
  <2> QED
    BY <1>8, <2>1, <2>2 DEF Tick
<1>9. ASSUME NEW s \in Subs, NEW frame \in FrameRec, TargetSends(s, frame) PROVE GqlInv'
  <2> DEFINE ls == [links EXCEPT ![s] = [links[s] EXCEPT !.frames = Append(links[s].frames, frame)]]
  <2>1. ls \in [Subs -> LinkRec]
    <3>1. links[s] \in LinkRec /\ links[s].frames \in Seq(FrameRec)
      BY <1>0 DEF LinkRec
    <3>2. Append(links[s].frames, frame) \in Seq(FrameRec)
      BY <3>1
    <3>3. [links[s] EXCEPT !.frames = Append(links[s].frames, frame)] \in LinkRec
      BY <3>1, <3>2 DEF LinkRec
    <3> QED  BY <1>0, <3>3
  <2>2. links' = [ls EXCEPT ![s] = [ls[s] EXCEPT !.told = IF frame.type = "next" THEN ls[s].told
                                                         ELSE ls[s].told \ {frame.id}]]
    BY <1>9 DEF TargetSends
  <2> HIDE DEF ls
  <2>3. links' \in [Subs -> LinkRec]
    BY <2>1, <2>2 DEF LinkRec
  <2> QED
    BY <1>9, <2>3 DEF TargetSends, GqlInv, ShownDataIsCurrent
<1>10. ASSUME NEW p \in Polls, PollFails(p) \/ PollEnds(p) PROVE GqlInv'
  <2>1. IdlePoll \in PollRec /\ IdlePoll.pc = "idle"
    BY DEF IdlePoll, PollRec
  <2> QED
    BY <1>0, <1>10, <2>1 DEF PollFails, PollEnds, GqlInv, ShownDataIsCurrent
<1>11. ASSUME NEW p \in Polls, PollAnswered(p) PROVE GqlInv'
  <2> DEFINE link == links[polls[p].id]
  <2>0. polls[p].id \in Subs /\ link \in LinkRec
    BY <1>0, <1>11 DEF PollAnswered, GqlInv
  <2>1. links' \in [Subs -> LinkRec]
    <3>0. <<>> \in Seq(FrameRec)
      OBVIOUS
    <3>1. [link EXCEPT !.frames = <<>>] \in LinkRec
      BY <2>0, <3>0 DEF LinkRec
    <3>2. links' = [links EXCEPT ![polls[p].id] = [link EXCEPT !.frames = <<>>]]
      BY <1>11 DEF PollAnswered
    <3> HIDE DEF link
    <3> QED  BY <1>0, <3>1, <3>2
  <2>2. CASE polls' = [polls EXCEPT ![p].pc = "frames", ![p].frames = link.frames] /\ UNCHANGED gql
    <3> DEFINE ps == [polls EXCEPT ![p] = [polls[p] EXCEPT !.pc = "frames"]]
    <3>1. ps \in [Polls -> PollRec] /\ ps[p].id = polls[p].id
      BY <1>0 DEF PollRec
    <3>2. polls' = [ps EXCEPT ![p] = [ps[p] EXCEPT !.frames = link.frames]]
      BY <2>2
    <3>3. \A q \in Polls : q # p => ps[q] = polls[q]
      OBVIOUS
    <3> HIDE DEF ps
    <3>4. polls' \in [Polls -> PollRec] /\ polls'[p].id = polls[p].id /\ (\A q \in Polls : q # p => polls'[q] = polls[q])
      BY <2>0, <3>1, <3>2, <3>3 DEF PollRec, LinkRec
    <3> QED
      BY <1>11, <2>0, <2>1, <2>2, <3>4 DEF PollAnswered, GqlInv, ShownDataIsCurrent
  <2>3. CASE polls' = [polls EXCEPT ![p] = IdlePoll] /\ gql' = terminate(gql, 0)
    <3>1. IdlePoll \in PollRec /\ IdlePoll.pc = "idle"
      BY <1>0 DEF IdlePoll, PollRec
    <3> QED
      BY <1>0, <1>11, <2>1, <2>3, <3>1, Terminates DEF PollAnswered, GqlInv, ShownDataIsCurrent
  <2> QED
    BY <1>11, <2>2, <2>3 DEF PollAnswered
<1>12. ASSUME NEW p \in Polls, handleFrame(p) PROVE GqlInv'
  <2> DEFINE frame == Head(polls[p].frames)
             rest == [polls[p] EXCEPT !.frames = Tail(polls[p].frames)]
  <2>0. UNCHANGED <<subs, links>>
    BY <1>12 DEF handleFrame
  <2>1. frame \in FrameRec /\ rest \in PollRec /\ polls[p].id \in Subs /\ polls[p].id \in 0..MaxSubs
        /\ rest.id = polls[p].id
    <3>1. polls[p].frames \in Seq(FrameRec) /\ polls[p].frames # <<>> /\ polls[p].pc = "frames"
      BY <1>0, <1>12 DEF handleFrame, PollRec
    <3>2. frame \in FrameRec /\ Tail(polls[p].frames) \in Seq(FrameRec)
      BY <3>1
    <3> QED
      BY <1>0, <3>1, <3>2 DEF PollRec, GqlInv
  <2>2. gql' = FrameHandled(gql, polls[p].id, frame)
    BY <1>12 DEF handleFrame
  <2>3. gql' \in GqlRec /\ gql'.shown \subseteq {gql'.subId}
    BY <1>0, <2>1, <2>2, Handled
  <2>4. gql.subId \in 0..MaxSubs
    BY <1>0 DEF GqlRec
  <2> HIDE DEF rest, frame
  <2>5. CASE polls' = [polls EXCEPT ![p] = rest]
    <3>1. \A q \in Polls : polls'[q] = IF q = p THEN rest ELSE polls[q]
      BY <1>0, <2>5
    <3>2. polls' \in [Polls -> PollRec]
      BY <1>0, <2>1, <2>5
    <3> QED
      BY <1>0, <2>0, <2>1, <2>3, <3>1, <3>2 DEF GqlInv, ShownDataIsCurrent
  <2>6. CASE polls' = [polls EXCEPT ![p] = [rest EXCEPT !.pc = "subscribing", !.subId = gql.subId]]
    <3> DEFINE r1 == [rest EXCEPT !.pc = "subscribing"]
               r2 == [r1 EXCEPT !.subId = gql.subId]
    <3>1. r1 \in PollRec /\ r1.id = polls[p].id
      BY <2>1 DEF PollRec
    <3>2. r2 \in PollRec /\ r2.id = polls[p].id
      <4> HIDE DEF r1
      <4> QED  BY <2>4, <3>1 DEF PollRec
    <3>3. polls' = [polls EXCEPT ![p] = r2]
      BY <2>6
    <3> HIDE DEF r2
    <3>4. \A q \in Polls : polls'[q] = IF q = p THEN r2 ELSE polls[q]
      BY <1>0, <3>3
    <3>5. polls' \in [Polls -> PollRec]
      BY <1>0, <3>2, <3>3
    <3> QED
      BY <1>0, <2>0, <2>1, <2>3, <3>2, <3>4, <3>5 DEF GqlInv, ShownDataIsCurrent
  <2> QED
    BY <1>12, <2>5, <2>6 DEF handleFrame, rest, frame
<1>13. ASSUME NEW p \in Polls, Subscribed(p) PROVE GqlInv'
  <2>1. polls[p].id \in Subs /\ polls[p].subId \in 0..MaxSubs
    BY <1>0, <1>13 DEF Subscribed, GqlInv, PollRec
  <2>2. gql' \in GqlRec /\ gql'.shown = gql.shown /\ gql'.subId = gql.subId
    BY <1>0, <1>13 DEF Subscribed, GqlRec
  <2>3. links' \in [Subs -> LinkRec]
    BY <1>0, <1>13, <2>1 DEF Subscribed, LinkRec
  <2> DEFINE ps == [polls EXCEPT ![p] = [polls[p] EXCEPT !.pc = "frames"]]
  <2>4. ps \in [Polls -> PollRec] /\ ps[p].id = polls[p].id
    BY <1>0 DEF PollRec
  <2>5. polls' = [ps EXCEPT ![p] = [ps[p] EXCEPT !.subId = 0]]
    BY <1>13 DEF Subscribed
  <2>6. \A q \in Polls : q # p => ps[q] = polls[q]
    OBVIOUS
  <2> HIDE DEF ps
  <2>7. polls' \in [Polls -> PollRec] /\ polls'[p].id = polls[p].id /\ (\A q \in Polls : q # p => polls'[q] = polls[q])
    BY <1>0, <2>4, <2>5, <2>6 DEF PollRec
  <2> QED
    BY <1>13, <2>1, <2>2, <2>3, <2>7 DEF Subscribed, GqlInv, ShownDataIsCurrent
<1>14. ASSUME unsubscribe PROVE GqlInv'
  <2>1. CASE gql' = terminate(gql, 0)
    BY <1>0, <1>14, <2>1, Terminates DEF unsubscribe, GqlInv, ShownDataIsCurrent
  <2>2. CASE gql' = [gql EXCEPT !.leaving = [gql.leaving EXCEPT ![gql.connId] = gql.leaving[gql.connId] + 1]]
    <3>1. gql' \in GqlRec /\ gql'.shown = gql.shown /\ gql'.subId = gql.subId
      <4>1. gql.leaving \in [0..MaxSubs -> Int]
        BY <1>0 DEF GqlRec
      <4>2. [gql.leaving EXCEPT ![gql.connId] = gql.leaving[gql.connId] + 1] \in [0..MaxSubs -> Int]
        BY <1>0, <4>1
      <4> QED  BY <1>0, <2>2, <4>2 DEF GqlRec
    <3> QED
      BY <1>14, <3>1 DEF unsubscribe, GqlInv, ShownDataIsCurrent
  <2> QED
    BY <1>14, <2>1, <2>2 DEF unsubscribe
<1>15. ASSUME clearMessages PROVE GqlInv'
  <2>1. gql' \in GqlRec /\ gql'.shown = {}
    BY <1>0, <1>15 DEF clearMessages, GqlRec
  <2> QED
    BY <1>15, <2>1 DEF clearMessages, GqlInv, ShownDataIsCurrent
<1>16. CASE UNCHANGED gqlVars
  BY <1>16 DEF gqlVars, GqlInv, ShownDataIsCurrent
<1>17. /\ Frame("connection_ack", 0) \in FrameRec
       /\ \A type \in {"next", "end"}, id \in Subs : Frame(type, id) \in FrameRec
  BY <1>0 DEF Frame, FrameRec
<1> QED
  BY <1>1, <1>2, <1>3, <1>4, <1>5, <1>6, <1>7, <1>8, <1>9, <1>10, <1>11, <1>12, <1>13, <1>14, <1>15, <1>16, <1>17
     DEF GqlNext, PollStep

(***************************************************************************)
(* The parts share no state, so that each step of the page is a step of    *)
(* one of them and leaves the others alone.                                *)
(***************************************************************************)
\* Each part begins in an initial state of its own.
LEMMA PartsInitially == MCInit => Init /\ SessionInit /\ GqlInit
BY DEF MCInit

\* Each step is a step of one part.
LEMMA PartsStep ==
  [MCNext]_<<vars, sessionVars, gqlVars, area>>
    => [Next]_vars /\ [SessionNext]_sessionVars /\ [GqlNext]_gqlVars
<1> SUFFICES ASSUME [MCNext]_<<vars, sessionVars, gqlVars, area>>
             PROVE  [Next]_vars /\ [SessionNext]_sessionVars /\ [GqlNext]_gqlVars
  OBVIOUS
<1>1. CASE Next /\ UNCHANGED <<sessionVars, gqlVars>>
  BY <1>1
<1>2. CASE SessionNext /\ UNCHANGED <<vars, gqlVars>>
  BY <1>2
<1>3. CASE GqlNext /\ UNCHANGED <<vars, sessionVars>>
  BY <1>3
<1>4. CASE UNCHANGED <<vars, sessionVars, gqlVars>>
  BY <1>4
<1> QED
  BY <1>1, <1>2, <1>3, <1>4 DEF MCNext

\* The types that the run checks.
LEMMA GqlTyped == GqlInv => GqlTypeOK
<1>1. gql \in GqlRec => /\ gql.state \in {"over", "connecting", "subscribed"}
                        /\ gql.connId \in 0..MaxSubs /\ gql.pollRef \in 0..MaxSubs
                        /\ gql.intervals \subseteq Subs
  BY DEF GqlRec
<1>2. ASSUME polls \in [Polls -> PollRec], NEW p \in Polls
      PROVE  polls[p].pc \in {"idle", "asked", "frames", "subscribing"}
  BY <1>2 DEF PollRec
<1> QED
  BY <1>1, <1>2 DEF GqlInv, GqlTypeOK

\* A session that is shown as connected has its event source open and will be
\* closed by Disconnect, one shown as connecting has an attempt under way, and
\* the data shown is of the subscription asked for last (useWebSocketSession,
\* useGraphQLSubscription).
THEOREM ShownIsFollowed == MCSpec => []SessionsAreFollowed
<1>1. SessionInv /\ GqlInv => SessionsAreFollowed
  BY GqlTyped DEF SessionInv, GqlInv, SessionsAreFollowed
<1> QED
  BY <1>1, PartsInitially, PartsStep, SessionInitially, SessionKept, GqlInitially, GqlKept, PTL DEF MCSpec
=============================================================================
