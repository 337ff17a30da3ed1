------------------------------ MODULE OAuth2Flow ------------------------------
(***************************************************************************)
(* The OAuth2 authorization-code flow of the server.  authCodeStart stores *)
(* a pending entry under a fresh state; the provider redirects the browser *)
(* to the callback, which reads the entry, awaits the token exchange and   *)
(* writes the outcome back; the client polls for it.                       *)
(*                                                                         *)
(* Every access to the store is one atomic update of a Ref, and a fiber    *)
(* gives way only where it awaits the token endpoint, so that is the one   *)
(* place where a callback is interleaved with others and with polls.       *)
(* Requests that find no entry answer 400 or 404 and are not actions, and  *)
(* neither is a poll that finds the entry pending.                         *)
(***************************************************************************)
EXTENDS Integers, FiniteSets

CONSTANTS
  Flows,        \* state parameters; every start draws a fresh one
  Codes,        \* authorization codes that the provider issues for a flow
  Callbacks,    \* callback requests that are handled concurrently
  NoFlow,       \* what an idle callback handler works on
  NoCode,       \* and which code it has
  MaxCallbacks  \* bound: callbacks that arrive for one flow

ASSUME FlowsAssumption ==
  /\ NoFlow \notin Flows
  /\ IsFiniteSet(Codes) /\ NoCode \notin Codes
  /\ MaxCallbacks \in Nat

VARIABLES
  store,     \* OAuth2Store's map: what is kept under a state, if anything
  callback,  \* the callback handlers that await the token endpoint
  redeemed,  \* external: the codes for which the provider granted a token
  arrived,   \* auxiliary: callbacks that found the flow's entry
  written,   \* auxiliary: outcomes that callbacks wrote
  tokens,    \* auxiliary: polls that returned a token
  errors,    \* auxiliary: polls that returned an error
  unread     \* auxiliary: the token endpoint's answer was not JSON

history == <<redeemed, arrived, written, tokens, errors, unread>>
vars    == <<store, callback, history>>

Terminal == {"done", "error"}
Entries  == {"pending"} \union Terminal
Idle     == [flow |-> NoFlow, code |-> NoCode, tokenUrl |-> FALSE]

Init ==
  /\ store    = [s \in Flows |-> "unused"]
  /\ callback = [c \in Callbacks |-> Idle]
  /\ redeemed = [s \in Flows |-> {}]
  /\ arrived  = [s \in Flows |-> 0]
  /\ written  = [s \in Flows |-> 0]
  /\ tokens   = [s \in Flows |-> 0]
  /\ errors   = [s \in Flows |-> 0]
  /\ unread   = [s \in Flows |-> FALSE]

\* Mutant: the status of the input, which is spread last, replaces "pending".
authCodeStart_Spread(s) ==
  /\ store[s] = "unused"
  /\ store' = [store EXCEPT ![s] = "input"]
  /\ UNCHANGED <<callback, history>>

authCodeStart(s) ==
  /\ store[s] = "unused"
  /\ store' = [store EXCEPT ![s] = "pending"]
  /\ UNCHANGED <<callback, history>>

\* store.set(state, ...) with an outcome.
Write(s, outcome) ==
  /\ store' = [store EXCEPT ![s] = outcome]
  /\ written' = [written EXCEPT ![s] = @ + 1]

Arrive(s) ==
  /\ store[s] \in Entries
  /\ arrived[s] < MaxCallbacks
  /\ arrived' = [arrived EXCEPT ![s] = @ + 1]

\* The provider reports an error, or sends no code.
CallbackRefused(s) ==
  /\ Arrive(s)
  /\ Write(s, "error")
  /\ UNCHANGED <<callback, redeemed, tokens, errors, unread>>

\* The provider sends a code: the same one when the browser repeats a request,
\* another one when the user consents again in the provider's window.  Only an
\* entry that is still pending names a token endpoint; the outcome that replaces
\* it does not.
CallbackCode(c, s, code) ==
  /\ callback[c] = Idle
  /\ Arrive(s)
  /\ callback' = [callback EXCEPT ![c] =
                  [flow |-> s, code |-> code, tokenUrl |-> store[s] = "pending"]]
  /\ UNCHANGED <<store, redeemed, written, tokens, errors, unread>>

Finish(c) ==
  /\ callback[c] # Idle
  /\ callback' = [callback EXCEPT ![c] = Idle]

\* External: a provider redeems a code once.
Redeem(s, code) ==
  /\ code \notin redeemed[s]
  /\ redeemed' = [redeemed EXCEPT ![s] = @ \union {code}]

\* The request fails (it always does without an endpoint), perhaps after the
\* provider accepted the code.
ExchangeFails(c) ==
  LET s == callback[c].flow
  IN  /\ Finish(c)
      /\ Write(s, "error")
      /\ \/ UNCHANGED redeemed
         \/ callback[c].tokenUrl /\ Redeem(s, callback[c].code)
      /\ UNCHANGED <<arrived, tokens, errors, unread>>

\* Mutant: the status of the answer is not looked at.
ExchangeRejected_Ignored(c) ==
  LET s == callback[c].flow
  IN  /\ Finish(c)
      /\ callback[c].tokenUrl
      /\ Write(s, "done")
      /\ UNCHANGED <<redeemed, arrived, tokens, errors, unread>>

ExchangeRejected(c) ==
  LET s == callback[c].flow
  IN  /\ Finish(c)
      /\ callback[c].tokenUrl
      /\ Write(s, "error")
      /\ UNCHANGED <<redeemed, arrived, tokens, errors, unread>>

ExchangeGranted(c) ==
  LET s == callback[c].flow
  IN  /\ Finish(c)
      /\ callback[c].tokenUrl
      /\ Redeem(s, callback[c].code)
      /\ Write(s, "done")
      /\ UNCHANGED <<arrived, tokens, errors, unread>>

\* JSON.parse throws outside the tryPromise: the handler dies, and the entry
\* stays as it is.
ExchangeUnreadable(c) ==
  LET s == callback[c].flow
  IN  /\ Finish(c)
      /\ callback[c].tokenUrl
      /\ unread' = [unread EXCEPT ![s] = TRUE]
      /\ UNCHANGED <<store, redeemed, arrived, written, tokens, errors>>

Returned(s) ==
  /\ tokens' = [tokens EXCEPT ![s] = @ + IF store[s] = "done" THEN 1 ELSE 0]
  /\ errors' = [errors EXCEPT ![s] = @ + IF store[s] = "error" THEN 1 ELSE 0]

\* Mutant: what is read is not deleted.
getAndDeleteIfTerminal_Kept(s) ==
  /\ store[s] \in Terminal /\ tokens[s] + errors[s] < 2
  /\ Returned(s)
  /\ UNCHANGED <<store, callback, redeemed, arrived, written, unread>>

getAndDeleteIfTerminal(s) ==
  /\ store[s] \in Terminal
  /\ store' = [store EXCEPT ![s] = "absent"]
  /\ Returned(s)
  /\ UNCHANGED <<callback, redeemed, arrived, written, unread>>

Exchange(c) ==
  \/ ExchangeFails(c) \/ ExchangeRejected(c)
  \/ ExchangeGranted(c) \/ ExchangeUnreadable(c)

Next ==
  \/ \E s \in Flows : \/ authCodeStart(s) \/ CallbackRefused(s)
                      \/ getAndDeleteIfTerminal(s)
                      \/ \E c \in Callbacks, code \in Codes : CallbackCode(c, s, code)
  \/ \E c \in Callbacks : Exchange(c)

Spec == Init /\ [][Next]_vars

(***************************************************************************)
(* Fairness: fetch gives up on an endpoint that does not answer.  Nothing  *)
(* makes a user authorize, or a client poll.                               *)
(***************************************************************************)
Fairness == \A c \in Callbacks : WF_vars(Exchange(c))

FairSpec == Spec /\ Fairness

-----------------------------------------------------------------------------
(* Properties.                                                             *)

\* Every variable has its type.
TypeOK ==
  /\ store \in [Flows -> {"unused", "absent"} \union Entries]
  /\ callback \in [Callbacks -> [flow : Flows, code : Codes, tokenUrl : BOOLEAN]
                                  \union {Idle}]
  /\ redeemed \in [Flows -> SUBSET Codes] /\ unread \in [Flows -> BOOLEAN]
  /\ arrived \in [Flows -> Nat] /\ written \in [Flows -> Nat]
  /\ tokens \in [Flows -> Nat] /\ errors \in [Flows -> Nat]

Waiting(s, outcome) == IF store[s] = outcome THEN 1 ELSE 0

\* Polls return no more outcomes than callbacks wrote, counting the one that
\* waits: reading an outcome and deleting it is one step, so that two polls
\* never get the same outcome.
OutcomeReadOnce ==
  \A s \in Flows :
    tokens[s] + errors[s] + Waiting(s, "done") + Waiting(s, "error") <= written[s]

\* However many callbacks arrive, and whatever overwrites what, polls return
\* no more tokens than the provider granted, counting one that waits: the
\* callback of a repeated request never makes a token out of a refusal.
TokenOnce ==
  \A s \in Flows :
    tokens[s] + Waiting(s, "done") <= Cardinality(redeemed[s])

\* As long as one callback arrived for a flow, the flow only moves forward:
\* an outcome is not replaced, and an entry that a poll deleted does not come
\* back when the exchange ends.
Progress(a, b) ==
  \/ a = b
  \/ <<a, b>> \in {<<"unused", "pending">>, <<"done", "absent">>, <<"error", "absent">>}
  \/ a = "pending" /\ b \in Terminal
OneCallbackIsFinal ==
  [][\A s \in Flows : arrived'[s] <= 1 => Progress(store[s], store'[s])]_vars

\* A flow whose callback arrived gets an outcome, for the client's next poll,
\* unless the token endpoint answered something that is not JSON.
FlowEnds ==
  \A s \in Flows :
    (arrived[s] > 0) ~> (written[s] > 0 \/ unread[s])
=============================================================================
