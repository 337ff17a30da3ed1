------------------------------ MODULE MockProofs ------------------------------
(***************************************************************************)
(* Proofs about the mock servers and the webhooks, for any numbers of      *)
(* clients, calls, routes, endpoints and deliveries.                       *)
(***************************************************************************)
EXTENDS MCMocks, FiniteSetTheorems, SequenceTheorems, WellFoundedInduction, TLAPS

-----------------------------------------------------------------------------
(* Webhooks.                                                               *)

Validations == Configs \union {NoValidation}
Verdicts == {validateWebhookRequest(c, d) : c \in Validations, d \in Deliveries}
Entry == [delivery : Deliveries, n : Nat, passed : Verdicts]
Save == [id : Hooks \union {NoHook}, config : Validations, pc : {"idle", "waiting", "done", "failed"}]

\* A partial function from the endpoints.
Partial(f, S) == DOMAIN f \subseteq Hooks /\ f \in [DOMAIN f -> S]

WebhookTypes ==
  /\ Partial(hookLogs, Seq(Entry)) /\ Partial(received, Seq(Entry))
  /\ Partial(hookConfigs, Validations) /\ Partial(endpoints, Validations)
  /\ modal \in [id : Hooks \union {NoHook}, validation : Validations, saving : SUBSET Saves]
  /\ saves \in [Saves -> Save] /\ removing \subseteq Hooks
  /\ hookSpent \in [saves : Nat, deliveries : Nat]

\* A log holds the last EntryCap of what was received, the newest first.
Shorter(n) == IF n > EntryCap THEN EntryCap ELSE n
IsLogOf(log, all) ==
  /\ Len(log) = Shorter(Len(all))
  /\ \A i \in 1..Len(log) : log[i] = all[Len(all) - i + 1]

LogsAreKept ==
  /\ DOMAIN hookLogs = DOMAIN received
  /\ \A id \in DOMAIN received : IsLogOf(hookLogs[id], received[id])

\* The page configures an endpoint it has, or one that was deleted under its
\* modal, and a call that is not made saves nothing.
SavesAreOfHooks ==
  /\ modal.id \in undisturbed => modal.id \in DOMAIN endpoints
  /\ \A s \in Saves : saves[s].pc = "idle" <=> saves[s].id = NoHook

\* Of an undisturbed endpoint one call is under way, and the server holds what
\* the page shows, or what the call has just saved.
Agreed(id, held, shown, under, going) ==
  /\ \A s \in Saves : under[s].id = id =>
       /\ id \notin going /\ id \in DOMAIN shown
       /\ \A t \in Saves : under[t].id = id => t = s
       /\ under[s].pc = "done" => id \in DOMAIN held /\ held[id] = under[s].config
  /\ (\A s \in Saves : under[s].id = id => under[s].pc # "done") =>
       /\ id \in DOMAIN shown => Fetch(held, id, NoValidation) = shown[id]
       /\ id \notin DOMAIN shown => id \notin DOMAIN held

UndisturbedAgree == \A id \in undisturbed : Agreed(id, hookConfigs, endpoints, saves, removing)

WebhookInv ==
  /\ WebhookTypes /\ LogsAreKept /\ SavesAreOfHooks
  /\ undisturbed \subseteq Hooks /\ UndisturbedAgree

\* What is fetched from a partial function, or by default.
LEMMA Fetched ==
  ASSUME NEW S, NEW f, Partial(f, S), NEW x, NEW v \in S
  PROVE  Fetch(f, x, v) \in S
BY DEF Partial, Fetch

\* A new entry is put before the log and the oldest one cut off.
LEMMA EntryIsAdded ==
  ASSUME NEW log \in Seq(Entry), NEW all \in Seq(Entry), IsLogOf(log, all), NEW e \in Entry
  PROVE  LET longer == <<e>> \o log
             n == Shorter(Len(longer))
         IN  SubSeq(longer, 1, n) \in Seq(Entry) /\ IsLogOf(SubSeq(longer, 1, n), Append(all, e))
<1> DEFINE longer == <<e>> \o log
           n == Shorter(Len(longer))
           new == SubSeq(longer, 1, n)
           m == Append(all, e)
<1>1. /\ Len(log) \in Nat /\ Len(all) \in Nat /\ EntryCap \in Nat \ {0} /\ Len(log) = Shorter(Len(all))
  BY WebhookAssumption DEF IsLogOf
<1>2. /\ longer \in Seq(Entry) /\ Len(longer) = Len(log) + 1 /\ longer[1] = e
      /\ \A i \in 2..(Len(log) + 1) : longer[i] = log[i - 1]
  BY <1>1
<1>3. /\ Len(m) = Len(all) + 1 /\ m[Len(all) + 1] = e /\ \A i \in 1..Len(all) : m[i] = all[i]
  OBVIOUS
<1> HIDE DEF longer, m
<1>4. n \in Nat /\ n <= Len(longer) /\ n = Shorter(Len(m))
  BY <1>1, <1>2, <1>3 DEF Shorter
<1> HIDE DEF n
<1>5. new \in Seq(Entry) /\ Len(new) = n /\ \A i \in 1..n : new[i] = longer[i]
  BY <1>2, <1>4
<1> HIDE DEF new
<1>6. ASSUME NEW i \in 1..n PROVE new[i] = m[Len(m) - i + 1]
  <2>1. CASE i = 1
    BY <1>1, <1>2, <1>3, <1>4, <1>5, <2>1
  <2>2. CASE i # 1
    <3>1. i - 1 \in 1..Len(log) /\ i \in 2..(Len(log) + 1)
      BY <1>1, <1>2, <1>4, <2>2
    <3>2. log[i - 1] = all[Len(all) - (i - 1) + 1]
      BY <3>1 DEF IsLogOf
    <3>3. Len(all) - (i - 1) + 1 \in 1..Len(all) /\ Len(all) - (i - 1) + 1 = Len(m) - i + 1
      BY <1>1, <1>3, <3>1 DEF Shorter
    <3> QED
      BY <1>2, <1>3, <1>5, <3>1, <3>2, <3>3
  <2> QED
    BY <2>1, <2>2
<1>7. IsLogOf(new, m)
  BY <1>4, <1>5, <1>6 DEF IsLogOf
<1> QED
  BY <1>5, <1>7 DEF new, n, longer, m

\* What an action leaves alone keeps what is said of it.
LEMMA LogsStay ==
  ASSUME WebhookInv, UNCHANGED <<hookLogs, received>>
  PROVE  Partial(hookLogs', Seq(Entry)) /\ Partial(received', Seq(Entry)) /\ LogsAreKept'
BY DEF WebhookInv, WebhookTypes, LogsAreKept

LEMMA AgreedStays ==
  ASSUME WebhookInv, UNCHANGED <<hookConfigs, endpoints, saves, removing>>, undisturbed' \subseteq undisturbed
  PROVE  undisturbed' \subseteq Hooks /\ UndisturbedAgree'
BY DEF WebhookInv, UndisturbedAgree

\* A delivery is received.
LEMMA ReceiveStep ==
  ASSUME WebhookInv, NEW id \in Hooks, NEW d \in Deliveries, webhookReceiver(id, d)
  PROVE  WebhookInv'
<1> DEFINE v == validateWebhookRequest(Fetch(hookConfigs, id, NoValidation), d)
           entry == [delivery |-> d, n |-> hookSpent.deliveries + 1, passed |-> v]
           log == Fetch(hookLogs, id, <<>>)
           all == Fetch(received, id, <<>>)
           longer == <<entry>> \o log
           new == SubSeq(longer, 1, Shorter(Len(longer)))
           more == Append(all, entry)
<1>1. /\ Partial(hookLogs, Seq(Entry)) /\ Partial(received, Seq(Entry)) /\ Partial(hookConfigs, Validations)
      /\ hookSpent \in [saves : Nat, deliveries : Nat] /\ LogsAreKept
  BY DEF WebhookInv, WebhookTypes
<1>2. Fetch(hookConfigs, id, NoValidation) \in Validations
  BY <1>1, Fetched DEF Validations
<1>3. v \in Verdicts
  BY <1>2 DEF Verdicts
<1> HIDE DEF v
<1>4. entry \in Entry
  BY <1>1, <1>3 DEF Entry
<1>5. /\ hookLogs' = Store(hookLogs, id, new) /\ received' = Store(received, id, more)
      /\ UNCHANGED <<hookConfigs, endpoints, modal, saves, removing, undisturbed>>
      /\ hookSpent' \in [saves : Nat, deliveries : Nat]
  BY <1>1 DEF webhookReceiver, appendEntry, Shorter, v
<1> HIDE DEF entry
<1>6. <<>> \in Seq(Entry)
  OBVIOUS
<1>7. log \in Seq(Entry) /\ all \in Seq(Entry)
  BY <1>1, <1>6, Fetched
<1>8. IsLogOf(log, all)
  <2>1. CASE id \in DOMAIN received
    BY <1>1, <2>1 DEF LogsAreKept, Fetch
  <2>2. CASE id \notin DOMAIN received
    <3>1. log = <<>> /\ all = <<>>
      BY <1>1, <2>2 DEF LogsAreKept, Fetch
    <3> QED
      BY <3>1, WebhookAssumption DEF IsLogOf, Shorter
  <2> QED
    BY <2>1, <2>2
<1> HIDE DEF log, all
<1>9. new \in Seq(Entry) /\ IsLogOf(new, more) /\ more \in Seq(Entry)
  <2>1. more \in Seq(Entry)
    BY <1>4, <1>7
  <2>2. new \in Seq(Entry) /\ IsLogOf(new, more)
    BY <1>4, <1>7, <1>8, EntryIsAdded, Zenon
  <2> QED
    BY <2>1, <2>2
<1> HIDE DEF new, more, longer
<1>10. /\ Partial(hookLogs', Seq(Entry)) /\ DOMAIN hookLogs' = DOMAIN hookLogs \union {id}
       /\ hookLogs'[id] = new /\ \A y \in DOMAIN hookLogs : y # id => hookLogs'[y] = hookLogs[y]
  BY <1>1, <1>5, <1>9 DEF Partial, Store
<1>11. /\ Partial(received', Seq(Entry)) /\ DOMAIN received' = DOMAIN received \union {id}
       /\ received'[id] = more /\ \A y \in DOMAIN received : y # id => received'[y] = received[y]
  BY <1>1, <1>5, <1>9 DEF Partial, Store
<1>12. LogsAreKept'
  BY <1>1, <1>9, <1>10, <1>11 DEF LogsAreKept
<1>13. WebhookTypes'
  BY <1>5, <1>10, <1>11 DEF WebhookInv, WebhookTypes
<1>14. SavesAreOfHooks'
  BY <1>5 DEF WebhookInv, SavesAreOfHooks
<1>15. undisturbed' \subseteq Hooks /\ UndisturbedAgree'
  BY <1>5, AgreedStays
<1> QED
  BY <1>12, <1>13, <1>14, <1>15 DEF WebhookInv

\* The modal is opened, edited and closed.
LEMMA ModalStep ==
  ASSUME WebhookInv, (\E id \in DOMAIN endpoints : Configure(id)) \/ EditValidation \/ CloseModal
  PROVE  WebhookInv'
<1>1. /\ UNCHANGED <<hookLogs, hookConfigs, endpoints, saves, removing, undisturbed, received, hookSpent>>
      /\ modal \in [id : Hooks \union {NoHook}, validation : Validations, saving : SUBSET Saves]
      /\ Partial(endpoints, Validations) /\ (modal.id \in undisturbed => modal.id \in DOMAIN endpoints)
      /\ NoHook \notin undisturbed
  BY WebhookAssumption
     DEF Configure, EditValidation, CloseModal, WebhookInv, WebhookTypes, SavesAreOfHooks
<1>2. /\ modal' \in [id : Hooks \union {NoHook}, validation : Validations, saving : SUBSET Saves]
      /\ modal'.id \in undisturbed => modal'.id \in DOMAIN endpoints
  <2>1. CASE \E id \in DOMAIN endpoints : Configure(id)
    BY <1>1, <2>1 DEF Configure, Partial
  <2>2. CASE EditValidation
    BY <1>1, <2>2 DEF EditValidation, Validations
  <2>3. CASE CloseModal
    BY <1>1, <2>3 DEF CloseModal, ClosedModal, Validations
  <2> QED
    BY <2>1, <2>2, <2>3
<1>3. WebhookTypes'
  BY <1>1, <1>2 DEF WebhookInv, WebhookTypes
<1>4. SavesAreOfHooks'
  BY <1>1, <1>2 DEF WebhookInv, SavesAreOfHooks
<1> QED
  BY <1>1, <1>3, <1>4, LogsStay, AgreedStays DEF WebhookInv

\* A log is cleared.
LEMMA ClearStep ==
  ASSUME WebhookInv, NEW id \in Hooks, clearHookLogs(id)
  PROVE  WebhookInv'
<1>1. /\ hookLogs' = Drop(hookLogs, id) /\ received' = Drop(received, id)
      /\ UNCHANGED <<hookConfigs, endpoints, modal, saves, removing, undisturbed, hookSpent>>
  BY DEF clearHookLogs
<1>2. LogsAreKept' /\ Partial(hookLogs', Seq(Entry)) /\ Partial(received', Seq(Entry))
  BY <1>1 DEF WebhookInv, WebhookTypes, LogsAreKept, Partial, Drop
<1>3. WebhookTypes'
  BY <1>1, <1>2 DEF WebhookInv, WebhookTypes
<1>4. SavesAreOfHooks'
  BY <1>1 DEF WebhookInv, SavesAreOfHooks
<1> QED
  BY <1>1, <1>2, <1>3, <1>4, AgreedStays DEF WebhookInv

\* An endpoint is made, and its removal asked for, done or refused.
LEMMA AddStep ==
  ASSUME WebhookInv, NEW id \in Hooks, addEndpoint(id)
  PROVE  WebhookInv'
<1>1. /\ endpoints' = Store(endpoints, id, NoValidation) /\ undisturbed' = undisturbed \union {id}
      /\ UNCHANGED <<hookLogs, hookConfigs, modal, saves, removing, received, hookSpent>>
      /\ id \notin DOMAIN endpoints /\ id \notin DOMAIN hookConfigs /\ ~InFlight(id) /\ modal.id # id
  BY DEF addEndpoint
<1>2. Partial(endpoints, Validations) /\ NoValidation \in Validations
  BY DEF WebhookInv, WebhookTypes, Validations
<1>3. /\ Partial(endpoints', Validations) /\ DOMAIN endpoints' = DOMAIN endpoints \union {id}
      /\ endpoints'[id] = NoValidation /\ \A y \in DOMAIN endpoints : y # id => endpoints'[y] = endpoints[y]
  BY <1>1, <1>2 DEF Partial, Store
<1>4. Agreed(id, hookConfigs, endpoints', saves, removing)
  BY <1>1, <1>3 DEF Agreed, InFlight, Fetch
<1>5. \A y \in undisturbed : y # id => Agreed(y, hookConfigs, endpoints', saves, removing)
  BY <1>3 DEF WebhookInv, UndisturbedAgree, Agreed
<1>6. UndisturbedAgree' /\ undisturbed' \subseteq Hooks
  BY <1>1, <1>4, <1>5 DEF UndisturbedAgree, WebhookInv
<1>7. WebhookTypes'
  BY <1>1, <1>3 DEF WebhookInv, WebhookTypes
<1>8. SavesAreOfHooks'
  BY <1>1, <1>3 DEF WebhookInv, SavesAreOfHooks
<1> QED
  BY <1>1, <1>6, <1>7, <1>8, LogsStay DEF WebhookInv

\* The server forgets an endpoint.
LEMMA ServerForgets ==
  ASSUME WebhookInv, NEW id, Forgets(id)
  PROVE  /\ LogsAreKept' /\ Partial(hookLogs', Seq(Entry)) /\ Partial(received', Seq(Entry))
         /\ Partial(hookConfigs', Validations) /\ DOMAIN hookConfigs' = DOMAIN hookConfigs \ {id}
         /\ \A y \in DOMAIN hookConfigs \ {id} : hookConfigs'[y] = hookConfigs[y]
BY DEF Forgets, deleteWebhook, WebhookInv, WebhookTypes, LogsAreKept, Partial, Drop

LEMMA RemoveStep ==
  ASSUME WebhookInv, NEW id \in Hooks, (id \in DOMAIN endpoints /\ removeEndpoint(id)) \/ RemoveFails(id)
  PROVE  WebhookInv'
<1>1. /\ UNCHANGED <<endpoints, modal, saves, hookSpent>>
      /\ removing' \subseteq removing \union {id} /\ undisturbed' \subseteq undisturbed
      /\ id \in removing' => id \notin undisturbed' \/ ~InFlight(id)
      /\ \/ UNCHANGED <<hookLogs, hookConfigs, received>>
         \/ Forgets(id) /\ id \notin undisturbed'
  BY DEF removeEndpoint, RemoveFails
<1>2. ASSUME NEW y \in undisturbed' PROVE Agreed(y, hookConfigs', endpoints, saves, removing')
  <2>1. Agreed(y, hookConfigs, endpoints, saves, removing)
    BY <1>1, <1>2 DEF WebhookInv, UndisturbedAgree
  <2>2. \A s \in Saves : saves[s].id = y => y \notin removing'
    BY <1>1, <2>1 DEF Agreed, InFlight
  <2>3. Agreed(y, hookConfigs, endpoints, saves, removing')
    BY <2>1, <2>2 DEF Agreed
  <2>4. CASE UNCHANGED hookConfigs
    BY <2>3, <2>4
  <2>5. CASE Forgets(id) /\ y # id
    <3>1. /\ y \in DOMAIN hookConfigs' <=> y \in DOMAIN hookConfigs
          /\ y \in DOMAIN hookConfigs => hookConfigs'[y] = hookConfigs[y]
      BY <2>5, ServerForgets
    <3> QED
      BY <2>3, <3>1 DEF Agreed, Fetch
  <2> QED
    BY <1>1, <1>2, <2>4, <2>5
<1>3. UndisturbedAgree' /\ undisturbed' \subseteq Hooks
  BY <1>1, <1>2 DEF UndisturbedAgree, WebhookInv
<1>4. LogsAreKept' /\ Partial(hookLogs', Seq(Entry)) /\ Partial(received', Seq(Entry))
      /\ Partial(hookConfigs', Validations)
  BY <1>1, LogsStay, ServerForgets DEF WebhookInv, WebhookTypes
<1>5. WebhookTypes' /\ SavesAreOfHooks'
  BY <1>1, <1>4 DEF WebhookInv, WebhookTypes, SavesAreOfHooks
<1> QED
  BY <1>3, <1>4, <1>5 DEF WebhookInv

LEMMA RemovedStep ==
  ASSUME WebhookInv, NEW id \in Hooks, Removed(id)
  PROVE  WebhookInv'
<1>1. /\ id \in removing /\ removing' = removing \ {id} /\ Forgets(id)
      /\ endpoints' = Drop(endpoints, id)
      /\ undisturbed' = IF modal.id = id THEN undisturbed \ {id} ELSE undisturbed
      /\ UNCHANGED <<modal, saves, hookSpent>>
  BY DEF Removed
<1>2. /\ LogsAreKept' /\ Partial(hookLogs', Seq(Entry)) /\ Partial(received', Seq(Entry))
      /\ Partial(hookConfigs', Validations) /\ DOMAIN hookConfigs' = DOMAIN hookConfigs \ {id}
      /\ \A y \in DOMAIN hookConfigs \ {id} : hookConfigs'[y] = hookConfigs[y]
  BY <1>1, ServerForgets
<1>3. /\ Partial(endpoints', Validations) /\ DOMAIN endpoints' = DOMAIN endpoints \ {id}
      /\ \A y \in DOMAIN endpoints \ {id} : endpoints'[y] = endpoints[y]
  BY <1>1 DEF WebhookInv, WebhookTypes, Partial, Drop
<1>4. ASSUME NEW y \in undisturbed' PROVE Agreed(y, hookConfigs', endpoints', saves, removing')
  <2>1. Agreed(y, hookConfigs, endpoints, saves, removing)
    BY <1>1, <1>4 DEF WebhookInv, UndisturbedAgree
  <2>2. CASE y = id
    BY <1>1, <1>2, <1>3, <2>1, <2>2 DEF Agreed
  <2>3. CASE y # id
    BY <1>1, <1>2, <1>3, <2>1, <2>3 DEF Agreed, Fetch
  <2> QED
    BY <2>2, <2>3
<1>5. UndisturbedAgree' /\ undisturbed' \subseteq Hooks
  BY <1>1, <1>4 DEF UndisturbedAgree, WebhookInv
<1>6. WebhookTypes'
  BY <1>1, <1>2, <1>3 DEF WebhookInv, WebhookTypes
<1>7. SavesAreOfHooks'
  BY <1>1, <1>3 DEF WebhookInv, SavesAreOfHooks
<1> QED
  BY <1>2, <1>5, <1>6, <1>7 DEF WebhookInv

\* Another panel takes the place of this one.
LEMMA LeaveStep ==
  ASSUME WebhookInv, leaveSection
  PROVE  WebhookInv'
<1>1. /\ endpoints' = <<>> /\ modal' = ClosedModal /\ undisturbed' = {}
      /\ UNCHANGED <<hookLogs, hookConfigs, saves, removing, received, hookSpent>>
  BY DEF leaveSection
<1>2. /\ ClosedModal \in [id : Hooks \union {NoHook}, validation : Validations, saving : SUBSET Saves]
      /\ Partial(<<>>, Validations)
  BY DEF ClosedModal, Validations, Partial
<1>3. WebhookTypes'
  BY <1>1, <1>2 DEF WebhookInv, WebhookTypes
<1>4. SavesAreOfHooks' /\ UndisturbedAgree' /\ undisturbed' \subseteq Hooks
  BY <1>1 DEF WebhookInv, SavesAreOfHooks, UndisturbedAgree
<1> QED
  BY <1>1, <1>3, <1>4, LogsStay DEF WebhookInv

\* The configuration in the modal is sent.
LEMMA ApplyStep ==
  ASSUME WebhookInv, NEW s \in Saves, applyConfig(s)
  PROVE  WebhookInv'
<1> DEFINE new == [id |-> modal.id, config |-> modal.validation, pc |-> "waiting"]
<1>1. /\ saves' = [saves EXCEPT ![s] = new] /\ saves[s].pc = "idle"
      /\ modal.id # NoHook /\ modal' = [modal EXCEPT !.saving = {s}]
      /\ undisturbed' = IF InFlight(modal.id) THEN undisturbed \ {modal.id} ELSE undisturbed
      /\ hookSpent' = [hookSpent EXCEPT !.saves = @ + 1]
      /\ UNCHANGED <<hookLogs, hookConfigs, endpoints, removing, received>>
  BY DEF applyConfig
<1>2. /\ modal \in [id : Hooks \union {NoHook}, validation : Validations, saving : SUBSET Saves]
      /\ saves \in [Saves -> Save] /\ hookSpent \in [saves : Nat, deliveries : Nat]
      /\ modal.id \in undisturbed => modal.id \in DOMAIN endpoints
  BY DEF WebhookInv, WebhookTypes, SavesAreOfHooks
<1>3. new \in Save /\ new.id = modal.id /\ new.pc = "waiting"
  BY <1>2 DEF Save
<1> HIDE DEF new
<1>4. saves' \in [Saves -> Save] /\ saves'[s] = new /\ \A t \in Saves : t # s => saves'[t] = saves[t]
  BY <1>1, <1>2, <1>3
<1>5. /\ modal' \in [id : Hooks \union {NoHook}, validation : Validations, saving : SUBSET Saves]
      /\ modal'.id = modal.id /\ hookSpent' \in [saves : Nat, deliveries : Nat]
  BY <1>1, <1>2
<1>6. saves[s].id = NoHook
  BY <1>1 DEF WebhookInv, SavesAreOfHooks
<1>7. ASSUME NEW id \in undisturbed' PROVE Agreed(id, hookConfigs, endpoints, saves', removing)
  <2>1. Agreed(id, hookConfigs, endpoints, saves, removing) /\ id # NoHook
    BY <1>1, <1>7, WebhookAssumption DEF WebhookInv, UndisturbedAgree
  <2>2. CASE id = modal.id
    <3>1. id \notin removing /\ id \in DOMAIN endpoints /\ \A t \in Saves : saves[t].id # id
      BY <1>1, <1>2, <1>7, <2>2 DEF InFlight
    <3> QED
      BY <1>2, <1>3, <1>4, <2>1, <2>2, <3>1 DEF Agreed
  <2>3. CASE id # modal.id
    BY <1>3, <1>4, <1>6, <2>1, <2>3 DEF Agreed
  <2> QED
    BY <2>2, <2>3
<1>8. UndisturbedAgree' /\ undisturbed' \subseteq Hooks
  BY <1>1, <1>7 DEF UndisturbedAgree, WebhookInv
<1>9. WebhookTypes'
  BY <1>1, <1>4, <1>5 DEF WebhookInv, WebhookTypes
<1>10. SavesAreOfHooks'
  BY <1>1, <1>2, <1>3, <1>4, <1>5 DEF WebhookInv, SavesAreOfHooks
<1> QED
  BY <1>1, <1>8, <1>9, <1>10, LogsStay DEF WebhookInv

\* It reaches the server.
LEMMA SetStep ==
  ASSUME WebhookInv, NEW s \in Saves, setConfig(s)
  PROVE  WebhookInv'
<1> DEFINE h == saves[s].id
<1>1. /\ saves[s].pc = "waiting" /\ saves' = [saves EXCEPT ![s].pc = "done"]
      /\ hookConfigs' = Store(hookConfigs, h, saves[s].config)
      /\ UNCHANGED <<hookLogs, endpoints, modal, removing, undisturbed, received, hookSpent>>
  BY DEF setConfig
<1>2. saves \in [Saves -> Save] /\ Partial(hookConfigs, Validations)
  BY DEF WebhookInv, WebhookTypes
<1>3. h \in Hooks /\ saves[s].config \in Validations
  BY <1>1, <1>2 DEF WebhookInv, SavesAreOfHooks, Save
<1>4. /\ saves' \in [Saves -> Save] /\ saves'[s].pc = "done"
      /\ \A t \in Saves : saves'[t].id = saves[t].id /\ saves'[t].config = saves[t].config
      /\ \A t \in Saves : t # s => saves'[t].pc = saves[t].pc
  BY <1>1, <1>2 DEF Save
<1>5. /\ Partial(hookConfigs', Validations) /\ DOMAIN hookConfigs' = DOMAIN hookConfigs \union {h}
      /\ hookConfigs'[h] = saves[s].config
      /\ \A y \in DOMAIN hookConfigs : y # h => hookConfigs'[y] = hookConfigs[y]
  BY <1>1, <1>2, <1>3 DEF Partial, Store
<1>6. ASSUME NEW id \in undisturbed PROVE Agreed(id, hookConfigs', endpoints, saves', removing)
  <2>1. Agreed(id, hookConfigs, endpoints, saves, removing)
    BY <1>6 DEF WebhookInv, UndisturbedAgree
  <2>2. CASE id = h
    BY <1>4, <1>5, <2>1, <2>2 DEF Agreed
  <2>3. CASE id # h
    <3>1. Fetch(hookConfigs', id, NoValidation) = Fetch(hookConfigs, id, NoValidation)
      BY <1>5, <2>3 DEF Fetch
    <3>2. \A t \in Saves : saves[t].id = id => t # s
      BY <2>3
    <3> QED
      BY <1>4, <1>5, <2>1, <2>3, <3>1, <3>2 DEF Agreed
  <2> QED
    BY <2>2, <2>3
<1>7. UndisturbedAgree' /\ undisturbed' \subseteq Hooks
  BY <1>1, <1>6 DEF UndisturbedAgree, WebhookInv
<1>8. WebhookTypes'
  BY <1>1, <1>4, <1>5 DEF WebhookInv, WebhookTypes
<1>9. SavesAreOfHooks'
  BY <1>1, <1>4 DEF WebhookInv, SavesAreOfHooks
<1> QED
  BY <1>1, <1>7, <1>8, <1>9, LogsStay DEF WebhookInv

\* Its answer is lost, or it never arrives.
LEMMA SaveFailsStep ==
  ASSUME WebhookInv, NEW s \in Saves, SaveFails(s)
  PROVE  WebhookInv'
<1>1. /\ saves[s].pc \in {"waiting", "done"} /\ saves' = [saves EXCEPT ![s].pc = "failed"]
      /\ undisturbed' = IF saves[s].pc = "done" THEN undisturbed \ {saves[s].id} ELSE undisturbed
      /\ UNCHANGED <<hookLogs, hookConfigs, endpoints, modal, removing, received, hookSpent>>
  BY DEF SaveFails
<1>2. saves \in [Saves -> Save]
  BY DEF WebhookInv, WebhookTypes
<1>3. /\ saves' \in [Saves -> Save] /\ saves'[s].pc = "failed"
      /\ \A t \in Saves : saves'[t].id = saves[t].id /\ saves'[t].config = saves[t].config
      /\ \A t \in Saves : t # s => saves'[t].pc = saves[t].pc
  BY <1>1, <1>2 DEF Save
<1>4. ASSUME NEW id \in undisturbed' PROVE Agreed(id, hookConfigs, endpoints, saves', removing)
  <2>1. Agreed(id, hookConfigs, endpoints, saves, removing) /\ (saves[s].id = id => saves[s].pc # "done")
    BY <1>1, <1>4 DEF WebhookInv, UndisturbedAgree
  <2> QED
    BY <1>3, <2>1 DEF Agreed
<1>5. UndisturbedAgree' /\ undisturbed' \subseteq Hooks
  BY <1>1, <1>4 DEF UndisturbedAgree, WebhookInv
<1>6. WebhookTypes'
  BY <1>1, <1>3 DEF WebhookInv, WebhookTypes
<1>7. SavesAreOfHooks'
  BY <1>1, <1>3 DEF WebhookInv, SavesAreOfHooks
<1> QED
  BY <1>1, <1>5, <1>6, <1>7, LogsStay DEF WebhookInv

\* The page learns of it.
LEMMA AppliedStep ==
  ASSUME WebhookInv, NEW s \in Saves, applied(s)
  PROVE  WebhookInv'
<1> DEFINE h == saves[s].id
<1>1. /\ saves[s].pc \in {"done", "failed"} /\ saves' = [saves EXCEPT ![s] = NoSave]
      /\ endpoints' = IF saves[s].pc = "done" /\ h \in DOMAIN endpoints
                      THEN Store(endpoints, h, saves[s].config) ELSE endpoints
      /\ modal' = [modal EXCEPT !.saving = @ \ {s}]
      /\ UNCHANGED <<hookLogs, hookConfigs, removing, undisturbed, received, hookSpent>>
  BY DEF applied
<1>2. /\ saves \in [Saves -> Save] /\ Partial(endpoints, Validations)
      /\ modal \in [id : Hooks \union {NoHook}, validation : Validations, saving : SUBSET Saves]
  BY DEF WebhookInv, WebhookTypes
<1>3. h \in Hooks /\ saves[s].config \in Validations
  BY <1>1, <1>2 DEF WebhookInv, SavesAreOfHooks, Save
<1>4. NoSave \in Save /\ NoSave.id = NoHook /\ NoSave.pc = "idle"
  BY DEF NoSave, Save, Validations
<1>5. saves' \in [Saves -> Save] /\ saves'[s] = NoSave /\ \A t \in Saves : t # s => saves'[t] = saves[t]
  BY <1>1, <1>2, <1>4
<1>6. /\ Partial(endpoints', Validations) /\ DOMAIN endpoints' = DOMAIN endpoints
      /\ \A y \in DOMAIN endpoints : y # h => endpoints'[y] = endpoints[y]
      /\ saves[s].pc = "done" /\ h \in DOMAIN endpoints => endpoints'[h] = saves[s].config
      /\ saves[s].pc # "done" => endpoints' = endpoints
  BY <1>1, <1>2, <1>3 DEF Partial, Store
<1>7. /\ modal' \in [id : Hooks \union {NoHook}, validation : Validations, saving : SUBSET Saves]
      /\ modal'.id = modal.id
  BY <1>1, <1>2
<1>8. ASSUME NEW id \in undisturbed PROVE Agreed(id, hookConfigs, endpoints', saves', removing)
  <2>1. Agreed(id, hookConfigs, endpoints, saves, removing) /\ id \in Hooks
    BY <1>8 DEF WebhookInv, UndisturbedAgree
  <2>2. saves'[s].id # id
    BY <1>4, <1>5, <2>1, WebhookAssumption
  <2>3. CASE id = h
    <3>1. \A t \in Saves : saves'[t].id # id
      BY <1>5, <2>1, <2>2, <2>3 DEF Agreed
    <3>2. id \in DOMAIN endpoints'
      BY <1>6, <2>1, <2>3 DEF Agreed
    <3>3. Fetch(hookConfigs, id, NoValidation) = endpoints'[id]
      <4>1. CASE saves[s].pc = "done"
        BY <1>6, <2>1, <2>3, <3>2, <4>1 DEF Agreed, Fetch
      <4>2. CASE saves[s].pc # "done"
        <5>1. \A t \in Saves : saves[t].id = id => saves[t].pc # "done"
          BY <2>1, <2>3, <4>2 DEF Agreed
        <5> QED
          BY <1>6, <2>1, <3>2, <4>2, <5>1 DEF Agreed
      <4> QED
        BY <4>1, <4>2
    <3> QED
      BY <3>1, <3>2, <3>3 DEF Agreed
  <2>4. CASE id # h
    <3>1. \A t \in Saves : saves'[t].id = id <=> saves[t].id = id
      BY <1>5, <2>2, <2>4
    <3>2. \A t \in Saves : saves'[t].id = id => saves'[t] = saves[t]
      BY <1>5, <2>2
    <3> QED
      BY <1>6, <2>1, <2>4, <3>1, <3>2 DEF Agreed
  <2> QED
    BY <2>3, <2>4
<1>9. UndisturbedAgree' /\ undisturbed' \subseteq Hooks
  BY <1>1, <1>8 DEF UndisturbedAgree, WebhookInv
<1>10. WebhookTypes'
  BY <1>1, <1>5, <1>6, <1>7 DEF WebhookInv, WebhookTypes
<1>11. SavesAreOfHooks'
  BY <1>1, <1>4, <1>5, <1>6, <1>7 DEF WebhookInv, SavesAreOfHooks
<1> QED
  BY <1>1, <1>9, <1>10, <1>11, LogsStay DEF WebhookInv

\* The server starts again and knows nothing of any endpoint.
LEMMA RestartStep ==
  ASSUME WebhookInv, RestartHooks
  PROVE  WebhookInv'
<1>1. /\ hookLogs' = <<>> /\ hookConfigs' = <<>> /\ received' = <<>> /\ undisturbed' = {}
      /\ saves' = [s \in Saves |-> IF saves[s].pc = "waiting" THEN [saves[s] EXCEPT !.pc = "failed"]
                                   ELSE saves[s]]
      /\ UNCHANGED <<endpoints, modal, removing, hookSpent>> /\ saves \in [Saves -> Save]
  BY DEF RestartHooks, WebhookInv, WebhookTypes
<1>2. /\ saves' \in [Saves -> Save]
      /\ \A s \in Saves : saves'[s].id = saves[s].id /\ (saves'[s].pc = "idle" <=> saves[s].pc = "idle")
  BY <1>1 DEF Save
<1>3. Partial(hookLogs', Seq(Entry)) /\ Partial(received', Seq(Entry)) /\ Partial(hookConfigs', Validations)
  BY <1>1 DEF Partial
<1>4. WebhookTypes'
  BY <1>1, <1>2, <1>3 DEF WebhookInv, WebhookTypes
<1>5. LogsAreKept' /\ SavesAreOfHooks' /\ UndisturbedAgree' /\ undisturbed' \subseteq Hooks
  BY <1>1, <1>2 DEF WebhookInv, LogsAreKept, SavesAreOfHooks, UndisturbedAgree
<1> QED
  BY <1>4, <1>5 DEF WebhookInv

\* The log of IsLogOf, in the words of NewestDeliveriesKept.
LEMMA HookLogIsNewest ==
  ASSUME NEW log \in Seq(Entry), NEW all \in Seq(Entry), IsLogOf(log, all)
  PROVE  LET r == Reverse(all)
         IN  log = SubSeq(r, 1, IF Len(r) > EntryCap THEN EntryCap ELSE Len(r))
<1> DEFINE r == Reverse(all)
           n == IF Len(r) > EntryCap THEN EntryCap ELSE Len(r)
<1>1. Len(all) \in Nat /\ EntryCap \in Nat
  BY WebhookAssumption
<1>2. r \in Seq(Entry) /\ Len(r) = Len(all) /\ \A i \in 1..Len(all) : r[i] = all[Len(all) - i + 1]
  BY <1>1 DEF Reverse
<1> HIDE DEF r
<1>3. n \in Nat /\ n <= Len(all) /\ Len(log) = n
  BY <1>1, <1>2 DEF IsLogOf, Shorter
<1> HIDE DEF n
<1>4. SubSeq(r, 1, n) \in Seq(Entry) /\ Len(SubSeq(r, 1, n)) = n /\ \A i \in 1..n : SubSeq(r, 1, n)[i] = r[i]
  BY <1>2, <1>3
<1>5. \A i \in 1..n : log[i] = SubSeq(r, 1, n)[i]
  BY <1>1, <1>2, <1>3, <1>4 DEF IsLogOf
<1>6. log = SubSeq(r, 1, n)
  BY <1>3, <1>4, <1>5
<1> QED
  BY <1>6 DEF n, r

\* A webhook whose calls neither overlap nor fail checks deliveries as the page
\* shows, and leaves no configuration behind when it is deleted with no modal
\* open on it; every webhook keeps the newest deliveries: for any number of
\* endpoints, of configurations on their way and of deliveries, and however
\* often the server starts again or the panel is left (WebhookModal,
\* WebhookSection.removeEndpoint, WebhookStore, webhookReceiver).
THEOREM WebhooksAreHeld == WebhookSpec => []WebhooksHold
<1>1. WebhookInit => WebhookInv
  <2> SUFFICES ASSUME WebhookInit PROVE WebhookInv
    OBVIOUS
  <2>1. \A S : Partial(<<>>, S)
    BY DEF Partial
  <2>2. NoSave \in Save /\ ClosedModal \in [id : Hooks \union {NoHook}, validation : Validations,
                                            saving : SUBSET Saves]
    BY DEF NoSave, Save, ClosedModal, Validations
  <2>3. WebhookTypes
    BY <2>1, <2>2 DEF WebhookInit, WebhookTypes
  <2>4. LogsAreKept /\ SavesAreOfHooks /\ UndisturbedAgree
    BY DEF WebhookInit, LogsAreKept, SavesAreOfHooks, UndisturbedAgree, NoSave, ClosedModal
  <2> QED
    BY <2>3, <2>4 DEF WebhookInit, WebhookInv
<1>2. WebhookInv /\ [WebhookNext]_hookVars => WebhookInv'
  <2> SUFFICES ASSUME WebhookInv, [WebhookNext]_hookVars PROVE WebhookInv'
    OBVIOUS
  <2>1. CASE UNCHANGED hookVars
    BY <2>1, LogsStay, AgreedStays DEF hookVars, WebhookInv, WebhookTypes, SavesAreOfHooks
  <2>2. DOMAIN endpoints \subseteq Hooks
    BY DEF WebhookInv, WebhookTypes, Partial
  <2>3. CASE \E id \in Hooks : addEndpoint(id) \/ Removed(id) \/ RemoveFails(id) \/ clearHookLogs(id)
    BY <2>3, AddStep, RemovedStep, RemoveStep, ClearStep
  <2>4. CASE \E id \in DOMAIN endpoints : Configure(id) \/ removeEndpoint(id)
    BY <2>2, <2>4, ModalStep, RemoveStep
  <2>5. CASE \E id \in Hooks, d \in Deliveries : webhookReceiver(id, d)
    BY <2>5, ReceiveStep
  <2>6. CASE \E s \in Saves : applyConfig(s) \/ setConfig(s) \/ SaveFails(s) \/ applied(s)
    BY <2>6, ApplyStep, SetStep, SaveFailsStep, AppliedStep
  <2>7. CASE EditValidation \/ CloseModal \/ leaveSection \/ RestartHooks
    BY <2>7, ModalStep, LeaveStep, RestartStep
  <2> QED
    BY <2>1, <2>3, <2>4, <2>5, <2>6, <2>7 DEF WebhookNext
<1>3. WebhookInv => WebhooksHold
  <2> SUFFICES ASSUME WebhookInv PROVE WebhooksHold
    OBVIOUS
  <2>1. NewestDeliveriesKept
    <3> SUFFICES ASSUME NEW id \in DOMAIN received
                 PROVE  LET all == Reverse(received[id])
                        IN hookLogs[id] = SubSeq(all, 1, IF Len(all) > EntryCap THEN EntryCap ELSE Len(all))
      BY DEF NewestDeliveriesKept
    <3>1. hookLogs[id] \in Seq(Entry) /\ received[id] \in Seq(Entry) /\ IsLogOf(hookLogs[id], received[id])
      BY DEF WebhookInv, WebhookTypes, LogsAreKept, Partial
    <3> QED
      BY <3>1, HookLogIsNewest
  <2>2. ShownIsEnforced /\ DeletedIsForgotten
    <3>1. ASSUME NEW id \in undisturbed, ~InFlight(id)
          PROVE  /\ id \in DOMAIN endpoints => Fetch(hookConfigs, id, NoValidation) = endpoints[id]
                 /\ id \notin DOMAIN endpoints => id \notin DOMAIN hookConfigs
      BY <3>1 DEF WebhookInv, UndisturbedAgree, Agreed, InFlight
    <3> QED
      BY <3>1 DEF ShownIsEnforced, DeletedIsForgotten
  <2>3. \A id \in DOMAIN hookLogs : Len(hookLogs[id]) <= EntryCap
    <3> SUFFICES ASSUME NEW id \in DOMAIN hookLogs PROVE Len(hookLogs[id]) <= EntryCap
      OBVIOUS
    <3>1. received[id] \in Seq(Entry) /\ IsLogOf(hookLogs[id], received[id])
      BY DEF WebhookInv, WebhookTypes, LogsAreKept, Partial
    <3> QED
      BY <3>1, WebhookAssumption DEF IsLogOf, Shorter
  <2>4. WebhookTypeOK
    BY <2>3 DEF WebhookInv, WebhookTypes, WebhookTypeOK, Partial
  <2> QED
    BY <2>1, <2>2, <2>4 DEF WebhooksHold
<1> QED
  BY <1>1, <1>2, <1>3, PTL DEF WebhookSpec

-----------------------------------------------------------------------------
(* Sequences: what Only keeps.                                             *)

LEMMA LeastNumber ==
  ASSUME NEW T \in SUBSET Nat, T # {}
  PROVE  \E m \in T : \A k \in T : m <= k
<1>1. ASSUME NEW R, R = OpToRel(<, Nat) PROVE \E m \in T : \A k \in T : ~(<<k, m>> \in R)
  <2>1. IsWellFoundedOn(R, Nat)
    BY <1>1, NatLessThanWellFounded
  <2> QED
    BY <2>1, WFMin
<1>2. \A x, y \in Nat : x < y => <<x, y>> \in OpToRel(<, Nat)
  BY DEF OpToRel
<1>3. PICK m \in T : \A k \in T : ~(<<k, m>> \in OpToRel(<, Nat))
  BY <1>1
<1>4. \A k \in T : ~(k < m)
  BY <1>2, <1>3
<1> QED
  BY <1>4

\* What holds of 0 and of a number's successor holds of every number up to n.
LEMMA UpToN ==
  ASSUME NEW n \in Nat, NEW G, 0 \in G, \A i \in 1..n : i - 1 \in G => i \in G
  PROVE  \A i \in 0..n : i \in G
<1> DEFINE B == {i \in 0..n : i \notin G}
<1>1. SUFFICES ASSUME B # {} PROVE FALSE
  OBVIOUS
<1>2. PICK m \in B : \A k \in B : m <= k
  <2>1. B \in SUBSET Nat
    OBVIOUS
  <2> HIDE DEF B
  <2> QED
    BY <1>1, <2>1, LeastNumber
<1>3. m \in 1..n /\ m - 1 \in 0..n /\ ~(m <= m - 1)
  BY <1>2
<1> QED
  BY <1>2, <1>3

\* The elements of s that are in S, up to each position.
Keeps(f, s, S, n) ==
  f = [i \in 0..n |-> IF i = 0 THEN <<>>
                      ELSE IF s[i] \in S THEN Append(f[i - 1], s[i]) ELSE f[i - 1]]

LEMMA KeepsExists ==
  ASSUME NEW s, NEW S, NEW n \in Nat
  PROVE  \E f : Keeps(f, s, S, n)
<1> DEFINE G == {k \in Nat : \E f : Keeps(f, s, S, k)}
<1>1. 0 \in G
  <2> DEFINE f == [i \in 0..0 |-> <<>>]
  <2>1. Keeps(f, s, S, 0)
    BY DEF Keeps
  <2> QED
    BY <2>1
<1>2. ASSUME NEW k \in 1..n, k - 1 \in G PROVE k \in G
  <2>1. PICK f : Keeps(f, s, S, k - 1)
    BY <1>2
  <2> DEFINE g == [i \in 0..k |-> IF i < k THEN f[i]
                                  ELSE IF s[k] \in S THEN Append(f[k - 1], s[k]) ELSE f[k - 1]]
  <2>2. ASSUME NEW i \in 0..k
        PROVE  g[i] = IF i = 0 THEN <<>> ELSE IF s[i] \in S THEN Append(g[i - 1], s[i]) ELSE g[i - 1]
    <3>1. CASE i = k
      BY <3>1
    <3>2. CASE i < k /\ i # 0
      <4>1. i \in 0..(k - 1) /\ i - 1 \in 0..k /\ i - 1 < k
        BY <3>2
      <4>2. f[i] = IF s[i] \in S THEN Append(f[i - 1], s[i]) ELSE f[i - 1]
        BY <2>1, <3>2, <4>1 DEF Keeps
      <4> QED
        BY <3>2, <4>1, <4>2
    <3>3. CASE i = 0
      BY <2>1, <3>3 DEF Keeps
    <3> QED
      BY <3>1, <3>2, <3>3
  <2>3. Keeps(g, s, S, k)
    BY <2>2 DEF Keeps
  <2> QED
    BY <2>3
<1> HIDE DEF G
<1>3. n \in G
  BY <1>1, <1>2, UpToN
<1> QED
  BY <1>3 DEF G

\* at: the places in s of the elements of t.
Picks(t, s, S, n, at) ==
  /\ at \in Seq(1..n) /\ Len(t) = Len(at) /\ DOMAIN t = 1..Len(at)
  /\ \A k \in 1..Len(at) : t[k] = s[at[k]] /\ s[at[k]] \in S
  /\ \A k, l \in 1..Len(at) : k < l => at[k] < at[l]
  /\ \A i \in 1..n : s[i] \in S => \E k \in 1..Len(at) : at[k] = i

LEMMA OnePickMore ==
  ASSUME NEW T, NEW s \in Seq(T), NEW S, NEW i \in 1..Len(s),
         NEW t \in Seq(T), NEW at, Picks(t, s, S, i - 1, at)
  PROVE  LET u == IF s[i] \in S THEN Append(t, s[i]) ELSE t
         IN  u \in Seq(T) /\ \E to : Picks(u, s, S, i, to)
<1> DEFINE u == IF s[i] \in S THEN Append(t, s[i]) ELSE t
           to == IF s[i] \in S THEN Append(at, i) ELSE at
<1>1. i - 1 \in Nat /\ i \in 1..i /\ \A k \in 1..(i - 1) : k \in 1..i /\ k < i
  OBVIOUS
<1>2. /\ at \in Seq(1..(i - 1)) /\ at \in Seq(1..i) /\ Len(t) = Len(at) /\ Len(at) \in Nat
      /\ \A k \in 1..Len(at) : at[k] \in 1..(i - 1)
  BY <1>1 DEF Picks
<1>3. s[i] \in T /\ u \in Seq(T)
  OBVIOUS
<1>4. CASE s[i] \notin S
  <2>1. Picks(t, s, S, i, at)
    BY <1>1, <1>2, <1>4 DEF Picks
  <2> QED
    BY <1>4, <1>3, <2>1
<1>5. CASE s[i] \in S
  <2> DEFINE v == Append(at, i)
             w == Append(t, s[i])
  <2>1. /\ v \in Seq(1..i) /\ Len(v) = Len(at) + 1 /\ v[Len(at) + 1] = i
        /\ \A k \in 1..Len(at) : v[k] = at[k]
    BY <1>1, <1>2
  <2>2. /\ w \in Seq(T) /\ Len(w) = Len(at) + 1 /\ DOMAIN w = 1..(Len(at) + 1) /\ w[Len(at) + 1] = s[i]
        /\ \A k \in 1..Len(at) : w[k] = t[k]
    BY <1>2, <1>3
  <2> HIDE DEF v, w
  <2>3. \A k \in 1..Len(v) : k \in 1..Len(at) \/ k = Len(at) + 1
    BY <1>2, <2>1
  <2>4. \A k \in 1..Len(v) : w[k] = s[v[k]] /\ s[v[k]] \in S
    BY <1>2, <1>5, <2>1, <2>2, <2>3 DEF Picks
  <2>5. ASSUME NEW k \in 1..Len(v), NEW l \in 1..Len(v), k < l PROVE v[k] < v[l]
    <3> k # Len(at) + 1
      BY <1>2, <2>1, <2>5
    <3>1. k \in 1..Len(at) /\ v[k] = at[k]
      BY <2>1, <2>3
    <3>2. CASE l = Len(at) + 1
      BY <1>1, <1>2, <2>1, <3>1, <3>2
    <3>3. CASE l \in 1..Len(at)
      BY <2>1, <2>5, <3>1, <3>3 DEF Picks
    <3> QED
      BY <2>3, <3>2, <3>3
  <2>6. ASSUME NEW j \in 1..i, s[j] \in S PROVE \E k \in 1..Len(v) : v[k] = j
    <3>1. CASE j = i
      <4>1. Len(at) + 1 \in 1..Len(v)
        BY <1>2, <2>1
      <4> QED
        BY <2>1, <3>1, <4>1
    <3>2. CASE j # i
      <4>1. j \in 1..(i - 1)
        BY <3>2
      <4>2. PICK k \in 1..Len(at) : at[k] = j
        BY <2>6, <4>1 DEF Picks
      <4> QED
        BY <1>2, <2>1, <4>2
    <3> QED
      BY <3>1, <3>2
  <2>7. Picks(w, s, S, i, v)
    BY <2>1, <2>2, <2>4, <2>5, <2>6 DEF Picks
  <2> QED
    BY <1>5, <2>2, <2>7 DEF w
<1> QED
  BY <1>4, <1>5

\* Only keeps exactly the elements of s in S, each once, in their order.
LEMMA OnlyPicks ==
  ASSUME NEW T, NEW s \in Seq(T), NEW S
  PROVE  Only(s, S) \in Seq(T) /\ \E at : Picks(Only(s, S), s, S, Len(s), at)
<1> DEFINE f == CHOOSE f : Keeps(f, s, S, Len(s))
<1>1. Keeps(f, s, S, Len(s)) /\ Len(s) \in Nat
  BY KeepsExists
<1>2. Only(s, S) = f[Len(s)]
  BY DEF Only, Keeps
<1> HIDE DEF f
<1>3. f[0] = <<>> /\ \A i \in 1..Len(s) : f[i] = IF s[i] \in S THEN Append(f[i - 1], s[i]) ELSE f[i - 1]
  <2>1. 0 \in 0..Len(s) /\ \A i \in 1..Len(s) : i \in 0..Len(s) /\ i # 0
    BY <1>1
  <2>2. \A i \in 0..Len(s) : f[i] = IF i = 0 THEN <<>>
                                 ELSE IF s[i] \in S THEN Append(f[i - 1], s[i]) ELSE f[i - 1]
    BY <1>1, Zenon DEF Keeps
  <2> QED
    BY <2>1, <2>2
<1> DEFINE G == {i \in Nat : f[i] \in Seq(T) /\ \E at : Picks(f[i], s, S, i, at)}
<1>4. 0 \in G
  <2>1. <<>> \in Seq(T) /\ Picks(<<>>, s, S, 0, <<>>)
    BY DEF Picks
  <2> QED
    BY <1>3, <2>1
<1>5. ASSUME NEW i \in 1..Len(s), i - 1 \in G PROVE i \in G
  <2>1. PICK at : Picks(f[i - 1], s, S, i - 1, at)
    BY <1>5
  <2> DEFINE u == IF s[i] \in S THEN Append(f[i - 1], s[i]) ELSE f[i - 1]
  <2>2. u \in Seq(T) /\ \E to : Picks(u, s, S, i, to)
    BY <1>5, <2>1, OnePickMore
  <2>3. f[i] = u
    BY <1>3
  <2>4. f[i] \in Seq(T) /\ \E to : Picks(f[i], s, S, i, to)
    BY <2>2, <2>3
  <2> QED
    BY <2>4
<1> HIDE DEF G
<1>6. \A i \in 0..Len(s) : i \in G
  BY <1>1, <1>4, <1>5, UpToN
<1>7. Len(s) \in G
  BY <1>1, <1>6
<1> QED
  BY <1>2, <1>7 DEF G

-----------------------------------------------------------------------------
(* The log of the mock server.                                             *)

\* The log holds the last LogCap answers.
IsTail(log, all, cap) ==
  /\ IsSeq(log) /\ IsSeq(all)
  /\ Len(log) = IF Len(all) > cap THEN cap ELSE Len(all)
  /\ \A i \in 1..Len(log) : log[i] = all[Len(all) - Len(log) + i]

LEMMA SeqOfItsElements ==
  ASSUME NEW T, NEW s \in Seq(T)
  PROVE  IsSeq(s)
<1>1. \A i \in 1..Len(s) : s[i] \in ToSet(s)
  BY DEF ToSet
<1> QED
  BY <1>1 DEF IsSeq

\* What is logged next: the newest of the log and the entry.
LEMMA TailGrows ==
  ASSUME NEW cap \in Nat \ {0}, NEW log, NEW all, IsTail(log, all, cap), NEW e
  PROVE  LET longer == Append(log, e)
             next == SubSeq(longer, IF Len(longer) > cap THEN Len(longer) - cap + 1 ELSE 1, Len(longer))
         IN  IsTail(next, Append(all, e), cap)
<1> DEFINE longer == Append(log, e)
           from == IF Len(longer) > cap THEN Len(longer) - cap + 1 ELSE 1
           next == SubSeq(longer, from, Len(longer))
           more == Append(all, e)
           T == ToSet(log) \union ToSet(all) \union {e}
<1>1. log \in Seq(T) /\ all \in Seq(T) /\ e \in T
  <2>1. \A i \in 1..Len(log) : log[i] \in T
    BY DEF IsTail, IsSeq, ToSet
  <2>2. \A i \in 1..Len(all) : all[i] \in T
    BY DEF IsTail, IsSeq, ToSet
  <2> HIDE DEF T
  <2>3. log \in Seq(T) /\ all \in Seq(T)
    BY <2>1, <2>2 DEF IsTail, IsSeq
  <2> QED
    BY <2>3 DEF T
<1> HIDE DEF T
<1>2. /\ Len(log) \in Nat /\ Len(all) \in Nat /\ Len(log) <= Len(all) /\ Len(log) <= cap
      /\ (Len(log) = Len(all) \/ Len(log) = cap)
  BY <1>1 DEF IsTail
<1>3. /\ longer \in Seq(T) /\ Len(longer) = Len(log) + 1 /\ longer[Len(log) + 1] = e
      /\ \A i \in 1..Len(log) : longer[i] = log[i]
  BY <1>1
<1>4. /\ more \in Seq(T) /\ Len(more) = Len(all) + 1 /\ more[Len(all) + 1] = e
      /\ \A i \in 1..Len(all) : more[i] = all[i]
  BY <1>1
<1> HIDE DEF longer, more
<1>5. from \in 1..Len(longer) /\ (from = 1 \/ from = 2) /\ (from = 2 <=> Len(log) = cap)
  BY <1>2, <1>3
<1>6. /\ next \in Seq(T) /\ Len(next) = Len(longer) - from + 1
      /\ \A i \in 1..Len(next) : next[i] = longer[i + from - 1]
  BY <1>3, <1>5
<1> HIDE DEF next, from
<1>0. /\ Len(log) = IF Len(all) > cap THEN cap ELSE Len(all)
      /\ \A k \in 1..Len(log) : log[k] = all[Len(all) - Len(log) + k]
  BY DEF IsTail
<1>7. Len(next) = IF Len(more) > cap THEN cap ELSE Len(more)
  <2>1. CASE Len(log) = cap
    BY <1>0, <1>2, <1>3, <1>4, <1>5, <1>6, <2>1
  <2>2. CASE Len(log) # cap
    BY <1>0, <1>2, <1>3, <1>4, <1>5, <1>6, <2>2
  <2> QED
    BY <2>1, <2>2
<1>8. ASSUME NEW i \in 1..Len(next) PROVE next[i] = more[Len(more) - Len(next) + i]
  <2> DEFINE k == i + from - 1
             m == Len(more) - Len(next) + i
  <2>1. k \in 1..(Len(log) + 1) /\ next[i] = longer[k] /\ m = Len(all) - Len(log) + k
    BY <1>2, <1>3, <1>4, <1>5, <1>6
  <2> HIDE DEF k, m
  <2>2. CASE k = Len(log) + 1
    BY <1>2, <1>3, <1>4, <2>1, <2>2 DEF m
  <2>3. CASE k \in 1..Len(log)
    <3>1. log[k] = all[Len(all) - Len(log) + k] /\ m \in 1..Len(all)
      <4>1. log[k] = all[Len(all) - Len(log) + k]
        BY <1>0, <2>3
      <4>2. m \in 1..Len(all)
        BY <1>2, <2>1, <2>3
      <4> QED
        BY <4>1, <4>2
    <3> QED
      BY <1>3, <1>4, <2>1, <2>3, <3>1 DEF m
  <2> QED
    BY <1>2, <2>1, <2>2, <2>3
<1>9. IsSeq(next) /\ IsSeq(more)
  BY <1>4, <1>6, SeqOfItsElements
<1> QED
  BY <1>7, <1>8, <1>9 DEF IsTail, next, from, longer, more

\* IsTail, in the words of LogIsNewest.
LEMMA TailIsNewest ==
  ASSUME NEW cap \in Nat \ {0}, NEW log, NEW all, IsTail(log, all, cap)
  PROVE  log = SubSeq(all, IF Len(all) > cap THEN Len(all) - cap + 1 ELSE 1, Len(all))
<1> DEFINE from == IF Len(all) > cap THEN Len(all) - cap + 1 ELSE 1
           T == ToSet(all)
           U == ToSet(log)
           cut == SubSeq(all, from, Len(all))
<1>1. all \in Seq(T) /\ log \in Seq(U) /\ Len(all) \in Nat
  BY DEF IsTail, IsSeq
<1> HIDE DEF T, U
<1>2. from \in 1..(Len(all) + 1) /\ Len(log) = Len(all) - from + 1
  BY <1>1 DEF IsTail
<1> HIDE DEF from
<1>3. cut \in Seq(T) /\ Len(cut) = Len(log) /\ \A i \in 1..Len(log) : cut[i] = all[i + from - 1]
  BY <1>1, <1>2
<1> HIDE DEF cut
<1>4. ASSUME NEW i \in 1..Len(log) PROVE cut[i] = log[i]
  <2>1. log[i] = all[Len(all) - Len(log) + i]
    BY DEF IsTail
  <2>2. Len(all) - Len(log) + i = i + from - 1
    BY <1>1, <1>2
  <2> QED
    BY <1>3, <2>1, <2>2
<1>5. log = cut
  BY <1>1, <1>3, <1>4
<1> QED
  BY <1>5 DEF cut, from

LEMMA EmptyTail ==
  ASSUME NEW cap \in Nat \ {0}
  PROVE  IsTail(<<>>, <<>>, cap)
<1>1. <<>> \in Seq({}) /\ Len(<<>>) = 0
  OBVIOUS
<1>2. IsSeq(<<>>)
  BY <1>1, SeqOfItsElements
<1>3. ~(Len(<<>>) > cap) /\ 1..Len(<<>>) = {}
  BY <1>1
<1> QED
  BY <1>2, <1>3 DEF IsTail

LogInv == IsTail(logs, answered, LogCap)

\* The log of the mock server is what it answered last since the log was
\* cleared, in the order of the answers, for any number of requests whose
\* latencies overlap, whatever happens to the routes (appendLog).
THEOREM LogsAreNewest == MockSpec => [](LogIsNewest /\ Len(logs) <= LogCap)
<1>0. LogCap \in Nat \ {0}
  BY MockAssumption
<1>1. MockInit => LogInv
  BY <1>0, EmptyTail DEF MockInit, LogInv
<1>2. LogInv /\ [MockNext]_mockVars => LogInv'
  <2> SUFFICES ASSUME LogInv, [MockNext]_mockVars PROVE LogInv'
    OBVIOUS
  <2>1. ASSUME UNCHANGED <<logs, answered>> PROVE LogInv'
    BY <2>1 DEF LogInv
  <2>2. ASSUME NEW e, appendLog(e) PROVE LogInv'
    BY <1>0, <2>2, TailGrows DEF LogInv, appendLog
  <2>3. ASSUME logs' = <<>>, answered' = <<>> PROVE LogInv'
    BY <1>0, <2>3, EmptyTail DEF LogInv
  <2>4. CASE UNCHANGED mockVars
    BY <2>1, <2>4 DEF mockVars, serverVars
  <2>5. CASE PanelNext
    BY <2>1, <2>5 DEF PanelNext, sync, stop, clearLogs, importSelected, clearRecords, Settles, openRoute,
                      saveRoute, importRoutes, deleteAll, deleteRoute, toggleEnabled, leavePanel, persistRoutes,
                      serverVars
  <2>6. ASSUME NEW c \in Clients, NEW q \in Requests, mockCatchAll(c, q) PROVE LogInv'
    BY <2>1, <2>2, <2>6 DEF mockCatchAll
  <2>7. ASSUME NEW c \in Clients, Slept(c) PROVE LogInv'
    BY <2>2, <2>7 DEF Slept
  <2>8. ASSUME NEW j \in Jobs, Handle(j) PROVE LogInv'
    BY <2>1, <2>3, <2>8 DEF Handle
  <2>9. CASE Restart
    BY <2>3, <2>9 DEF Restart
  <2>10. ASSUME NEW j \in Jobs, Fails(j) PROVE LogInv'
    BY <2>1, <2>10 DEF Fails, serverVars
  <2>11. ASSUME NEW t \in Targets, ProxyRequest(t) PROVE LogInv'
    BY <2>1, <2>11 DEF ProxyRequest
  <2> QED
    BY <2>4, <2>5, <2>6, <2>7, <2>8, <2>9, <2>10, <2>11 DEF MockNext, MockServerNext
<1>3. LogInv => LogIsNewest /\ Len(logs) <= LogCap
  <2> SUFFICES ASSUME LogInv PROVE LogIsNewest /\ Len(logs) <= LogCap
    OBVIOUS
  <2>1. LogIsNewest
    BY <1>0, TailIsNewest DEF LogInv, LogIsNewest
  <2>2. Len(answered) \in Nat
    BY DEF LogInv, IsTail, IsSeq
  <2> QED
    BY <1>0, <2>1, <2>2 DEF LogInv, IsTail
<1> QED
  BY <1>1, <1>2, <1>3, PTL DEF MockSpec

-----------------------------------------------------------------------------
(* The calls of the panel, and what it shows as active.                    *)

JobKinds == {"sync", "stop", "clear logs", "import", "clear records"}

JobOK(job) ==
  /\ "pc" \in DOMAIN job /\ job.pc \in {"idle", "waiting", "answered", "failed"}
  /\ job.pc # "idle" =>
       /\ "kind" \in DOMAIN job /\ job.kind \in JobKinds
       /\ job.kind \in {"sync", "stop"} => "routes" \in DOMAIN job
       /\ job.kind = "import" => "result" \in DOMAIN job

JobsOK == DOMAIN jobs = Jobs /\ \A j \in Jobs : JobOK(jobs[j])

\* A call of the page starts.
LEMMA CallStarts ==
  ASSUME JobsOK, NEW j \in Jobs, NEW job, Call(j, job), JobOK(job), job.pc = "waiting"
  PROVE  /\ JobsOK' /\ Waiting' = Waiting \union {j} /\ j \notin Waiting
         /\ \A i \in Jobs : i # j => jobs'[i] = jobs[i]
         /\ jobs'[j] = job
         /\ calm' = (Waiting = {} /\ (calm \/ job.kind = "sync"))
         /\ spent.pushes > 0 /\ spent' = [spent EXCEPT !.pushes = @ - 1]
<1>1. /\ jobs' = [jobs EXCEPT ![j] = job] /\ jobs[j].pc = "idle" /\ DOMAIN jobs = Jobs
      /\ calm' = (Waiting = {} /\ (calm \/ job.kind = "sync"))
      /\ spent.pushes > 0 /\ spent' = [spent EXCEPT !.pushes = @ - 1]
  BY DEF Call, Spend, JobsOK
<1>2. JobsOK'
  BY <1>1 DEF JobsOK
<1>3. Waiting' = Waiting \union {j} /\ j \notin Waiting
  BY <1>1 DEF Waiting
<1> QED
  BY <1>1, <1>2, <1>3

\* The server takes a call, it fails, or the page sees its end.
LEMMA JobAnswered ==
  ASSUME JobsOK, NEW j \in Jobs, Handle(j)
  PROVE  /\ JobsOK' /\ Waiting' = Waiting /\ j \in Waiting
         /\ \A i \in Jobs : i # j => jobs'[i] = jobs[i]
         /\ jobs[j].pc = "waiting" /\ jobs'[j].pc = "answered" /\ jobs'[j].kind = jobs[j].kind
         /\ jobs[j].kind \in {"sync", "stop"} => jobs'[j].routes = jobs[j].routes
         /\ jobs[j].kind = "import" => jobs'[j].result = routes'
<1>1. jobs[j].pc = "waiting" /\ JobOK(jobs[j]) /\ DOMAIN jobs = Jobs
  BY DEF Handle, JobsOK
<1>2. /\ DOMAIN jobs' = Jobs /\ \A i \in Jobs : i # j => jobs'[i] = jobs[i]
      /\ jobs'[j].pc = "answered" /\ jobs'[j].kind = jobs[j].kind
      /\ jobs[j].kind \in {"sync", "stop"} => jobs'[j].routes = jobs[j].routes
      /\ DOMAIN jobs'[j] = DOMAIN jobs[j]
      /\ jobs[j].kind = "import" => jobs'[j].result = routes'
  <2>1. CASE Answer(j) /\ jobs[j].kind # "import"
    BY <1>1, <2>1 DEF Answer, JobOK
  <2>2. CASE /\ jobs' = [jobs EXCEPT ![j].pc = "answered", ![j].result = routes']
             /\ jobs[j].kind = "import"
    BY <1>1, <2>2 DEF JobOK
  <2> QED
    BY <2>1, <2>2 DEF Handle
<1>3. JobOK(jobs'[j])
  BY <1>1, <1>2 DEF JobOK
<1>4. JobsOK'
  BY <1>2, <1>3 DEF JobsOK
<1>5. Waiting' = Waiting /\ j \in Waiting
  BY <1>1, <1>2 DEF Waiting
<1> QED
  BY <1>1, <1>2, <1>4, <1>5

LEMMA JobFails ==
  ASSUME JobsOK, NEW j \in Jobs, Fails(j)
  PROVE  /\ JobsOK' /\ Waiting' = Waiting /\ jobs'[j].pc = "failed"
         /\ \A i \in Jobs : i # j => jobs'[i] = jobs[i]
         /\ \A f \in DOMAIN jobs[j] : f # "pc" => jobs'[j][f] = jobs[j][f]
<1>1. /\ jobs' = [jobs EXCEPT ![j].pc = "failed"] /\ jobs[j].pc # "idle"
      /\ JobOK(jobs[j]) /\ DOMAIN jobs = Jobs
  BY DEF Fails, JobsOK
<1>2. /\ DOMAIN jobs' = Jobs /\ jobs'[j] = [jobs[j] EXCEPT !.pc = "failed"]
      /\ \A i \in Jobs : i # j => jobs'[i] = jobs[i]
  BY <1>1
<1>3. JobOK(jobs'[j]) /\ jobs'[j].pc = "failed"
  BY <1>1, <1>2 DEF JobOK
<1>4. JobsOK' /\ Waiting' = Waiting
  BY <1>1, <1>2, <1>3 DEF JobsOK, Waiting
<1> QED
  BY <1>1, <1>2, <1>3, <1>4

LEMMA JobSettles ==
  ASSUME JobsOK, NEW j \in Jobs, Settles(j)
  PROVE  /\ JobsOK' /\ Waiting' = Waiting \ {j} /\ j \in Waiting /\ jobs'[j] = Idle
         /\ \A i \in Jobs : i # j => jobs'[i] = jobs[i]
<1>1. /\ jobs' = [jobs EXCEPT ![j] = Idle] /\ jobs[j].pc # "idle" /\ DOMAIN jobs = Jobs
  BY DEF Settles, JobsOK
<1>2. JobOK(Idle) /\ Idle.pc = "idle"
  BY DEF JobOK, Idle
<1> QED
  BY <1>1, <1>2 DEF JobsOK, Waiting

LEMMA JobsLost ==
  ASSUME JobsOK, Restart
  PROVE  /\ JobsOK' /\ Waiting' = Waiting
         /\ \A j \in Jobs : /\ jobs'[j].pc = IF jobs[j].pc = "waiting" THEN "failed" ELSE jobs[j].pc
                            /\ \A f \in DOMAIN jobs[j] : f # "pc" => jobs'[j][f] = jobs[j][f]
<1>1. jobs' = [j \in Jobs |-> IF jobs[j].pc = "waiting" THEN [jobs[j] EXCEPT !.pc = "failed"] ELSE jobs[j]]
  BY DEF Restart
<1>2. ASSUME NEW j \in Jobs
      PROVE  /\ JobOK(jobs'[j])
             /\ jobs'[j].pc = IF jobs[j].pc = "waiting" THEN "failed" ELSE jobs[j].pc
             /\ \A f \in DOMAIN jobs[j] : f # "pc" => jobs'[j][f] = jobs[j][f]
  <2>1. JobOK(jobs[j])
    BY DEF JobsOK
  <2>2. jobs'[j] = IF jobs[j].pc = "waiting" THEN [jobs[j] EXCEPT !.pc = "failed"] ELSE jobs[j]
    BY <1>1
  <2> QED
    BY <2>1, <2>2 DEF JobOK
<1> QED
  BY <1>1, <1>2 DEF JobsOK, Waiting

\* The one call that may be under way in a calm, and what it has done.
CalmJob(j) ==
  /\ jobs[j].pc # "failed"
  /\ jobs[j].kind = "sync" =>
       /\ mockStatus = "Syncing..." /\ jobs[j].routes = saved
       /\ jobs[j].pc = "answered" => routes = saved
  /\ jobs[j].kind = "stop" => mockStatus = "Stopping..."
  /\ jobs[j].kind = "import" /\ jobs[j].pc = "answered" => jobs[j].result = routes

CalmHolds ==
  calm => /\ \A i, j \in Waiting : i = j
          /\ \A j \in Waiting : CalmJob(j)
          /\ mockStatus = "Active" =>
               \/ routes = saved
               \/ \E j \in Waiting : jobs[j].kind = "import" /\ jobs[j].pc = "answered"

ActiveInv == JobsOK /\ CalmHolds

\* A call starts: the calm goes on if it is the only one.
LEMMA ActiveCall ==
  ASSUME ActiveInv, NEW j \in Jobs, NEW job, JobOK(job), job.pc = "waiting", Call(j, job),
         UNCHANGED <<routes, saved>>,
         job.kind = "sync" => mockStatus' = "Syncing..." /\ job.routes = saved,
         job.kind = "stop" => mockStatus' = "Stopping...",
         job.kind \notin {"sync", "stop"} => UNCHANGED mockStatus
  PROVE  ActiveInv'
<1>1. /\ JobsOK' /\ Waiting' = Waiting \union {j} /\ jobs'[j] = job
      /\ calm' = (Waiting = {} /\ (calm \/ job.kind = "sync"))
  BY CallStarts DEF ActiveInv
<1>2. ASSUME calm' PROVE CalmHolds'
  <2>1. Waiting = {} /\ Waiting' = {j} /\ (calm \/ job.kind = "sync")
    BY <1>1, <1>2
  <2>2. CalmJob(j)'
    BY <1>1, <2>1 DEF CalmJob
  <2>3. mockStatus' = "Active" => routes' = saved'
    BY <2>1 DEF ActiveInv, CalmHolds, JobOK, JobKinds
  <2> QED
    BY <2>1, <2>2, <2>3 DEF CalmHolds
<1> QED
  BY <1>1, <1>2 DEF ActiveInv, CalmHolds

\* The server takes a call, which changes its routes.
LEMMA ActiveHandled ==
  ASSUME ActiveInv, NEW j \in Jobs, Handle(j)
  PROVE  ActiveInv'
<1>1. /\ JobsOK' /\ Waiting' = Waiting /\ j \in Waiting
      /\ jobs[j].pc = "waiting" /\ jobs'[j].pc = "answered" /\ jobs'[j].kind = jobs[j].kind
      /\ jobs[j].kind \in {"sync", "stop"} => jobs'[j].routes = jobs[j].routes
      /\ jobs[j].kind = "import" => jobs'[j].result = routes'
  BY JobAnswered DEF ActiveInv
<1>2. UNCHANGED <<saved, mockStatus, calm>>
  BY DEF Handle
<1>3. /\ jobs[j].kind \in {"sync", "stop"} => routes' = jobs[j].routes
      /\ jobs[j].kind \in {"clear logs", "clear records"} => routes' = routes
  BY DEF Handle, replaceRoutes, Reset
<1>4. jobs[j].kind \in JobKinds
  BY <1>1 DEF ActiveInv, JobsOK, JobOK
<1>5. ASSUME calm PROVE CalmHolds'
  <2>1. \A i \in Waiting : i = j
    BY <1>1, <1>5 DEF ActiveInv, CalmHolds
  <2>2. CalmJob(j) /\ (mockStatus = "Active" => routes = saved)
    BY <1>1, <1>5, <2>1 DEF ActiveInv, CalmHolds
  <2>3. CalmJob(j)'
    BY <1>1, <1>2, <1>3, <2>2 DEF CalmJob
  <2>4. mockStatus' = "Active" => routes' = saved' \/ (jobs'[j].kind = "import" /\ jobs'[j].pc = "answered")
    BY <1>1, <1>2, <1>3, <1>4, <2>2 DEF CalmJob, JobKinds
  <2> QED
    BY <1>1, <2>1, <2>3, <2>4 DEF CalmHolds
<1> QED
  BY <1>1, <1>2, <1>5 DEF ActiveInv, CalmHolds

\* The page sees how a call ended.
LEMMA ActiveSettled ==
  ASSUME ActiveInv, NEW j \in Jobs, Settles(j)
  PROVE  ActiveInv'
<1>1. JobsOK' /\ Waiting' = Waiting \ {j} /\ j \in Waiting
  BY JobSettles DEF ActiveInv
<1>2. routes' = routes /\ jobs[j].pc \in {"answered", "failed"}
  BY DEF Settles, serverVars
<1>4. NotStored(j) \/ UNCHANGED calm
  BY DEF Settles
<1>5. NotStored(j) => ~calm'
  BY Zenon DEF NotStored
<1>6. calm' => calm
  BY <1>4, <1>5, Zenon
<1>3. ASSUME calm, calm' PROVE CalmHolds'
  <2>0. ~NotStored(j)
    BY <1>3, <1>5
  <2>1. Waiting' = {} /\ \A i \in Waiting : i = j
    BY <1>1, <1>3 DEF ActiveInv, CalmHolds
  <2>2. CalmJob(j) /\ jobs[j].kind \in JobKinds
    BY <1>1, <1>2, <1>3 DEF ActiveInv, CalmHolds, JobsOK, JobOK
  <2>3. jobs[j].pc = "answered"
    BY <1>2, <2>2 DEF CalmJob
  <2>4. mockStatus' = "Active" => routes' = saved'
    <3>1. CASE jobs[j].kind = "sync"
      BY <1>2, <2>0, <2>2, <2>3, <3>1 DEF Settles, onSuccess, CalmJob
    <3>2. CASE jobs[j].kind = "import"
      BY <1>2, <2>0, <2>2, <2>3, <3>2 DEF Settles, onSuccess, CalmJob
    <3>3. CASE jobs[j].kind = "stop"
      BY <2>2, <2>3, <3>3 DEF Settles, CalmJob
    <3>4. CASE jobs[j].kind \in {"clear logs", "clear records"}
      <4>1. UNCHANGED <<mockStatus, saved>>
        BY <2>3, <3>4 DEF Settles
      <4> QED
        BY <1>2, <1>3, <2>1, <3>4, <4>1 DEF ActiveInv, CalmHolds
    <3> QED
      BY <2>2, <3>1, <3>2, <3>3, <3>4 DEF JobKinds
  <2> QED
    BY <2>1, <2>4 DEF CalmHolds
<1> QED
  BY <1>1, <1>3, <1>6 DEF ActiveInv, CalmHolds

\* While the panel says Active and nothing is under way, the server answers
\* with exactly the routes that the user sees, for any number of calls of the
\* page, requests and imports, if none was edited since, no two calls
\* overlapped, none failed, the database refused nothing and the server was
\* not restarted (MockPanel.sync, useImportProxyToMocks).
THEOREM ActiveRoutesAreServed == MockSpec => []ActiveIsServed
<1>1. MockInit => ActiveInv
  <2> SUFFICES ASSUME MockInit PROVE ActiveInv
    OBVIOUS
  <2>1. ~calm /\ jobs = [j \in Jobs |-> Idle]
    BY DEF MockInit
  <2>2. JobOK(Idle)
    BY DEF JobOK, Idle
  <2> QED
    BY <2>1, <2>2 DEF ActiveInv, JobsOK, CalmHolds
<1>2. ActiveInv /\ [MockNext]_mockVars => ActiveInv'
  <2> SUFFICES ASSUME ActiveInv, [MockNext]_mockVars PROVE ActiveInv'
    OBVIOUS
  <2>1. ASSUME UNCHANGED <<routes, saved, mockStatus, jobs, calm>> PROVE ActiveInv'
    BY <2>1 DEF ActiveInv, JobsOK, CalmHolds, CalmJob, Waiting
  <2>2. ASSUME JobsOK', ~calm' PROVE ActiveInv'
    BY <2>2 DEF ActiveInv, CalmHolds
  <2>3. ASSUME UNCHANGED jobs, ~calm' PROVE ActiveInv'
    BY <2>2, <2>3 DEF ActiveInv, JobsOK
  <2>4. CASE UNCHANGED mockVars
    BY <2>1, <2>4 DEF mockVars, serverVars, pageVars
  <2>5. ASSUME NEW j \in Jobs, sync(j) PROVE ActiveInv'
    <3> DEFINE job == [pc |-> "waiting", kind |-> "sync", routes |-> saved]
    <3>1. JobOK(job) /\ job.pc = "waiting" /\ job.kind = "sync" /\ job.routes = saved
      BY DEF JobOK, JobKinds
    <3>2. Call(j, job) /\ mockStatus' = "Syncing..." /\ UNCHANGED <<routes, saved>>
      BY <2>5 DEF sync, serverVars
    <3> HIDE DEF job
    <3> QED
      BY <3>1, <3>2, ActiveCall
  <2>6. ASSUME NEW j \in Jobs, stop(j) PROVE ActiveInv'
    <3> DEFINE job == [pc |-> "waiting", kind |-> "stop", routes |-> <<>>]
    <3>1. JobOK(job) /\ job.pc = "waiting" /\ job.kind = "stop"
      BY DEF JobOK, JobKinds
    <3>2. Call(j, job) /\ mockStatus' = "Stopping..." /\ UNCHANGED <<routes, saved>>
      BY <2>6 DEF stop, serverVars
    <3> HIDE DEF job
    <3> QED
      BY <3>1, <3>2, ActiveCall
  <2>7. ASSUME NEW j \in Jobs, clearLogs(j) \/ importSelected(j) \/ clearRecords(j) PROVE ActiveInv'
    <3>1. PICK job : /\ JobOK(job) /\ job.pc = "waiting" /\ job.kind \notin {"sync", "stop"}
                     /\ Call(j, job)
      <4>1. \A ids : /\ JobOK([pc |-> "waiting", kind |-> "import", ids |-> ids, result |-> <<>>])
                     /\ JobOK([pc |-> "waiting", kind |-> "clear logs"])
                     /\ JobOK([pc |-> "waiting", kind |-> "clear records"])
        BY DEF JobOK, JobKinds
      <4>2. CASE clearLogs(j)
        BY <4>1, <4>2 DEF clearLogs
      <4>3. CASE importSelected(j)
        BY <4>1, <4>3 DEF importSelected
      <4>4. CASE clearRecords(j)
        BY <4>1, <4>4 DEF clearRecords
      <4> QED
        BY <2>7, <4>2, <4>3, <4>4
    <3>2. UNCHANGED <<routes, saved, mockStatus>>
      BY <2>7 DEF clearLogs, importSelected, clearRecords, serverVars
    <3> QED
      BY <3>1, <3>2, ActiveCall
  <2>8. ASSUME NEW j \in Jobs, Settles(j) PROVE ActiveInv'
    BY <2>8, ActiveSettled
  <2>9. CASE openRoute
    BY <2>1, <2>9 DEF openRoute, serverVars
  <2>10. CASE \E next : persistRoutes(next)
    BY <2>3, <2>10 DEF persistRoutes
  <2>11. CASE PanelNext
    BY <2>3, <2>5, <2>6, <2>7, <2>8, <2>9, <2>10, <2>11
       DEF PanelNext, saveRoute, importRoutes, deleteAll, deleteRoute, toggleEnabled, leavePanel
  <2>12. ASSUME NEW c \in Clients, NEW q \in Requests, mockCatchAll(c, q) PROVE ActiveInv'
    BY <2>1, <2>12 DEF mockCatchAll, pageVars
  <2>13. ASSUME NEW c \in Clients, Slept(c) PROVE ActiveInv'
    BY <2>1, <2>13 DEF Slept, pageVars
  <2>14. ASSUME NEW j \in Jobs, Handle(j) PROVE ActiveInv'
    BY <2>14, ActiveHandled
  <2>15. ASSUME NEW j \in Jobs, Fails(j) PROVE ActiveInv'
    BY <2>2, <2>15, JobFails DEF Fails, ActiveInv
  <2>16. CASE Restart
    BY <2>2, <2>16, JobsLost DEF Restart, ActiveInv
  <2>17. ASSUME NEW t \in Targets, ProxyRequest(t) PROVE ActiveInv'
    BY <2>1, <2>17 DEF ProxyRequest, pageVars
  <2> QED
    BY <2>4, <2>11, <2>12, <2>13, <2>14, <2>15, <2>16, <2>17 DEF MockNext, MockServerNext
<1>3. ActiveInv => ActiveIsServed
  BY DEF ActiveInv, CalmHolds, ActiveIsServed
<1> QED
  BY <1>1, <1>2, <1>3, PTL DEF MockSpec

-----------------------------------------------------------------------------
(* The mock gRPC server.                                                   *)

Hits(m) == {i \in DOMAIN grpcRoutes : grpcRoutes[i].enabled /\ grpcRoutes[i].fullMethod = m}
First(m) == CHOOSE i \in Hits(m) : \A k \in Hits(m) : i <= k

\* The index of a method counts the responses given, by its first route.
GrpcInv ==
  /\ \A i \in DOMAIN grpcRoutes : IsSeq(grpcRoutes[i].responses) /\ grpcRoutes[i].responses # <<>>
  /\ IsSeq(grpcRoutes)
  /\ DOMAIN grpcIndex = DOMAIN given
  /\ \A m \in DOMAIN given :
       /\ Hits(m) # {} /\ IsSeq(given[m]) /\ grpcIndex[m] = Len(given[m])
       /\ LET responses == grpcRoutes[First(m)].responses
          IN \A k \in 1..Len(given[m]) : given[m][k] = responses[((k - 1) % Len(responses)) + 1]

LEMMA FirstIsHit ==
  ASSUME GrpcInv, NEW m, Hits(m) # {}
  PROVE  First(m) \in Hits(m)
<1>1. Hits(m) \in SUBSET Nat
  BY DEF GrpcInv, IsSeq, Hits
<1> QED
  BY <1>1, LeastNumber DEF First

LEMMA GrpcStays ==
  ASSUME GrpcInv, UNCHANGED <<grpcRoutes, grpcIndex, given>>
  PROVE  GrpcInv'
<1>1. \A m : Hits(m)' = Hits(m) /\ First(m)' = First(m)
  BY DEF Hits, First
<1> QED
  BY <1>1 DEF GrpcInv

\* A call is given the next response of its method, if there is one.
LEMMA InvokeStep ==
  ASSUME GrpcInv, NEW c \in GrpcClients, NEW m \in Methods, invoke(c, m)
  PROVE  GrpcInv'
<1>1. UNCHANGED grpcRoutes
  BY DEF invoke
<1>2. CASE Hits(m) = {}
  <2>1. UNCHANGED <<grpcIndex, given>>
    BY <1>2 DEF invoke, Hits
  <2> QED
    BY <1>1, <2>1, GrpcStays
<1>3. CASE Hits(m) # {}
  <2> DEFINE responses == grpcRoutes[First(m)].responses
             idx == Of(grpcIndex, m, 0)
             before == Of(given, m, <<>>)
             response == responses[(idx % Len(responses)) + 1]
             after == Append(before, response)
  <2>1. grpcIndex' = With(grpcIndex, m, idx + 1) /\ given' = With(given, m, after)
    BY <1>3 DEF invoke, Hits, First
  <2>2. First(m) \in DOMAIN grpcRoutes
    BY <1>3, FirstIsHit DEF Hits
  <2>3. /\ IsSeq(before) /\ idx = Len(before)
        /\ \A k \in 1..Len(before) : before[k] = responses[((k - 1) % Len(responses)) + 1]
    <3>1. CASE m \in DOMAIN given
      BY <3>1 DEF GrpcInv, Of
    <3>2. CASE m \notin DOMAIN given
      <4>1. before = <<>> /\ idx = 0
        BY <3>2 DEF GrpcInv, Of
      <4>2. IsSeq(<<>>) /\ Len(<<>>) = 0
        <5>1. <<>> \in Seq({})
          OBVIOUS
        <5> QED
          BY <5>1, SeqOfItsElements
      <4> HIDE DEF before, idx
      <4> QED
        BY <4>1, <4>2
    <3> QED
      BY <3>1, <3>2
  <2> HIDE DEF responses, idx, before
  <2>4. /\ IsSeq(after) /\ Len(after) = Len(before) + 1 /\ after[Len(before) + 1] = response
        /\ \A k \in 1..Len(before) : after[k] = before[k]
        /\ Len(before) \in Nat
    <3> DEFINE T == ToSet(before) \union {response}
    <3>1. before \in Seq(T) /\ response \in T
      <4>1. \A k \in 1..Len(before) : before[k] \in T
        BY DEF ToSet
      <4> QED
        BY <2>3, <4>1 DEF IsSeq
    <3> HIDE DEF T
    <3>2. after \in Seq(T)
      BY <3>1
    <3>3. IsSeq(after)
      BY <3>2, SeqOfItsElements
    <3> QED
      BY <3>1, <3>3
  <2> HIDE DEF after
  <2>5. ASSUME NEW k \in 1..Len(after) PROVE after[k] = responses[((k - 1) % Len(responses)) + 1]
    <3>1. CASE k = Len(before) + 1
      <4>1. k - 1 = idx
        BY <2>3, <2>4, <3>1
      <4> QED
        BY <2>4, <3>1, <4>1
    <3>2. CASE k \in 1..Len(before)
      BY <2>3, <2>4, <3>2
    <3> QED
      BY <2>4, <3>1, <3>2
  <2>6. /\ DOMAIN given' = DOMAIN given \union {m} /\ DOMAIN grpcIndex' = DOMAIN grpcIndex \union {m}
        /\ given'[m] = after /\ grpcIndex'[m] = Len(after)
        /\ \A n \in DOMAIN given : n # m => given'[n] = given[n]
        /\ \A n \in DOMAIN grpcIndex : n # m => grpcIndex'[n] = grpcIndex[n]
    BY <2>1, <2>3, <2>4 DEF With
  <2>7. \A n : Hits(n)' = Hits(n) /\ First(n)' = First(n)
    BY <1>1 DEF Hits, First
  <2>8. ASSUME NEW n \in DOMAIN given'
        PROVE  /\ Hits(n)' # {} /\ IsSeq(given'[n]) /\ grpcIndex'[n] = Len(given'[n])
               /\ LET r == grpcRoutes'[First(n)'].responses
                  IN \A k \in 1..Len(given'[n]) : given'[n][k] = r[((k - 1) % Len(r)) + 1]
    <3>1. CASE n = m
      BY <1>1, <1>3, <2>4, <2>5, <2>6, <2>7, <3>1 DEF responses
    <3>2. CASE n # m
      <4>1. n \in DOMAIN given /\ n \in DOMAIN grpcIndex /\ given'[n] = given[n] /\ grpcIndex'[n] = grpcIndex[n]
        BY <2>6, <2>8, <3>2 DEF GrpcInv
      <4>2. /\ Hits(n) # {} /\ IsSeq(given[n]) /\ grpcIndex[n] = Len(given[n])
            /\ LET r == grpcRoutes[First(n)].responses
               IN \A k \in 1..Len(given[n]) : given[n][k] = r[((k - 1) % Len(r)) + 1]
        BY <4>1, Zenon DEF GrpcInv
      <4>3. Hits(n)' = Hits(n) /\ First(n)' = First(n) /\ grpcRoutes' = grpcRoutes
        BY <1>1, <2>7
      <4> QED
        BY <4>1, <4>2, <4>3, Zenon
    <3> QED
      BY <3>1, <3>2
  <2>9. DOMAIN grpcIndex' = DOMAIN given'
    BY <2>6 DEF GrpcInv
  <2> QED
    BY <1>1, <2>7, <2>8, <2>9 DEF GrpcInv
<1> QED
  BY <1>2, <1>3

\* Overlapping calls of a method are given its responses in order, round and
\* round, each once in a round, for any list of routes and any number of
\* callers, and a new list starts with the first (MockGrpcStore.invoke).
THEOREM ResponsesComeInOrder == GrpcMockSpec => []ResponsesInOrder
<1>1. GrpcMockInit => GrpcInv
  <2>1. IsSeq(<<>>) /\ DOMAIN <<>> = {}
    <3>1. <<>> \in Seq({}) /\ DOMAIN <<>> = {}
      OBVIOUS
    <3> QED
      BY <3>1, SeqOfItsElements
  <2> QED
    BY <2>1 DEF GrpcMockInit, GrpcInv
<1>2. GrpcInv /\ [GrpcMockNext]_grpcVars => GrpcInv'
  <2> SUFFICES ASSUME GrpcInv, [GrpcMockNext]_grpcVars PROVE GrpcInv'
    OBVIOUS
  <2>1. ASSUME UNCHANGED <<grpcRoutes, grpcIndex, given>> PROVE GrpcInv'
    BY <2>1, GrpcStays
  <2>2. ASSUME NEW next \in GrpcConfigs, grpcReplaceRoutes(next) PROVE GrpcInv'
    <3>1. IsSeq(next) /\ \A i \in DOMAIN next : IsSeq(next[i].responses) /\ next[i].responses # <<>>
      BY GrpcMockAssumption
    <3>2. DOMAIN <<>> = {}
      OBVIOUS
    <3> QED
      BY <2>2, <3>1, <3>2 DEF grpcReplaceRoutes, GrpcInv
  <2>3. ASSUME NEW c \in GrpcClients, NEW m \in Methods, invoke(c, m) PROVE GrpcInv'
    BY <2>3, InvokeStep
  <2>4. CASE UNCHANGED grpcVars
    BY <2>1, <2>4 DEF grpcVars
  <2>5. CASE grpcClearLogs \/ \E c \in GrpcClients : LatencyOver(c)
    BY <2>1, <2>5 DEF grpcClearLogs, LatencyOver
  <2>6. CASE start \/ stopRecording
    BY <2>1, <2>6 DEF start, stopRecording, storeVars
  <2> QED
    BY <2>2, <2>3, <2>4, <2>5, <2>6 DEF GrpcMockNext
<1>3. GrpcInv => ResponsesInOrder
  <2> SUFFICES ASSUME GrpcInv, NEW m \in DOMAIN given
               PROVE  \E i \in DOMAIN grpcRoutes :
                        /\ grpcRoutes[i].fullMethod = m
                        /\ \A k \in DOMAIN given[m] :
                             given[m][k] = grpcRoutes[i].responses[((k - 1) % Len(grpcRoutes[i].responses)) + 1]
    BY DEF ResponsesInOrder
  <2>1. First(m) \in Hits(m)
    BY FirstIsHit DEF GrpcInv
  <2>2. DOMAIN given[m] = 1..Len(given[m])
    BY DEF GrpcInv, IsSeq
  <2>3. First(m) \in DOMAIN grpcRoutes /\ grpcRoutes[First(m)].fullMethod = m
    BY <2>1 DEF Hits
  <2>4. LET responses == grpcRoutes[First(m)].responses
        IN \A k \in 1..Len(given[m]) : given[m][k] = responses[((k - 1) % Len(responses)) + 1]
    BY Zenon DEF GrpcInv
  <2> QED
    BY <2>2, <2>3, <2>4, Zenon
<1> QED
  BY <1>1, <1>2, <1>3, PTL DEF GrpcMockSpec

-----------------------------------------------------------------------------
(* The routes of the mock server: their ids, and the lists they are in.    *)

\* NewId(i) is Gap(spent.pushes) + i.  What was made before lies above the
\* horizon, which sinks with every call of the page.
Gap(n) == (RecordCap + 1) * (n + 1)
Importing == \E j \in Jobs : jobs[j].pc = "waiting" /\ jobs[j].kind = "import"
Horizon == Gap(spent.pushes) + (IF Importing THEN RecordCap + 1 ELSE 0)

LEMMA GapFacts ==
  ASSUME NEW n \in Nat
  PROVE  Gap(n) \in Nat /\ Gap(n) >= RecordCap + 1 /\ Gap(n + 1) = Gap(n) + (RecordCap + 1)
<1>1. ASSUME NEW r \in Nat
      PROVE  r * (n + 1) \in Nat /\ r * (n + 1) >= r /\ r * (n + 2) = r * (n + 1) + r
  <2>1. r * (n + 1) = r * n + r /\ r * n \in Nat
    OBVIOUS
  <2>2. r * (n + 2) = r * n + r + r
    OBVIOUS
  <2> QED
    BY <2>1, <2>2
<1>2. RecordCap + 1 \in Nat
  BY MockAssumption
<1>3. n + 1 + 1 = n + 2
  OBVIOUS
<1> QED
  BY <1>1, <1>2, <1>3 DEF Gap

IsRoute(r) == DOMAIN r = RouteFields /\ r.id \in Nat /\ IsSeq(r.sequences)
IsList(list, h) ==
  /\ IsSeq(list)
  /\ \A i \in 1..Len(list) : IsRoute(list[i]) /\ (list[i].id <= RecordCap + 1 \/ h < list[i].id)

LEMMA ListAbove ==
  ASSUME NEW h \in Nat, NEW g \in Nat, g <= h, NEW list, IsList(list, h)
  PROVE  IsList(list, g)
BY DEF IsList, IsRoute

LEMMA UserList ==
  ASSUME NEW h \in Nat, NEW list \in StoredRoutes \union Imports
  PROVE  IsList(list, h)
<1>1. list \in Seq(UserRoutes) /\ RecordCap \in Nat
  BY MockAssumption
<1>2. IsSeq(list)
  BY <1>1, SeqOfItsElements
<1>3. \A r \in UserRoutes : IsRoute(r) /\ r.id <= RecordCap + 1
  BY MockAssumption DEF IsRoute
<1> QED
  BY <1>1, <1>2, <1>3 DEF IsList

LEMMA EmptyList ==
  ASSUME NEW h
  PROVE  IsList(<<>>, h)
<1>1. <<>> \in Seq({}) /\ 1..Len(<<>>) = {}
  OBVIOUS
<1>2. IsSeq(<<>>)
  BY <1>1, SeqOfItsElements
<1> QED
  BY <1>1, <1>2 DEF IsList

\* What is kept of a list, and two lists in a row.
LEMMA OnlyList ==
  ASSUME NEW h, NEW list, IsList(list, h), NEW S
  PROVE  IsList(Only(list, S), h)
<1>1. list \in Seq(ToSet(list))
  BY DEF IsList, IsSeq
<1>2. /\ Only(list, S) \in Seq(ToSet(list))
      /\ \E at : Picks(Only(list, S), list, S, Len(list), at)
  BY <1>1, OnlyPicks
<1>3. IsSeq(Only(list, S))
  BY <1>2, SeqOfItsElements
<1>4. PICK at : Picks(Only(list, S), list, S, Len(list), at)
  BY <1>2
<1>5. \A k \in 1..Len(Only(list, S)) : \E i \in 1..Len(list) : Only(list, S)[k] = list[i]
  BY <1>4 DEF Picks
<1> QED
  BY <1>3, <1>5 DEF IsList

\* What a sequence and one after it are made of.
LEMMA Joined ==
  ASSUME NEW a, NEW b, IsSeq(a), IsSeq(b)
  PROVE  /\ IsSeq(a \o b) /\ Len(a \o b) = Len(a) + Len(b)
         /\ Len(a) \in Nat /\ Len(b) \in Nat
         /\ \A i \in 1..Len(a) : (a \o b)[i] = a[i]
         /\ \A i \in 1..Len(b) : (a \o b)[Len(a) + i] = b[i]
         /\ \A i \in 1..(Len(a) + Len(b)) :
              i \in 1..Len(a) \/ (i - Len(a) \in 1..Len(b) /\ i = Len(a) + (i - Len(a)))
<1> DEFINE T == ToSet(a) \union ToSet(b)
<1>1. a \in Seq(T) /\ b \in Seq(T)
  <2>1. (\A i \in 1..Len(a) : a[i] \in T) /\ (\A i \in 1..Len(b) : b[i] \in T)
    BY DEF ToSet, IsSeq
  <2> HIDE DEF T
  <2> QED
    BY <2>1 DEF IsSeq
<1> HIDE DEF T
<1>2. /\ a \o b \in Seq(T) /\ Len(a \o b) = Len(a) + Len(b)
      /\ Len(a) \in Nat /\ Len(b) \in Nat
  BY <1>1
<1>3. IsSeq(a \o b)
  BY <1>2, SeqOfItsElements
<1>4. \A i \in 1..Len(a) : (a \o b)[i] = a[i]
  BY <1>1, <1>2
<1>5. \A i \in 1..Len(b) : (a \o b)[Len(a) + i] = b[i]
  BY <1>1, <1>2
<1> QED
  BY <1>2, <1>3, <1>4, <1>5

LEMMA JoinedList ==
  ASSUME NEW h, NEW a, NEW b, IsList(a, h), IsList(b, h)
  PROVE  IsList(a \o b, h)
<1>1. IsSeq(a) /\ IsSeq(b)
  BY DEF IsList
<1>2. IsSeq(a \o b)
  BY <1>1, Joined
<1>3. ASSUME NEW i \in 1..Len(a \o b)
      PROVE  (\E k \in 1..Len(a) : (a \o b)[i] = a[k]) \/ (\E k \in 1..Len(b) : (a \o b)[i] = b[k])
  <2>1. CASE i \in 1..Len(a)
    BY <1>1, <2>1, Joined
  <2>2. CASE i - Len(a) \in 1..Len(b) /\ i = Len(a) + (i - Len(a))
    <3>1. (a \o b)[Len(a) + (i - Len(a))] = b[i - Len(a)]
      BY <1>1, <2>2, Joined
    <3> QED
      BY <2>2, <3>1
  <2>3. i \in 1..(Len(a) + Len(b))
    BY <1>1, Joined
  <2> QED
    BY <1>1, <2>1, <2>2, <2>3, Joined
<1> QED
  BY <1>2, <1>3 DEF IsList

\* A list that is changed in place, or at its end.
LEMMA MappedList ==
  ASSUME NEW h, NEW list, IsList(list, h), NEW to, DOMAIN to = DOMAIN list,
         to = [i \in DOMAIN list |-> to[i]],
         \A i \in 1..Len(list) : IsRoute(to[i]) /\ (to[i].id <= RecordCap + 1 \/ h < to[i].id)
  PROVE  IsList(to, h)
<1>1. DOMAIN list = 1..Len(list) /\ Len(list) \in Nat
  BY DEF IsList, IsSeq
<1>2. to \in Seq(ToSet(to)) /\ Len(to) = Len(list)
  <2> DEFINE T == ToSet(to)
  <2>1. \A i \in 1..Len(list) : to[i] \in T
    BY <1>1 DEF ToSet
  <2> HIDE DEF T
  <2>2. to \in [1..Len(list) -> T]
    BY <1>1, <2>1
  <2>3. to \in Seq(T)
    BY <1>1, <2>2
  <2> QED
    BY <1>1, <2>2, <2>3 DEF T
<1> QED
  BY <1>2 DEF IsList, IsSeq

LEMMA LongerList ==
  ASSUME NEW h, NEW list, IsList(list, h), NEW r, IsRoute(r), r.id <= RecordCap + 1 \/ h < r.id
  PROVE  IsList(Append(list, r), h)
<1> DEFINE T == ToSet(list) \union {r}
<1>1. list \in Seq(T) /\ r \in T
  <2>1. \A i \in 1..Len(list) : list[i] \in T
    BY DEF ToSet, IsList, IsSeq
  <2> HIDE DEF T
  <2>2. list \in Seq(T)
    BY <2>1 DEF IsList, IsSeq
  <2> QED
    BY <2>2 DEF T
<1> HIDE DEF T
<1>2. /\ Append(list, r) \in Seq(T) /\ Len(Append(list, r)) = Len(list) + 1
      /\ Append(list, r)[Len(list) + 1] = r
      /\ \A i \in 1..Len(list) : Append(list, r)[i] = list[i]
      /\ \A i \in 1..(Len(list) + 1) : i \in 1..Len(list) \/ i = Len(list) + 1
  BY <1>1
<1>3. IsSeq(Append(list, r))
  BY <1>2, SeqOfItsElements
<1> QED
  BY <1>2, <1>3 DEF IsList

\* No more is kept than there was.
LEMMA PicksFewer ==
  ASSUME NEW t, NEW s, NEW S, NEW n \in Nat, NEW at, Picks(t, s, S, n, at)
  PROVE  Len(t) <= n
<1>0. at \in Seq(1..n) /\ Len(t) = Len(at) /\ \A k, l \in 1..Len(at) : k < l => at[k] < at[l]
  BY Zenon DEF Picks
<1>1. /\ at \in Seq(1..n) /\ Len(at) \in Nat /\ Len(t) = Len(at)
      /\ \A k \in 1..Len(at) : at[k] \in 1..n
      /\ \A k, l \in 1..Len(at) : k < l => at[k] < at[l]
  BY <1>0
<1> DEFINE G == {k \in Nat : k \in 1..Len(at) => k <= at[k]}
<1>2. 0 \in G
  BY <1>1
<1>3. ASSUME NEW k \in 1..Len(at), k - 1 \in G PROVE k \in G
  <2>1. CASE k = 1
    BY <1>1, <2>1
  <2>2. CASE k # 1
    <3>1. k - 1 \in 1..Len(at) /\ k - 1 < k
      BY <1>1, <2>2
    <3>2. k - 1 <= at[k - 1]
      BY <1>3, <3>1
    <3>3. at[k - 1] < at[k]
      BY <1>1, <3>1
    <3>4. at[k - 1] \in 1..n /\ at[k] \in 1..n
      BY <1>1, <3>1
    <3> QED
      BY <3>1, <3>2, <3>3, <3>4
  <2> QED
    BY <2>1, <2>2
<1> HIDE DEF G
<1>4. \A k \in 0..Len(at) : k \in G
  BY <1>1, <1>2, <1>3, UpToN
<1>5. CASE Len(at) = 0
  BY <1>1, <1>5
<1>6. CASE Len(at) # 0
  <2>1. Len(at) \in 1..Len(at) /\ Len(at) \in G
    BY <1>1, <1>4, <1>6
  <2>2. Len(at) <= at[Len(at)] /\ at[Len(at)] \in 1..n
    BY <1>1, <2>1 DEF G
  <2> QED
    BY <1>1, <2>2
<1> QED
  BY <1>5, <1>6

\* What the proxy recorded, the newest first.
IsRecord(r) ==
  /\ r.id \in Int
  /\ DOMAIN r.route = RouteFields /\ r.route.enabled /\ r.route.conditions = <<>> /\ r.route.sequences = <<>>
AreRecords(list) ==
  /\ IsSeq(list) /\ Len(list) <= RecordCap
  /\ \A i \in 1..Len(list) : IsRecord(list[i])
  /\ \A i, k \in 1..Len(list) : i < k => list[k].id < list[i].id

LEMMA SelectedRecords ==
  ASSUME NEW list, AreRecords(list), NEW S
  PROVE  AreRecords(Only(list, S))
<1>1. list \in Seq(ToSet(list)) /\ Len(list) \in Nat /\ RecordCap \in Nat
  BY MockAssumption DEF AreRecords, IsSeq
<1>2. /\ Only(list, S) \in Seq(ToSet(list))
      /\ \E at : Picks(Only(list, S), list, S, Len(list), at)
  BY <1>1, OnlyPicks
<1>3. IsSeq(Only(list, S))
  BY <1>2, SeqOfItsElements
<1>4. PICK at : Picks(Only(list, S), list, S, Len(list), at)
  BY <1>2
<1>5. Len(Only(list, S)) <= Len(list) /\ Len(Only(list, S)) \in Nat
  BY <1>1, <1>2, <1>4, PicksFewer
<1>6. /\ \A k \in 1..Len(Only(list, S)) : at[k] \in 1..Len(list) /\ Only(list, S)[k] = list[at[k]]
      /\ \A k, l \in 1..Len(Only(list, S)) : k < l => at[k] < at[l]
  BY <1>4 DEF Picks
<1>7. Len(Only(list, S)) <= RecordCap
  BY <1>1, <1>5 DEF AreRecords
<1> HIDE DEF Only
<1> QED
  BY <1>3, <1>6, <1>7 DEF AreRecords

\* The routes that an import makes of records.
MadeOf(list) == [i \in DOMAIN list |-> [list[i].route EXCEPT !.id = NewId(i)]]

LEMMA RoutesMade ==
  ASSUME NEW list, AreRecords(list), spent.pushes \in Nat
  PROVE  /\ IsSeq(MadeOf(list)) /\ Len(MadeOf(list)) = Len(list) /\ Len(list) \in Nat
         /\ \A i \in 1..Len(list) :
              LET r == MadeOf(list)[i]
              IN  /\ IsRoute(r) /\ r.enabled /\ r.conditions = <<>> /\ r.id = Gap(spent.pushes) + i
                  /\ r.method = list[i].route.method /\ r.path = list[i].route.path
<1>1. DOMAIN list = 1..Len(list) /\ Len(list) \in Nat
  BY DEF AreRecords, IsSeq
<1>2. ASSUME NEW i \in 1..Len(list)
      PROVE  LET r == MadeOf(list)[i]
             IN  /\ IsRoute(r) /\ r.enabled /\ r.conditions = <<>> /\ r.id = Gap(spent.pushes) + i
                 /\ r.method = list[i].route.method /\ r.path = list[i].route.path
  <2>1. /\ DOMAIN list[i].route = RouteFields /\ list[i].route.enabled
        /\ list[i].route.conditions = <<>> /\ list[i].route.sequences = <<>>
    BY DEF AreRecords, IsRecord
  <2> DEFINE r == [list[i].route EXCEPT !.id = NewId(i)]
  <2>2. "id" \in RouteFields
    BY DEF RouteFields
  <2>3. /\ DOMAIN r = RouteFields /\ r.id = NewId(i)
        /\ \A f \in RouteFields : f # "id" => r[f] = list[i].route[f]
    BY <2>1, <2>2
  <2> HIDE DEF r
  <2>4. /\ r.enabled = list[i].route.enabled /\ r.conditions = list[i].route.conditions
        /\ r.sequences = list[i].route.sequences
        /\ r.method = list[i].route.method /\ r.path = list[i].route.path
    BY <2>3 DEF RouteFields
  <2>5. NewId(i) = Gap(spent.pushes) + i /\ Gap(spent.pushes) + i \in Nat
    BY GapFacts DEF NewId, Gap
  <2>6. IsSeq(<<>>)
    BY EmptyList DEF IsList
  <2>7. MadeOf(list)[i] = r
    BY <1>1 DEF MadeOf, r
  <2> QED
    BY <2>1, <2>3, <2>4, <2>5, <2>6, <2>7 DEF IsRoute
<1>3. MadeOf(list) \in Seq(ToSet(MadeOf(list))) /\ Len(MadeOf(list)) = Len(list)
  <2> DEFINE m == MadeOf(list)
             T == ToSet(m)
  <2>1. DOMAIN m = 1..Len(list) /\ m = [i \in 1..Len(list) |-> m[i]]
    BY <1>1 DEF MadeOf
  <2>2. \A i \in 1..Len(list) : m[i] \in T
    BY <2>1 DEF ToSet
  <2> HIDE DEF m, T
  <2>3. m \in [1..Len(list) -> T]
    BY <2>1, <2>2
  <2>4. m \in Seq(T) /\ Len(m) = Len(list)
    BY <1>1, <2>1, <2>3
  <2> QED
    BY <2>4 DEF m, T
<1> QED
  BY <1>1, <1>2, <1>3 DEF IsSeq

Apart(list) == \A i, k \in DOMAIN list : list[i].id = list[k].id => i = k

\* What is merged is a list of routes again, with ids of their own.
LEMMA MergedApart ==
  ASSUME NEW list, AreRecords(list), spent.pushes \in Nat, Apart(routes),
         IsList(routes, Gap(spent.pushes) + (RecordCap + 1))
  PROVE  /\ IsList(Merged(MadeOf(list)), Gap(spent.pushes))
         /\ Apart(Merged(MadeOf(list)))
<1> DEFINE g == Gap(spent.pushes)
           h == g + (RecordCap + 1)
           new == MadeOf(list)
           S == {r \in ToSet(routes) : ~(\E i \in DOMAIN new : /\ new[i].method = r.method
                                                              /\ new[i].path = r.path
                                                              /\ r.conditions = <<>>)}
           old == Only(routes, S)
<1>1. g \in Nat /\ h \in Nat /\ g <= h /\ g >= RecordCap + 1 /\ RecordCap \in Nat
  <2>1. RecordCap \in Nat
    BY MockAssumption
  <2>2. Gap(spent.pushes) \in Nat /\ Gap(spent.pushes) >= RecordCap + 1
    BY GapFacts
  <2> QED
    BY <2>1, <2>2
<1>2. Merged(new) = old \o new
  BY DEF Merged
<1>3. /\ IsSeq(new) /\ Len(new) = Len(list) /\ Len(list) \in Nat /\ Len(list) <= RecordCap
      /\ \A i \in 1..Len(new) : IsRoute(new[i]) /\ new[i].id = g + i
  BY RoutesMade DEF AreRecords
<1>4. routes \in Seq(ToSet(routes)) /\ IsList(routes, h)
  BY DEF IsList, IsSeq
<1> HIDE DEF new, S
<1>5. old \in Seq(ToSet(routes)) /\ \E at : Picks(old, routes, S, Len(routes), at)
  BY <1>4, OnlyPicks
<1>6. IsList(old, h)
  BY <1>4, OnlyList
<1> HIDE DEF old
<1>7. IsList(old, g)
  BY <1>1, <1>6, ListAbove
<1> HIDE DEF g, h
<1>8. IsList(new, g)
  BY <1>1, <1>3 DEF IsList
<1>9. IsList(old \o new, g)
  BY <1>7, <1>8, JoinedList
<1>10. PICK at : Picks(old, routes, S, Len(routes), at)
  BY <1>5
<1>11. ASSUME NEW i \in 1..Len(old), NEW k \in 1..Len(old), old[i].id = old[k].id PROVE i = k
  <2>1. /\ at[i] \in 1..Len(routes) /\ at[k] \in 1..Len(routes)
        /\ old[i] = routes[at[i]] /\ old[k] = routes[at[k]]
        /\ i < k => at[i] < at[k]
        /\ k < i => at[k] < at[i]
    BY <1>10 DEF Picks
  <2>2. DOMAIN routes = 1..Len(routes)
    BY <1>4
  <2>3. at[i] = at[k]
    BY <1>11, <2>1, <2>2 DEF Apart
  <2>4. i \in Nat /\ k \in Nat
    BY <1>5
  <2> QED
    BY <2>1, <2>3, <2>4
<1>12. ASSUME NEW i \in 1..Len(old), NEW k \in 1..Len(new) PROVE old[i].id # new[k].id
  <2>1. old[i].id \in Nat /\ (old[i].id <= RecordCap + 1 \/ h < old[i].id)
    BY <1>6 DEF IsList, IsRoute
  <2>2. new[k].id = g + k /\ k \in Nat /\ 1 <= k /\ k <= RecordCap
    BY <1>1, <1>3
  <2> QED
    BY <1>1, <2>1, <2>2 DEF h
<1>13. \A i, k \in 1..Len(new) : new[i].id = new[k].id => i = k
  BY <1>1, <1>3
<1>14. IsSeq(old) /\ IsSeq(new)
  BY <1>7, <1>8 DEF IsList
<1>15. ASSUME NEW i \in DOMAIN (old \o new), NEW k \in DOMAIN (old \o new),
              (old \o new)[i].id = (old \o new)[k].id
       PROVE  i = k
  <2>1. /\ DOMAIN (old \o new) = 1..(Len(old) + Len(new))
        /\ \A l \in 1..Len(old) : (old \o new)[l] = old[l]
        /\ \A l \in 1..Len(new) : (old \o new)[Len(old) + l] = new[l]
        /\ \A l \in 1..(Len(old) + Len(new)) :
              l \in 1..Len(old) \/ (l - Len(old) \in 1..Len(new) /\ l = Len(old) + (l - Len(old)))
        /\ Len(old) \in Nat /\ Len(new) \in Nat
    <3>1. IsSeq(old \o new) /\ Len(old \o new) = Len(old) + Len(new)
      BY <1>14, Joined
    <3>2. DOMAIN (old \o new) = 1..(Len(old) + Len(new))
      BY <3>1 DEF IsSeq
    <3> QED
      BY <1>14, <3>2, Joined
  <2> DEFINE x == i - Len(old)
             y == k - Len(old)
  <2>2. i \in 1..Len(old) \/ (x \in 1..Len(new) /\ i = Len(old) + x /\ (old \o new)[i] = new[x])
    BY <2>1
  <2>3. k \in 1..Len(old) \/ (y \in 1..Len(new) /\ k = Len(old) + y /\ (old \o new)[k] = new[y])
    BY <2>1
  <2> HIDE DEF x, y
  <2>4. CASE i \in 1..Len(old) /\ k \in 1..Len(old)
    BY <1>11, <1>15, <2>1, <2>4
  <2>5. CASE i \in 1..Len(old) /\ k \notin 1..Len(old)
    BY <1>12, <1>15, <2>1, <2>3, <2>5
  <2>6. CASE i \notin 1..Len(old) /\ k \in 1..Len(old)
    BY <1>12, <1>15, <2>1, <2>2, <2>6
  <2>7. CASE i \notin 1..Len(old) /\ k \notin 1..Len(old)
    BY <1>13, <1>15, <2>2, <2>3, <2>7
  <2> QED
    BY <2>4, <2>5, <2>6, <2>7
<1>16. Apart(old \o new)
  BY <1>15 DEF Apart
<1> QED
  BY <1>2, <1>9, <1>16 DEF new, g

\* A list that the schema takes has ids of their own.
LEMMA ValidApart ==
  ASSUME NEW list, IsSeq(list), Valid(list)
  PROVE  Apart(list)
<1>1. DOMAIN list = 1..Len(list) /\ Len(list) \in Nat
  BY DEF IsSeq
<1>2. ASSUME NEW i \in 1..Len(list), NEW j \in 1..(i - 1) PROVE list[j].id # list[i].id
  <2>1. i \in 0..Len(list) /\ i # 0
    BY <1>1
  <2>2. \A issue \in IdIssues(list, i) : issue[1] = "warning"
    BY <2>1 DEF Valid, validateMockRoutes
  <2>3. <<"error", "id">>[1] # "warning"
    OBVIOUS
  <2>4. <<"error", "id">> \notin IdIssues(list, i)
    BY <2>2, <2>3
  <2> QED
    BY <2>4 DEF IdIssues
<1>3. \A i, k \in 1..Len(list) : i = k \/ i \in 1..(k - 1) \/ k \in 1..(i - 1)
  BY <1>1
<1> QED
  BY <1>1, <1>2, <1>3 DEF Apart

(* ---- the lists through a behaviour ---- *)

Spent == [edits : Nat, pushes : Nat, answers : Nat, records : Nat]

JobLists(job, h) ==
  /\ job.kind \in {"sync", "stop"} => IsList(job.routes, h)
  /\ job.kind = "import" => IsList(job.result, h)

OneImport ==
  \A i, j \in Waiting : jobs[i].kind = "import" /\ jobs[j].kind = "import" => i = j

Listed ==
  /\ IsList(routes, Horizon) /\ IsList(saved, Horizon)
  /\ \A j \in Waiting : JobLists(jobs[j], Horizon)

Recorded == AreRecords(records) /\ \A i \in 1..Len(records) : records[i].id < 9 - spent.records

HeldInv ==
  /\ JobsOK /\ spent \in Spent /\ editing \in Drafts \union {NoRoute}
  /\ OneImport /\ Listed /\ Recorded /\ Apart(routes)

LEMMA HorizonType ==
  ASSUME HeldInv
  PROVE  Horizon \in Nat /\ spent.pushes \in Nat /\ Gap(spent.pushes) \in Nat
         /\ Gap(spent.pushes) <= Horizon /\ RecordCap \in Nat
<1>1. RecordCap \in Nat /\ spent.pushes \in Nat
  BY MockAssumption DEF HeldInv, Spent
<1>2. Gap(spent.pushes) \in Nat
  BY <1>1, GapFacts
<1> QED
  BY <1>1, <1>2 DEF Horizon

\* Lists stay lists when the horizon sinks.
LEMMA JobListsAbove ==
  ASSUME NEW h \in Nat, NEW g \in Nat, g <= h, NEW job, JobLists(job, h)
  PROVE  JobLists(job, g)
BY ListAbove DEF JobLists

\* What leaves the routes, the panel, its calls and the records alone.
LEMMA HeldStays ==
  ASSUME HeldInv, UNCHANGED <<routes, saved, jobs, records>>,
         editing' \in Drafts \union {NoRoute}, spent' \in Spent, spent'.pushes = spent.pushes, spent'.records = spent.records
  PROVE  HeldInv'
<1>1. Waiting' = Waiting /\ Horizon' = Horizon
  BY DEF Waiting, Horizon, Importing
<1>2. OneImport' /\ Listed' /\ Recorded'
  BY <1>1 DEF HeldInv, OneImport, Listed, Recorded
<1> QED
  BY <1>2 DEF HeldInv, JobsOK

LEMMA SpentLess ==
  ASSUME spent \in Spent, NEW what \in {"edits", "pushes", "answers", "records"}, Spend(what)
  PROVE  /\ spent' \in Spent /\ spent'[what] = spent[what] - 1
         /\ \A k \in {"edits", "pushes", "answers", "records"} : k # what => spent'[k] = spent[k]
<1>1. spent[what] > 0 /\ spent' = [spent EXCEPT ![what] = @ - 1]
  BY DEF Spend
<1>2. spent[what] - 1 \in Nat
  BY <1>1 DEF Spent
<1> QED
  BY <1>1, <1>2 DEF Spent

\* A call of the page starts.
LEMMA HeldCall ==
  ASSUME HeldInv, NEW j \in Jobs, NEW job, JobOK(job), job.pc = "waiting", Call(j, job),
         UNCHANGED <<routes, saved, editing, records>>, JobLists(job, Horizon),
         job.kind = "import" => \A i \in Waiting : jobs[i].kind # "import"
  PROVE  HeldInv'
<1>1. /\ JobsOK' /\ Waiting' = Waiting \union {j} /\ j \notin Waiting
      /\ \A i \in Jobs : i # j => jobs'[i] = jobs[i]
      /\ jobs'[j] = job
  BY CallStarts DEF HeldInv
<1>2. /\ spent' \in Spent /\ spent'.pushes = spent.pushes - 1 /\ spent'.records = spent.records
      /\ spent.pushes \in Nat /\ spent'.pushes \in Nat
  BY SpentLess DEF Call, HeldInv, Spent
<1>3. Horizon \in Nat /\ Gap(spent'.pushes) \in Nat /\ RecordCap \in Nat
      /\ Gap(spent.pushes) = Gap(spent'.pushes) + (RecordCap + 1) /\ Gap(spent.pushes) \in Nat
  <2>1. spent'.pushes + 1 = spent.pushes
    BY <1>2
  <2> QED
    BY <1>2, <2>1, HorizonType, GapFacts
<1>4. Horizon' = Gap(spent'.pushes) + (IF Importing' THEN RecordCap + 1 ELSE 0)
  BY DEF Horizon, Gap
<1>5. Importing' => Importing \/ job.kind = "import"
  BY <1>1 DEF Importing
<1>6. job.kind = "import" => ~Importing
  BY DEF HeldInv, OneImport, Importing, Waiting
<1>7. Horizon' \in Nat /\ Horizon' <= Horizon
  BY <1>3, <1>4, <1>5, <1>6 DEF Horizon
<1>8. IsList(routes', Horizon') /\ IsList(saved', Horizon')
  BY <1>3, <1>7, ListAbove DEF HeldInv, Listed
<1>9. ASSUME NEW i \in Waiting' PROVE JobLists(jobs'[i], Horizon')
  <2>1. CASE i = j
    BY <1>1, <1>3, <1>7, <2>1, JobListsAbove
  <2>2. CASE i # j
    <3>1. i \in Waiting /\ jobs'[i] = jobs[i]
      BY <1>1, <2>2 DEF Waiting
    <3>2. JobLists(jobs[i], Horizon)
      BY <3>1 DEF HeldInv, Listed
    <3> QED
      BY <1>3, <1>7, <3>1, <3>2, JobListsAbove
  <2> QED
    BY <2>1, <2>2
<1>10. OneImport'
  <2>1. \A i \in Waiting : i \in Jobs /\ i # j
    BY <1>1 DEF Waiting
  <2> QED
    BY <1>1, <2>1 DEF HeldInv, OneImport
<1>11. Recorded'
  BY <1>2 DEF HeldInv, Recorded
<1> QED
  BY <1>1, <1>2, <1>8, <1>9, <1>10, <1>11 DEF HeldInv, Listed

\* A call fails, with its answer or with the server.
LEMMA HeldFails ==
  ASSUME HeldInv, JobsOK', UNCHANGED <<saved, editing, spent>>,
         routes' = routes \/ routes' = <<>>, records' = records \/ records' = <<>>,
         Waiting' = Waiting,
         \A j \in Waiting :
           /\ jobs'[j].kind = jobs[j].kind
           /\ jobs[j].kind \in {"sync", "stop"} => jobs'[j].routes = jobs[j].routes
           /\ jobs[j].kind = "import" => jobs'[j].result = jobs[j].result,
         Importing' => Importing
  PROVE  HeldInv'
<1>1. /\ Horizon \in Nat /\ RecordCap \in Nat /\ Gap(spent.pushes) \in Nat
      /\ Horizon' = Gap(spent.pushes) + (IF Importing' THEN RecordCap + 1 ELSE 0)
  BY HorizonType DEF Horizon, Gap
<1>2. Horizon' \in Nat /\ Horizon' <= Horizon
  BY <1>1 DEF Horizon
<1>3. IsList(routes', Horizon') /\ IsList(saved', Horizon')
  BY <1>1, <1>2, ListAbove, EmptyList DEF HeldInv, Listed
<1>4. ASSUME NEW i \in Waiting PROVE JobLists(jobs'[i], Horizon')
  <2>1. JobLists(jobs[i], Horizon)
    BY DEF HeldInv, Listed
  <2>2. JobLists(jobs[i], Horizon')
    BY <1>1, <1>2, <2>1, JobListsAbove
  <2> QED
    BY <2>2 DEF JobLists
<1>5. OneImport'
  BY DEF HeldInv, OneImport
<1>6. Recorded'
  <2>1. CASE records' = <<>>
    <3>1. AreRecords(<<>>) /\ 1..Len(<<>>) = {}
      <4>1. <<>> \in Seq({}) /\ Len(<<>>) = 0
        OBVIOUS
      <4>2. IsSeq(<<>>)
        BY <4>1, SeqOfItsElements
      <4> QED
        BY <1>1, <4>1, <4>2 DEF AreRecords
    <3> QED
      BY <2>1, <3>1 DEF Recorded
  <2>2. CASE records' = records
    BY <2>2 DEF HeldInv, Recorded
  <2> QED
    BY <2>1, <2>2
<1>7. Apart(routes')
  BY DEF HeldInv, Apart
<1> QED
  BY <1>3, <1>4, <1>5, <1>6, <1>7 DEF HeldInv, Listed

\* The page sees the end of a call, and keeps the list it is answered.
LEMMA HeldSettles ==
  ASSUME HeldInv, NEW j \in Jobs, Settles(j)
  PROVE  HeldInv'
<1>1. /\ JobsOK' /\ Waiting' = Waiting \ {j} /\ j \in Waiting
      /\ \A i \in Jobs : i # j => jobs'[i] = jobs[i]
  BY JobSettles DEF HeldInv
<1>2. UNCHANGED <<routes, editing, records, spent>>
  BY DEF Settles, serverVars
<1>3. \A i \in Waiting' : i \in Waiting /\ jobs'[i] = jobs[i]
  BY <1>1 DEF Waiting
<1>4. IsList(saved', Horizon)
  <2>1. IsList(saved, Horizon) /\ JobLists(jobs[j], Horizon)
    BY <1>1 DEF HeldInv, Listed
  <2> QED
    BY <2>1 DEF Settles, NotStored, onSuccess, JobLists
<1>5. Importing' => Importing
  BY <1>1, JobSettles DEF HeldInv, Importing, Idle
<1>6. /\ Horizon \in Nat /\ RecordCap \in Nat /\ Gap(spent.pushes) \in Nat
      /\ Horizon' = Gap(spent.pushes) + (IF Importing' THEN RecordCap + 1 ELSE 0)
  BY <1>2, HorizonType DEF Horizon, Gap
<1>7. Horizon' \in Nat /\ Horizon' <= Horizon
  BY <1>5, <1>6 DEF Horizon
<1>8. IsList(routes', Horizon') /\ IsList(saved', Horizon')
  BY <1>2, <1>4, <1>6, <1>7, ListAbove DEF HeldInv, Listed
<1>9. ASSUME NEW i \in Waiting' PROVE JobLists(jobs'[i], Horizon')
  <2>1. jobs'[i] = jobs[i] /\ JobLists(jobs[i], Horizon)
    BY <1>3 DEF HeldInv, Listed
  <2> QED
    BY <1>6, <1>7, <2>1, JobListsAbove
<1>10. OneImport'
  BY <1>1, <1>2, <1>3 DEF HeldInv, OneImport
<1>11. Recorded'
  BY <1>2 DEF HeldInv, Recorded
<1> QED
  BY <1>1, <1>2, <1>8, <1>9, <1>10, <1>11 DEF HeldInv, Listed

\* The user changes the routes of the page.
LEMMA HeldEdit ==
  ASSUME HeldInv, NEW next, persistRoutes(next), IsList(next, Horizon), editing' \in Drafts \union {NoRoute}
  PROVE  HeldInv'
<1>1. /\ saved' = next /\ UNCHANGED <<routes, jobs, records>>
      /\ spent' \in Spent /\ spent'.pushes = spent.pushes /\ spent'.records = spent.records
  BY SpentLess DEF persistRoutes, HeldInv, serverVars
<1>2. Waiting' = Waiting /\ Horizon' = Horizon
  BY <1>1 DEF Waiting, Horizon, Importing
<1>3. OneImport' /\ Listed' /\ Recorded'
  BY <1>1, <1>2 DEF HeldInv, OneImport, Listed, Recorded
<1> QED
  BY <1>1, <1>3 DEF HeldInv, JobsOK

\* What an import selects is a list of records.
Selected(j) == IF jobs[j].ids = {} THEN records
               ELSE Only(records, {r \in ToSet(records) : r.id \in jobs[j].ids})

LEMMA SelectedOK ==
  ASSUME HeldInv, NEW j
  PROVE  AreRecords(Selected(j))
BY SelectedRecords DEF Selected, HeldInv, Recorded

LEMMA ImportMade ==
  ASSUME NEW j \in Jobs, Handle(j), jobs[j].kind = "import"
  PROVE  routes' = Merged(MadeOf(Selected(j)))
BY DEF Handle, proxyImport, Reset, MadeOf, Selected

\* The server takes a call.
LEMMA HeldHandle ==
  ASSUME HeldInv, NEW j \in Jobs, Handle(j)
  PROVE  HeldInv'
<1>1. /\ JobsOK' /\ Waiting' = Waiting /\ j \in Waiting
      /\ \A i \in Jobs : i # j => jobs'[i] = jobs[i]
      /\ jobs[j].pc = "waiting" /\ jobs'[j].pc = "answered" /\ jobs'[j].kind = jobs[j].kind
      /\ jobs[j].kind \in {"sync", "stop"} => jobs'[j].routes = jobs[j].routes
      /\ jobs[j].kind = "import" => jobs'[j].result = routes'
  BY JobAnswered DEF HeldInv
<1>2. UNCHANGED <<saved, editing, spent>> /\ (records' = records \/ records' = <<>>)
  BY DEF Handle
<1>3. Horizon \in Nat /\ RecordCap \in Nat /\ spent.pushes \in Nat /\ Gap(spent.pushes) \in Nat
  BY HorizonType
<1>4. Importing' => Importing
  BY <1>1 DEF Importing
<1>5. Horizon' = Gap(spent.pushes) + (IF Importing' THEN RecordCap + 1 ELSE 0)
  BY <1>2 DEF Horizon, Gap
<1>6. Horizon' \in Nat /\ Horizon' <= Horizon
  BY <1>3, <1>4, <1>5 DEF Horizon
<1>7. IsList(routes', Horizon') /\ Apart(routes')
  <2>1. CASE jobs[j].kind \in {"sync", "stop"}
    <3>1. routes' = jobs[j].routes /\ Valid(jobs[j].routes)
      BY <2>1 DEF Handle, replaceRoutes, Reset, mockRoutesSchema
    <3>2. IsList(jobs[j].routes, Horizon)
      BY <1>1, <2>1 DEF HeldInv, Listed, JobLists
    <3>3. IsList(jobs[j].routes, Horizon')
      BY <1>3, <1>6, <3>2, ListAbove
    <3>4. Apart(jobs[j].routes)
      BY <3>1, <3>2, ValidApart DEF IsList
    <3> QED
      BY <3>1, <3>3, <3>4
  <2>2. CASE jobs[j].kind = "import"
    <3>1. routes' = Merged(MadeOf(Selected(j)))
      BY <2>2, ImportMade
    <3>2. AreRecords(Selected(j))
      BY SelectedOK
    <3>3. Importing /\ ~Importing'
      <4>1. Importing
        BY <1>1, <2>2 DEF Importing
      <4>2. ASSUME NEW i \in Jobs, jobs'[i].pc = "waiting", jobs'[i].kind = "import" PROVE FALSE
        <5>1. i # j /\ i \in Waiting /\ jobs[i].kind = "import"
          BY <1>1, <4>2 DEF Waiting
        <5> QED
          BY <1>1, <2>2, <5>1 DEF HeldInv, OneImport
      <4> QED
        BY <4>1, <4>2 DEF Importing
    <3>4. Horizon = Gap(spent.pushes) + (RecordCap + 1) /\ Horizon' = Gap(spent.pushes)
      BY <1>3, <1>5, <3>3 DEF Horizon
    <3>5. IsList(routes, Gap(spent.pushes) + (RecordCap + 1)) /\ Apart(routes)
      BY <3>4 DEF HeldInv, Listed
    <3>6. /\ IsList(Merged(MadeOf(Selected(j))), Gap(spent.pushes))
          /\ Apart(Merged(MadeOf(Selected(j))))
      BY <1>3, <3>2, <3>5, MergedApart
    <3> QED
      BY <3>1, <3>4, <3>6
  <2>3. CASE jobs[j].kind \notin {"sync", "stop", "import"}
    <3>1. routes' = routes
      BY <2>3 DEF Handle
    <3> QED
      BY <1>3, <1>6, <3>1, ListAbove DEF HeldInv, Listed
  <2> QED
    BY <2>1, <2>2, <2>3
<1>8. IsList(saved', Horizon')
  BY <1>2, <1>3, <1>6, ListAbove DEF HeldInv, Listed
<1>9. ASSUME NEW i \in Waiting PROVE JobLists(jobs'[i], Horizon')
  <2>1. JobLists(jobs[i], Horizon')
    BY <1>3, <1>6, JobListsAbove DEF HeldInv, Listed
  <2>2. CASE i = j
    BY <1>1, <1>7, <2>1, <2>2 DEF JobLists
  <2>3. CASE i # j
    BY <1>1, <2>1, <2>3 DEF Waiting
  <2> QED
    BY <2>2, <2>3
<1>10. OneImport'
  BY <1>1, <1>2 DEF HeldInv, OneImport, Waiting
<1>11. Recorded'
  <2>1. CASE records' = <<>>
    <3>1. <<>> \in Seq({}) /\ Len(<<>>) = 0
      OBVIOUS
    <3>2. IsSeq(<<>>)
      BY <3>1, SeqOfItsElements
    <3>3. AreRecords(<<>>) /\ 1..Len(<<>>) = {}
      BY <1>3, <3>1, <3>2 DEF AreRecords
    <3> QED
      BY <2>1, <3>3 DEF Recorded
  <2>2. CASE records' = records
    BY <1>2, <2>2 DEF HeldInv, Recorded
  <2> QED
    BY <1>2, <2>1, <2>2
<1> QED
  BY <1>1, <1>2, <1>7, <1>8, <1>9, <1>10, <1>11 DEF HeldInv, Listed

\* A request goes through the proxy, and is the newest record.
LEMMA HeldRecorded ==
  ASSUME HeldInv, NEW t \in Targets, ProxyRequest(t)
  PROVE  HeldInv'
<1> DEFINE route == [id |-> 0, enabled |-> TRUE,
                     method |-> IF t.method \in {"GET", "POST"} THEN t.method ELSE "GET",
                     path |-> t.path, status |-> t.status, headers |-> <<>>,
                     body |-> t.body, latencyMs |-> 0, conditions |-> <<>>, sequences |-> <<>>]
           r == [id |-> 9 - spent.records, route |-> route]
           longer == <<r>> \o records
           n == IF Len(records) + 1 > RecordCap THEN RecordCap ELSE Len(records) + 1
           next == SubSeq(longer, 1, n)
           T == ToSet(records) \union {r}
<1>1. /\ records' = next /\ UNCHANGED <<routes, saved, editing, jobs>>
      /\ spent' \in Spent /\ spent'.pushes = spent.pushes /\ spent'.records = spent.records - 1
      /\ spent.records \in Nat
  BY SpentLess DEF ProxyRequest, HeldInv, pageVars, Spent
<1>2. IsRecord(r) /\ r.id = 9 - spent.records
  <2>1. DOMAIN route = RouteFields /\ route.enabled /\ route.conditions = <<>> /\ route.sequences = <<>>
    BY DEF RouteFields
  <2>2. r.route = route /\ r.id = 9 - spent.records
    OBVIOUS
  <2> HIDE DEF r, route
  <2> QED
    BY <1>1, <2>1, <2>2 DEF IsRecord
<1> HIDE DEF r
<1>3. records \in Seq(T) /\ r \in T
  <2>1. \A i \in 1..Len(records) : records[i] \in T
    BY DEF ToSet, HeldInv, Recorded, AreRecords, IsSeq
  <2> HIDE DEF T
  <2>2. records \in Seq(T)
    BY <2>1 DEF HeldInv, Recorded, AreRecords, IsSeq
  <2> QED
    BY <2>2 DEF T
<1> HIDE DEF T
<1>4. /\ longer \in Seq(T) /\ Len(longer) = Len(records) + 1 /\ longer[1] = r
      /\ \A i \in 2..(Len(records) + 1) : longer[i] = records[i - 1]
      /\ Len(records) \in Nat /\ RecordCap \in Nat \ {0}
  BY <1>3, MockAssumption
<1> HIDE DEF longer
<1>5. n \in Nat /\ n <= Len(longer) /\ n <= RecordCap
  BY <1>4
<1> HIDE DEF n
<1>6. next \in Seq(T) /\ Len(next) = n /\ \A i \in 1..n : next[i] = longer[i]
  BY <1>4, <1>5
<1> HIDE DEF next
<1>7. \A i \in 1..n : \/ i = 1 /\ next[i] = r
                      \/ i - 1 \in 1..Len(records) /\ next[i] = records[i - 1]
  BY <1>4, <1>5, <1>6
<1>8. \A i \in 1..n : IsRecord(next[i]) /\ next[i].id <= 9 - spent.records
  <2> SUFFICES ASSUME NEW i \in 1..n PROVE IsRecord(next[i]) /\ next[i].id <= 9 - spent.records
    OBVIOUS
  <2>1. CASE next[i] = r
    <3>1. r.id \in Int
      BY <1>2 DEF IsRecord
    <3> QED
      BY <1>2, <2>1, <3>1
  <2>2. CASE i - 1 \in 1..Len(records) /\ next[i] = records[i - 1]
    <3>1. IsRecord(records[i - 1]) /\ records[i - 1].id < 9 - spent.records
      BY <2>2 DEF HeldInv, Recorded, AreRecords
    <3>2. records[i - 1].id \in Int
      BY <3>1 DEF IsRecord
    <3> QED
      BY <1>1, <2>2, <3>1, <3>2
  <2> QED
    BY <1>7, <2>1, <2>2
<1>9. ASSUME NEW i \in 1..n, NEW k \in 1..n, i < k PROVE next[k].id < next[i].id
  <2>1. k - 1 \in 1..Len(records) /\ next[k] = records[k - 1]
    BY <1>5, <1>7, <1>9
  <2>2. CASE next[i] = r
    BY <1>2, <2>1, <2>2 DEF HeldInv, Recorded
  <2>3. CASE i - 1 \in 1..Len(records) /\ next[i] = records[i - 1]
    <3>1. i - 1 < k - 1
      BY <1>9
    <3> QED
      BY <2>1, <2>3, <3>1 DEF HeldInv, Recorded, AreRecords
  <2> QED
    BY <1>7, <2>2, <2>3
<1>10. IsSeq(next)
  BY <1>6, SeqOfItsElements
<1>11. AreRecords(next)
  BY <1>5, <1>6, <1>8, <1>9, <1>10 DEF AreRecords
<1>12. \A i \in 1..Len(next) : next[i].id < 9 - spent'.records
  <2>1. 9 - spent'.records = (9 - spent.records) + 1
    BY <1>1
  <2>2. \A i \in 1..n : next[i].id \in Int
    BY <1>8 DEF IsRecord
  <2> QED
    BY <1>1, <1>6, <1>8, <2>1, <2>2
<1>13. Recorded'
  BY <1>1, <1>11, <1>12 DEF Recorded
<1>14. Waiting' = Waiting /\ Horizon' = Horizon
  BY <1>1 DEF Waiting, Horizon, Importing
<1>15. OneImport' /\ Listed'
  BY <1>1, <1>14 DEF HeldInv, OneImport, Listed
<1> QED
  BY <1>1, <1>13, <1>15 DEF HeldInv, JobsOK

LEMMA HeldInit == ASSUME MockInit PROVE HeldInv
<1>1. /\ routes = <<>> /\ records = <<>> /\ editing = NoRoute /\ spent \in Spent
      /\ saved \in StoredRoutes /\ jobs = [j \in Jobs |-> Idle]
  BY MockAssumption DEF MockInit, Spent
<1>2. JobsOK /\ Waiting = {}
  BY <1>1 DEF JobsOK, JobOK, Idle, Waiting
<1>3. ~Importing
  BY <1>1 DEF Importing, Idle
<1>4. Horizon = Gap(spent.pushes) /\ Horizon \in Nat
  <2>1. spent.pushes \in Nat
    BY <1>1 DEF Spent
  <2> QED
    BY <1>3, <2>1, GapFacts DEF Horizon
<1>5. IsList(routes, Horizon) /\ IsList(saved, Horizon)
  BY <1>1, <1>4, EmptyList, UserList
<1>6. Recorded /\ Apart(routes)
  <2>1. <<>> \in Seq({}) /\ Len(<<>>) = 0 /\ 1..Len(<<>>) = {}
    OBVIOUS
  <2>2. IsSeq(<<>>) /\ RecordCap \in Nat
    BY <2>1, SeqOfItsElements, MockAssumption
  <2>3. AreRecords(records)
    BY <1>1, <2>1, <2>2 DEF AreRecords
  <2> QED
    BY <1>1, <2>1, <2>3 DEF Recorded, Apart
<1> QED
  BY <1>1, <1>2, <1>5, <1>6 DEF HeldInv, OneImport, Listed

\* What a user may make of the routes of the page.
LEMMA HeldUserEdits ==
  ASSUME HeldInv,
         \/ saveRoute \/ importRoutes \/ deleteAll
         \/ \E id : deleteRoute(id) \/ toggleEnabled(id)
  PROVE  HeldInv'
<1>1. Horizon \in Nat /\ IsList(saved, Horizon) /\ editing \in Drafts \union {NoRoute}
  BY HorizonType DEF HeldInv, Listed
<1>2. DOMAIN saved = 1..Len(saved) /\ \A i \in 1..Len(saved) :
        IsRoute(saved[i]) /\ (saved[i].id <= RecordCap + 1 \/ Horizon < saved[i].id)
  BY <1>1 DEF IsList, IsSeq
<1>3. CASE saveRoute
  <2>1. IsRoute(editing) /\ editing.id <= RecordCap + 1
    <3>1. editing \in UserRoutes
      BY <1>1, <1>3 DEF saveRoute, UserRoutes
    <3> QED
      BY <3>1, MockAssumption DEF IsRoute
  <2> DEFINE mapped == [i \in DOMAIN saved |-> IF saved[i].id = editing.id THEN editing ELSE saved[i]]
  <2>2. IsList(mapped, Horizon)
    <3>1. \A i \in 1..Len(saved) : mapped[i] = editing \/ mapped[i] = saved[i]
      BY <1>2
    <3>2. DOMAIN mapped = DOMAIN saved /\ mapped = [i \in DOMAIN saved |-> mapped[i]]
      OBVIOUS
    <3> HIDE DEF mapped
    <3> QED
      BY <1>1, <1>2, <2>1, <3>1, <3>2, MappedList
  <2>3. IsList(Append(saved, editing), Horizon)
    BY <1>1, <2>1, LongerList
  <2>4. (persistRoutes(mapped) \/ persistRoutes(Append(saved, editing))) /\ editing' = NoRoute
    BY <1>3 DEF saveRoute
  <2> HIDE DEF mapped
  <2> QED
    BY <2>2, <2>3, <2>4, HeldEdit
<1>4. CASE importRoutes
  <2>1. PICK list \in Imports :
          persistRoutes(Only(saved, {r \in ToSet(saved) : \A i \in DOMAIN list : list[i].id # r.id}) \o list)
    BY <1>4 DEF importRoutes
  <2> DEFINE kept == Only(saved, {r \in ToSet(saved) : \A i \in DOMAIN list : list[i].id # r.id})
  <2>2. IsList(kept, Horizon)
    BY <1>1, OnlyList
  <2>3. IsList(list, Horizon)
    BY <1>1, UserList
  <2>4. persistRoutes(kept \o list) /\ editing' = editing
    BY <1>4, <2>1 DEF importRoutes
  <2> HIDE DEF kept
  <2>5. IsList(kept \o list, Horizon)
    BY <2>2, <2>3, JoinedList
  <2> QED
    BY <1>1, <2>4, <2>5, HeldEdit
<1>5. CASE deleteAll
  <2>1. persistRoutes(<<>>) /\ editing' = editing
    BY <1>5 DEF deleteAll
  <2> QED
    BY <1>1, <2>1, EmptyList, HeldEdit
<1>6. ASSUME NEW id, deleteRoute(id) PROVE HeldInv'
  <2> DEFINE S == {r \in ToSet(saved) : r.id # id}
  <2>1. persistRoutes(Only(saved, S)) /\ editing' = editing
    BY <1>6 DEF deleteRoute
  <2> HIDE DEF S
  <2> QED
    BY <1>1, <2>1, OnlyList, HeldEdit
<1>7. ASSUME NEW id, toggleEnabled(id) PROVE HeldInv'
  <2> DEFINE to == [i \in DOMAIN saved |->
                      IF saved[i].id = id THEN [saved[i] EXCEPT !.enabled = ~@] ELSE saved[i]]
  <2>1. persistRoutes(to) /\ editing' = editing
    BY <1>7 DEF toggleEnabled
  <2>2. ASSUME NEW i \in 1..Len(saved)
        PROVE  IsRoute(to[i]) /\ (to[i].id <= RecordCap + 1 \/ Horizon < to[i].id)
    <3>1. IsRoute(saved[i]) /\ (saved[i].id <= RecordCap + 1 \/ Horizon < saved[i].id)
      BY <1>2
    <3>2. /\ DOMAIN to[i] = DOMAIN saved[i]
          /\ \A f \in DOMAIN saved[i] : f # "enabled" => to[i][f] = saved[i][f]
      BY <1>2
    <3>3. to[i].id = saved[i].id /\ to[i].sequences = saved[i].sequences
      BY <3>1, <3>2 DEF IsRoute, RouteFields
    <3> HIDE DEF to
    <3> QED
      BY <3>1, <3>2, <3>3 DEF IsRoute
  <2>3. DOMAIN to = DOMAIN saved /\ to = [i \in DOMAIN saved |-> to[i]]
    OBVIOUS
  <2> HIDE DEF to
  <2>4. IsList(to, Horizon)
    BY <1>1, <2>2, <2>3, MappedList
  <2> QED
    BY <1>1, <2>1, <2>4, HeldEdit
<1> QED
  BY <1>3, <1>4, <1>5, <1>6, <1>7

\* Every step keeps the lists.
LEMMA HeldStep ==
  ASSUME HeldInv, [MockNext]_mockVars
  PROVE  HeldInv'
<1>1. spent \in Spent /\ editing \in Drafts \union {NoRoute} /\ JobsOK
  BY DEF HeldInv
<1>2. CASE UNCHANGED mockVars
  BY <1>1, <1>2, HeldStays DEF mockVars, serverVars, pageVars
<1>3. ASSUME NEW j \in Jobs, sync(j) PROVE HeldInv'
  <2> DEFINE job == [pc |-> "waiting", kind |-> "sync", routes |-> saved]
  <2>1. JobOK(job) /\ job.pc = "waiting" /\ job.kind # "import"
    BY DEF JobOK, JobKinds
  <2>2. Call(j, job) /\ UNCHANGED <<routes, saved, editing, records>>
    BY <1>3 DEF sync, serverVars
  <2>3. JobLists(job, Horizon)
    BY DEF JobLists, HeldInv, Listed
  <2> HIDE DEF job
  <2> QED
    BY <2>1, <2>2, <2>3, HeldCall
<1>4. ASSUME NEW j \in Jobs, stop(j) PROVE HeldInv'
  <2> DEFINE job == [pc |-> "waiting", kind |-> "stop", routes |-> <<>>]
  <2>1. JobOK(job) /\ job.pc = "waiting" /\ job.kind # "import"
    BY DEF JobOK, JobKinds
  <2>2. Call(j, job) /\ UNCHANGED <<routes, saved, editing, records>>
    BY <1>4 DEF stop, serverVars
  <2>3. JobLists(job, Horizon)
    BY EmptyList DEF JobLists
  <2> HIDE DEF job
  <2> QED
    BY <2>1, <2>2, <2>3, HeldCall
<1>5. ASSUME NEW j \in Jobs, clearLogs(j) \/ clearRecords(j) PROVE HeldInv'
  <2>1. PICK kind \in {"clear logs", "clear records"} : Call(j, [pc |-> "waiting", kind |-> kind])
    BY <1>5 DEF clearLogs, clearRecords
  <2> DEFINE job == [pc |-> "waiting", kind |-> kind]
  <2>2. JobOK(job) /\ job.pc = "waiting" /\ job.kind # "import"
    BY DEF JobOK, JobKinds
  <2>3. Call(j, job) /\ UNCHANGED <<routes, saved, editing, records>>
    BY <1>5, <2>1 DEF clearLogs, clearRecords, serverVars
  <2>4. JobLists(job, Horizon)
    BY DEF JobLists
  <2> HIDE DEF job
  <2> QED
    BY <2>2, <2>3, <2>4, HeldCall
<1>6. ASSUME NEW j \in Jobs, importSelected(j) PROVE HeldInv'
  <2>1. PICK ids \in Selections : Call(j, [pc |-> "waiting", kind |-> "import", ids |-> ids, result |-> <<>>])
    BY <1>6 DEF importSelected
  <2> DEFINE job == [pc |-> "waiting", kind |-> "import", ids |-> ids, result |-> <<>>]
  <2>2. JobOK(job) /\ job.pc = "waiting" /\ job.kind = "import"
    BY DEF JobOK, JobKinds
  <2>3. /\ Call(j, job) /\ UNCHANGED <<routes, saved, editing, records>>
        /\ \A i \in Waiting : jobs[i].kind # "import"
    BY <1>6, <2>1 DEF importSelected, serverVars
  <2>4. JobLists(job, Horizon)
    BY EmptyList DEF JobLists
  <2> HIDE DEF job
  <2> QED
    BY <2>2, <2>3, <2>4, HeldCall
<1>7. ASSUME NEW j \in Jobs, Fails(j) PROVE HeldInv'
  <2>1. /\ JobsOK' /\ Waiting' = Waiting /\ jobs'[j].pc = "failed"
        /\ \A i \in Jobs : i # j => jobs'[i] = jobs[i]
        /\ \A f \in DOMAIN jobs[j] : f # "pc" => jobs'[j][f] = jobs[j][f]
    BY <1>1, <1>7, JobFails
  <2>2. UNCHANGED <<saved, editing, spent, routes, records>>
    BY <1>7 DEF Fails, serverVars
  <2>3. ASSUME NEW i \in Waiting
        PROVE  /\ jobs'[i].kind = jobs[i].kind
               /\ jobs[i].kind \in {"sync", "stop"} => jobs'[i].routes = jobs[i].routes
               /\ jobs[i].kind = "import" => jobs'[i].result = jobs[i].result
    BY <1>1, <2>1 DEF Waiting, JobsOK, JobOK
  <2>4. Importing' => Importing
    BY <2>1 DEF Importing
  <2> QED
    BY <2>1, <2>2, <2>3, <2>4, HeldFails
<1>8. CASE Restart
  <2>1. /\ JobsOK' /\ Waiting' = Waiting
        /\ \A j \in Jobs :
             /\ jobs'[j].pc = IF jobs[j].pc = "waiting" THEN "failed" ELSE jobs[j].pc
             /\ \A f \in DOMAIN jobs[j] : f # "pc" => jobs'[j][f] = jobs[j][f]
    BY <1>1, <1>8, JobsLost
  <2>2. UNCHANGED <<saved, editing, spent>> /\ routes' = <<>> /\ records' = <<>>
    BY <1>8 DEF Restart, Reset
  <2>3. ASSUME NEW i \in Waiting
        PROVE  /\ jobs'[i].kind = jobs[i].kind
               /\ jobs[i].kind \in {"sync", "stop"} => jobs'[i].routes = jobs[i].routes
               /\ jobs[i].kind = "import" => jobs'[i].result = jobs[i].result
    BY <1>1, <2>1 DEF Waiting, JobsOK, JobOK
  <2>4. ~Importing'
    BY <2>1 DEF Importing
  <2> QED
    BY <2>1, <2>2, <2>3, <2>4, HeldFails
<1>9. ASSUME NEW j \in Jobs, Settles(j) PROVE HeldInv'
  BY <1>9, HeldSettles
<1>10. CASE openRoute
  BY <1>1, <1>10, HeldStays DEF openRoute, serverVars
<1>16. CASE leavePanel
  <2>1. UNCHANGED <<routes, saved, jobs, records>> /\ editing' = NoRoute /\ Spend("edits")
    BY <1>16 DEF leavePanel, serverVars
  <2>2. spent' \in Spent /\ spent'.pushes = spent.pushes /\ spent'.records = spent.records
    BY <1>1, <2>1, SpentLess
  <2> QED
    BY <1>1, <2>1, <2>2, HeldStays
<1>11. CASE PanelNext
  BY <1>3, <1>4, <1>5, <1>6, <1>9, <1>10, <1>11, <1>16, HeldUserEdits DEF PanelNext
<1>12. ASSUME NEW c \in Clients, NEW q \in Requests, mockCatchAll(c, q) PROVE HeldInv'
  <2>1. UNCHANGED <<routes, saved, jobs, records, editing>> /\ Spend("answers")
    BY <1>12 DEF mockCatchAll, pageVars
  <2>2. spent' \in Spent /\ spent'.pushes = spent.pushes /\ spent'.records = spent.records
    BY <1>1, <2>1, SpentLess
  <2> QED
    BY <1>1, <2>1, <2>2, HeldStays
<1>13. ASSUME NEW c \in Clients, Slept(c) PROVE HeldInv'
  BY <1>1, <1>13, HeldStays DEF Slept, pageVars
<1>14. ASSUME NEW j \in Jobs, Handle(j) PROVE HeldInv'
  BY <1>14, HeldHandle
<1>15. ASSUME NEW t \in Targets, ProxyRequest(t) PROVE HeldInv'
  BY <1>15, HeldRecorded
<1> QED
  BY <1>2, <1>7, <1>8, <1>11, <1>12, <1>13, <1>14, <1>15 DEF MockNext, MockServerNext

\* The routes that are served have ids of their own, so that no two of them
\* share the place in a sequence, for any routes of a user and any imports
\* and edits between the pushes (MockStore, validateMockRoutes, proxyImport).
THEOREM RoutesAreApart == MockSpec => []ServedApart
<1>1. MockInit => HeldInv
  BY HeldInit
<1>2. HeldInv /\ [MockNext]_mockVars => HeldInv'
  BY HeldStep
<1>3. HeldInv => ServedApart
  BY DEF HeldInv, Apart, ServedApart
<1> QED
  BY <1>1, <1>2, <1>3, PTL DEF MockSpec

-----------------------------------------------------------------------------
(* The items of a sequence.                                                *)

LEMMA EmptyIsSeq == IsSeq(<<>>)
<1>1. \A T : <<>> \in Seq(T)
  OBVIOUS
<1> QED
  BY <1>1, Zenon DEF IsSeq

LEMMA Appended ==
  ASSUME NEW s, IsSeq(s), NEW e
  PROVE  /\ IsSeq(Append(s, e)) /\ Len(Append(s, e)) = Len(s) + 1 /\ Append(s, e)[Len(s) + 1] = e
         /\ \A k \in 1..Len(s) : Append(s, e)[k] = s[k]
         /\ Len(s) \in Nat
<1> DEFINE T == ToSet(s) \union {e}
<1>1. s \in Seq(T) /\ e \in T
  <2>1. \A k \in 1..Len(s) : s[k] \in T
    BY DEF ToSet
  <2> QED
    BY <2>1 DEF IsSeq
<1> HIDE DEF T
<1>2. Append(s, e) \in Seq(T)
  BY <1>1
<1>3. IsSeq(Append(s, e))
  BY <1>2, SeqOfItsElements
<1> QED
  BY <1>1, <1>3

\* The first route that matches matches, and none before it does.
Matches(list, q) ==
  {i \in DOMAIN list : /\ list[i].enabled /\ list[i].method = q.method
                       /\ matchPath(list[i].path, q.path).matched
                       /\ mockConditionsMatch(list[i].conditions, q)}

LEMMA FirstMatch ==
  ASSUME NEW list, IsSeq(list), NEW q
  PROVE  LET m == findMockRouteMatch(list, q)
         IN  /\ m = 0 => Matches(list, q) = {}
             /\ m # 0 => m \in Matches(list, q) /\ \A i \in Matches(list, q) : m <= i
<1> DEFINE hits == Matches(list, q)
<1>1. findMockRouteMatch(list, q) = IF hits = {} THEN 0 ELSE CHOOSE i \in hits : \A j \in hits : i <= j
  BY DEF findMockRouteMatch, Matches
<1>2. hits \in SUBSET Nat /\ 0 \notin hits
  BY DEF Matches, IsSeq
<1> HIDE DEF hits
<1>3. hits # {} => \E i \in hits : \A j \in hits : i <= j
  BY <1>2, LeastNumber
<1> QED
  BY <1>1, <1>2, <1>3 DEF hits

\* The index of a route counts the items it has given, round and round.
GivenInOrder(id) ==
  /\ IsSeq(picks[id]) /\ sequenceIndex[id] = Len(picks[id])
  /\ \E i \in DOMAIN routes :
       /\ routes[i].id = id /\ routes[i].sequences # <<>>
       /\ \A k \in 1..Len(picks[id]) :
            picks[id][k] = routes[i].sequences[((k - 1) % Len(routes[i].sequences)) + 1]

OrderInv == DOMAIN sequenceIndex = DOMAIN picks /\ \A id \in DOMAIN picks : GivenInOrder(id)

\* One more item of a route is given.
LEMMA OneMoreGiven ==
  ASSUME OrderInv, NEW m \in DOMAIN routes, NEW id, id = routes[m].id, routes[m].sequences # <<>>,
         NEW after, IsSeq(after),
         \A k \in 1..Len(after) :
           after[k] = routes[m].sequences[((k - 1) % Len(routes[m].sequences)) + 1],
         UNCHANGED routes, sequenceIndex' = Put(sequenceIndex, id, Len(after)),
         picks' = Put(picks, id, after)
  PROVE  OrderInv'
<1>1. /\ DOMAIN picks' = DOMAIN picks \union {id} /\ DOMAIN sequenceIndex' = DOMAIN sequenceIndex \union {id}
      /\ picks'[id] = after /\ sequenceIndex'[id] = Len(after)
      /\ \A n \in DOMAIN picks : n # id => picks'[n] = picks[n]
      /\ \A n \in DOMAIN sequenceIndex : n # id => sequenceIndex'[n] = sequenceIndex[n]
  BY DEF Put
<1>2. GivenInOrder(id)'
  BY <1>1 DEF GivenInOrder
<1>3. ASSUME NEW n \in DOMAIN picks, n # id PROVE GivenInOrder(n)'
  <2>1. picks'[n] = picks[n] /\ sequenceIndex'[n] = sequenceIndex[n] /\ GivenInOrder(n)
    BY <1>1, <1>3 DEF OrderInv
  <2> QED
    BY <2>1 DEF GivenInOrder
<1>4. DOMAIN sequenceIndex' = DOMAIN picks'
  BY <1>1 DEF OrderInv
<1> QED
  BY <1>1, <1>2, <1>3, <1>4 DEF OrderInv

LEMMA ItemPicked ==
  ASSUME OrderInv, HeldInv, NEW c \in Clients, NEW q \in Requests, mockCatchAll(c, q)
  PROVE  OrderInv'
<1> DEFINE m == findMockRouteMatch(routes, q)
           route == routes[m]
           next == nextSequenceItem(route)
<1>1. UNCHANGED routes
  BY DEF mockCatchAll
<1>2. ASSUME UNCHANGED <<sequenceIndex, picks>> PROVE OrderInv'
  BY <1>1, <1>2 DEF OrderInv, GivenInOrder
<1>3. CASE m = 0
  BY <1>2, <1>3 DEF mockCatchAll
<1>4. CASE m # 0 /\ route.sequences = <<>>
  BY <1>2, <1>4 DEF mockCatchAll, Advance, nextSequenceItem
<1>5. CASE m # 0 /\ route.sequences # <<>>
  <2> DEFINE id == route.id
             idx == At(sequenceIndex, id, 0)
             before == At(picks, id, <<>>)
             items == route.sequences
             item == items[(idx % Len(items)) + 1]
             after == Append(before, item)
  <2>1. m \in DOMAIN routes
    <3>1. IsSeq(routes)
      BY DEF HeldInv, Listed, IsList
    <3> QED
      BY <1>5, <3>1, FirstMatch DEF Matches
  <2>2. /\ IsSeq(before) /\ idx = Len(before)
        /\ \A k \in 1..Len(before) : before[k] = items[((k - 1) % Len(items)) + 1]
    <3>1. CASE id \in DOMAIN picks
      <4>1. before = picks[id] /\ idx = sequenceIndex[id] /\ GivenInOrder(id)
        BY <3>1 DEF OrderInv, At
      <4>2. PICK i \in DOMAIN routes :
              /\ routes[i].id = id
              /\ \A k \in 1..Len(picks[id]) :
                   picks[id][k] = routes[i].sequences[((k - 1) % Len(routes[i].sequences)) + 1]
        BY <4>1 DEF GivenInOrder
      <4>3. i = m
        BY <2>1, <4>2 DEF HeldInv, Apart
      <4> QED
        BY <4>1, <4>2, <4>3 DEF GivenInOrder
    <3>2. CASE id \notin DOMAIN picks
      <4>1. before = <<>> /\ idx = 0
        BY <3>2 DEF OrderInv, At
      <4>2. IsSeq(<<>>)
        BY EmptyIsSeq, Zenon
      <4>3. Len(<<>>) = 0
        OBVIOUS
      <4> HIDE DEF before, idx
      <4> QED
        BY <4>1, <4>2, <4>3
    <3> QED
      BY <3>1, <3>2
  <2>3. idx + 1 # 0
    BY <2>2 DEF IsSeq
  <2>4. next.n = idx + 1 /\ next.item = item /\ Advance(route, next)
    BY <1>5 DEF mockCatchAll, nextSequenceItem
  <2>5. sequenceIndex' = Put(sequenceIndex, id, idx + 1) /\ picks' = Put(picks, id, after)
    BY <2>3, <2>4 DEF Advance
  <2> HIDE DEF idx, before, next
  <2>6. /\ IsSeq(after) /\ Len(after) = Len(before) + 1 /\ after[Len(before) + 1] = item
        /\ \A k \in 1..Len(before) : after[k] = before[k]
        /\ Len(before) \in Nat
    BY <2>2, Appended
  <2> HIDE DEF after
  <2>7. ASSUME NEW k \in 1..Len(after) PROVE after[k] = items[((k - 1) % Len(items)) + 1]
    <3>1. CASE k = Len(before) + 1
      <4>1. k - 1 = idx
        BY <2>2, <2>6, <3>1
      <4> QED
        BY <2>6, <3>1, <4>1
    <3>2. CASE k \in 1..Len(before)
      BY <2>2, <2>6, <3>2
    <3> QED
      BY <2>6, <3>1, <3>2
  <2>8. sequenceIndex' = Put(sequenceIndex, id, Len(after)) /\ picks' = Put(picks, id, after)
    BY <2>2, <2>5, <2>6
  <2> HIDE DEF m
  <2> QED
    BY <1>1, <1>5, <2>1, <2>6, <2>7, <2>8, OneMoreGiven
<1> QED
  BY <1>3, <1>4, <1>5

LEMMA OrderStep ==
  ASSUME OrderInv, HeldInv, [MockNext]_mockVars
  PROVE  OrderInv'
<1>1. ASSUME UNCHANGED <<routes, sequenceIndex, picks>> PROVE OrderInv'
  <2>1. \A id : GivenInOrder(id)' <=> GivenInOrder(id)
    BY <1>1, Zenon DEF GivenInOrder
  <2> QED
    BY <1>1, <2>1 DEF OrderInv
<1>2. ASSUME sequenceIndex' = <<>>, picks' = <<>> PROVE OrderInv'
  <2>1. DOMAIN <<>> = {}
    OBVIOUS
  <2> QED
    BY <1>2, <2>1 DEF OrderInv
<1>3. CASE UNCHANGED mockVars
  BY <1>1, <1>3 DEF mockVars, serverVars
<1>4. CASE PanelNext
  BY <1>1, <1>4 DEF PanelNext, sync, stop, clearLogs, importSelected, clearRecords, Settles, openRoute,
                    saveRoute, importRoutes, deleteAll, deleteRoute, toggleEnabled, leavePanel, persistRoutes,
                    serverVars
<1>5. ASSUME NEW c \in Clients, NEW q \in Requests, mockCatchAll(c, q) PROVE OrderInv'
  BY <1>5, ItemPicked
<1>6. ASSUME NEW c \in Clients, Slept(c) PROVE OrderInv'
  BY <1>1, <1>6 DEF Slept
<1>7. ASSUME NEW j \in Jobs, Handle(j) PROVE OrderInv'
  BY <1>1, <1>2, <1>7 DEF Handle, replaceRoutes, proxyImport, Reset
<1>8. CASE Restart
  BY <1>2, <1>8 DEF Restart, Reset
<1>9. ASSUME NEW j \in Jobs, Fails(j) PROVE OrderInv'
  BY <1>1, <1>9 DEF Fails, serverVars
<1>10. ASSUME NEW t \in Targets, ProxyRequest(t) PROVE OrderInv'
  BY <1>1, <1>10 DEF ProxyRequest
<1> QED
  BY <1>3, <1>4, <1>5, <1>6, <1>7, <1>8, <1>9, <1>10 DEF MockNext, MockServerNext

\* Requests that overlap are given the items of a route in order, round and
\* round, from the first one after each change of the routes, for any number
\* of clients, routes and pushes (nextSequenceItem, MockStore.replaceRoutes).
THEOREM ItemsComeInOrder == MockSpec => []ItemsInOrder
<1>1. MockInit => HeldInv /\ OrderInv
  <2>1. MockInit => OrderInv
    <3>1. DOMAIN <<>> = {}
      OBVIOUS
    <3> QED
      BY <3>1 DEF MockInit, OrderInv
  <2> QED
    BY <2>1, HeldInit
<1>2. HeldInv /\ OrderInv /\ [MockNext]_mockVars => HeldInv' /\ OrderInv'
  BY HeldStep, OrderStep
<1>3. OrderInv => ItemsInOrder
  <2> SUFFICES ASSUME OrderInv, NEW id \in DOMAIN picks
               PROVE  \E i \in DOMAIN routes :
                        /\ routes[i].id = id
                        /\ \A k \in DOMAIN picks[id] :
                             picks[id][k] = routes[i].sequences[((k - 1) % Len(routes[i].sequences)) + 1]
    BY DEF ItemsInOrder
  <2>1. GivenInOrder(id)
    BY DEF OrderInv
  <2>2. DOMAIN picks[id] = 1..Len(picks[id])
    BY <2>1 DEF GivenInOrder, IsSeq
  <2> QED
    BY <2>1, <2>2 DEF GivenInOrder
<1> QED
  BY <1>1, <1>2, <1>3, PTL DEF MockSpec

-----------------------------------------------------------------------------
(* The routes of an import.                                                *)

\* They are the last routes, the newest record first, and no route before
\* them is for the same requests.
Before == Len(routes) - Len(imported)
ImportInv ==
  /\ IsSeq(routes) /\ IsSeq(imported) /\ Len(imported) <= Len(routes)
  /\ \A k \in 1..Len(imported) :
       LET r == imported[k].route
       IN  /\ routes[Before + k] = r /\ r.enabled /\ r.conditions = <<>>
           /\ \A i \in 1..Before :
                ~(routes[i].method = r.method /\ routes[i].path = r.path /\ routes[i].conditions = <<>>)
  /\ \A k \in 1..Len(imported) : imported[k].at \in Int
  /\ \A i, k \in 1..Len(imported) : i < k => imported[k].at < imported[i].at

LEMMA NoImport ==
  ASSUME NEW list, IsSeq(list), routes' = list, imported' = <<>>
  PROVE  ImportInv'
<1>1. Len(list) \in Nat
  BY DEF IsSeq
<1>2. Len(<<>>) = 0 /\ 1..0 = {}
  OBVIOUS
<1> QED
  BY <1>1, <1>2, EmptyIsSeq DEF ImportInv

LEMMA ImportHandled ==
  ASSUME HeldInv, NEW j \in Jobs, Handle(j), jobs[j].kind = "import"
  PROVE  ImportInv'
<1> DEFINE list == Selected(j)
           new == MadeOf(list)
           S == {r \in ToSet(routes) : ~(\E i \in DOMAIN new : /\ new[i].method = r.method
                                                              /\ new[i].path = r.path
                                                              /\ r.conditions = <<>>)}
           old == Only(routes, S)
           made == [i \in DOMAIN new |-> [route |-> new[i], at |-> list[i].id]]
<1>1. AreRecords(list) /\ spent.pushes \in Nat /\ IsSeq(routes)
  BY SelectedOK, HorizonType DEF HeldInv, Listed, IsList
<1>2. /\ IsSeq(new) /\ Len(new) = Len(list) /\ Len(list) \in Nat
      /\ \A i \in 1..Len(list) : new[i].enabled /\ new[i].conditions = <<>>
  BY <1>1, RoutesMade
<1>3. routes' = old \o new /\ imported' = made
  BY DEF Handle, proxyImport, Reset, Merged, MadeOf, Selected
<1>4. /\ routes \in Seq(ToSet(routes)) /\ old \in Seq(ToSet(routes))
      /\ \E at : Picks(old, routes, S, Len(routes), at)
  BY <1>1, OnlyPicks DEF IsSeq
<1>5. IsSeq(old)
  BY <1>4, SeqOfItsElements
<1>6. /\ IsSeq(old \o new) /\ Len(old \o new) = Len(old) + Len(new)
      /\ Len(old) \in Nat /\ Len(new) \in Nat
      /\ \A i \in 1..Len(old) : (old \o new)[i] = old[i]
      /\ \A i \in 1..Len(new) : (old \o new)[Len(old) + i] = new[i]
  BY <1>2, <1>5, Joined
<1>7. \A i \in 1..Len(old) : old[i] \in S
  <2>1. PICK at : Picks(old, routes, S, Len(routes), at)
    BY <1>4
  <2> HIDE DEF old, S
  <2> QED
    BY <2>1 DEF Picks
<1>8. DOMAIN new = 1..Len(new)
  BY <1>2 DEF IsSeq
<1>9. /\ IsSeq(made) /\ Len(made) = Len(new)
      /\ \A k \in 1..Len(new) : made[k].route = new[k] /\ made[k].at = list[k].id
  <2> DEFINE T == ToSet(made)
  <2>1. DOMAIN made = 1..Len(new) /\ made = [k \in 1..Len(new) |-> made[k]]
    BY <1>8
  <2>2. \A k \in 1..Len(new) : made[k].route = new[k] /\ made[k].at = list[k].id
    BY <1>8
  <2>3. \A k \in 1..Len(new) : made[k] \in T
    BY <2>1 DEF ToSet
  <2> HIDE DEF made, T, new
  <2>4. made \in [1..Len(new) -> T]
    BY <2>1, <2>3
  <2>5. made \in Seq(T) /\ Len(made) = Len(new)
    BY <1>6, <2>1, <2>4
  <2> QED
    BY <2>2, <2>5, SeqOfItsElements
<1>10. ASSUME NEW k \in 1..Len(new), NEW i \in 1..Len(old)
       PROVE  ~(old[i].method = new[k].method /\ old[i].path = new[k].path /\ old[i].conditions = <<>>)
  BY <1>7, <1>8
<1>11. /\ \A k \in 1..Len(new) : list[k].id \in Int
       /\ \A i, k \in 1..Len(new) : i < k => list[k].id < list[i].id
  BY <1>1, <1>2 DEF AreRecords, IsRecord
<1> HIDE DEF list, new, S, old, made
<1>12. Before' = Len(old) /\ Len(imported') = Len(new) /\ Len(imported') <= Len(routes')
  BY <1>3, <1>6, <1>9 DEF Before
<1>13. ASSUME NEW k \in 1..Len(imported')
       PROVE  LET r == imported'[k].route
              IN  /\ routes'[Before' + k] = r /\ r.enabled /\ r.conditions = <<>>
                  /\ \A i \in 1..Before' :
                       ~(routes'[i].method = r.method /\ routes'[i].path = r.path /\ routes'[i].conditions = <<>>)
  <2>1. k \in 1..Len(new) /\ imported'[k].route = new[k]
    BY <1>3, <1>9, <1>12
  <2>2. routes'[Before' + k] = new[k] /\ new[k].enabled /\ new[k].conditions = <<>>
    BY <1>2, <1>3, <1>6, <1>12, <2>1
  <2>3. \A i \in 1..Before' : routes'[i] = old[i]
    BY <1>3, <1>6, <1>12
  <2> QED
    BY <1>10, <1>12, <2>1, <2>2, <2>3
<1>14. \A k \in 1..Len(imported') : imported'[k].at = list[k].id
  BY <1>3, <1>9, <1>12
<1>15. \A k \in 1..Len(imported') : imported'[k].at \in Int
  BY <1>11, <1>12, <1>14
<1>16. \A i, k \in 1..Len(imported') : i < k => imported'[k].at < imported'[i].at
  BY <1>11, <1>12, <1>14
<1>17. IsSeq(routes') /\ IsSeq(imported')
  BY <1>3, <1>6, <1>9
<1> QED
  BY <1>12, <1>13, <1>15, <1>16, <1>17, Zenon DEF ImportInv

LEMMA ImportStep ==
  ASSUME ImportInv, HeldInv, [MockNext]_mockVars
  PROVE  ImportInv'
<1>1. ASSUME UNCHANGED <<routes, imported>> PROVE ImportInv'
  BY <1>1 DEF ImportInv, Before
<1>2. CASE UNCHANGED mockVars
  BY <1>1, <1>2 DEF mockVars, serverVars
<1>3. CASE PanelNext
  BY <1>1, <1>3 DEF PanelNext, sync, stop, clearLogs, importSelected, clearRecords, Settles, openRoute,
                    saveRoute, importRoutes, deleteAll, deleteRoute, toggleEnabled, leavePanel, persistRoutes,
                    serverVars
<1>4. ASSUME NEW c \in Clients, NEW q \in Requests, mockCatchAll(c, q) PROVE ImportInv'
  BY <1>1, <1>4 DEF mockCatchAll
<1>5. ASSUME NEW c \in Clients, Slept(c) PROVE ImportInv'
  BY <1>1, <1>5 DEF Slept
<1>6. ASSUME NEW j \in Jobs, Handle(j) PROVE ImportInv'
  <2>1. CASE jobs[j].kind = "import"
    BY <1>6, <2>1, ImportHandled
  <2>2. CASE jobs[j].kind \in {"sync", "stop"}
    <3>1. IsSeq(jobs[j].routes)
      BY <1>6, <2>2 DEF HeldInv, Listed, JobLists, IsList, Waiting, Handle
    <3>2. routes' = jobs[j].routes /\ imported' = <<>>
      BY <1>6, <2>2 DEF Handle, replaceRoutes, Reset
    <3> QED
      BY <3>1, <3>2, NoImport
  <2>3. CASE jobs[j].kind \notin {"import", "sync", "stop"}
    BY <1>1, <1>6, <2>3 DEF Handle
  <2> QED
    BY <2>1, <2>2, <2>3
<1>7. CASE Restart
  BY <1>7, EmptyIsSeq, NoImport DEF Restart, Reset
<1>8. ASSUME NEW j \in Jobs, Fails(j) PROVE ImportInv'
  BY <1>1, <1>8 DEF Fails, serverVars
<1>9. ASSUME NEW t \in Targets, ProxyRequest(t) PROVE ImportInv'
  BY <1>1, <1>9 DEF ProxyRequest
<1> QED
  BY <1>2, <1>3, <1>4, <1>5, <1>6, <1>7, <1>8, <1>9 DEF MockNext, MockServerNext

\* Until the next push, of the routes without conditions for a method and
\* path that was imported, the newest record answers: for any records, any
\* selection of them and any routes that were there (proxyImport,
\* findMockRouteMatch).
THEOREM NewestRecordIsAnswered == MockSpec => []NewestRecordAnswers
<1>1. MockInit => HeldInv /\ ImportInv
  <2> SUFFICES ASSUME MockInit PROVE HeldInv /\ ImportInv
    OBVIOUS
  <2>1. Len(<<>>) = 0 /\ 1..0 = {}
    OBVIOUS
  <2>2. routes = <<>> /\ imported = <<>>
    BY DEF MockInit
  <2>3. ImportInv
    BY <2>1, <2>2, EmptyIsSeq DEF ImportInv
  <2> QED
    BY <2>3, HeldInit
<1>2. HeldInv /\ ImportInv /\ [MockNext]_mockVars => HeldInv' /\ ImportInv'
  BY HeldStep, ImportStep
<1>3. ImportInv => NewestRecordAnswers
  <2> SUFFICES ASSUME ImportInv, NEW q \in Requests, NEW k \in DOMAIN imported
               PROVE  LET m == findMockRouteMatch(routes, q)
                          r == imported[k].route
                          Same(s) == s.method = r.method /\ s.path = r.path
                          newest == CHOOSE n \in DOMAIN imported :
                                      /\ Same(imported[n].route)
                                      /\ \A l \in DOMAIN imported :
                                           Same(imported[l].route) => imported[l].at <= imported[n].at
                      IN IF m = 0 THEN ~(r.method = q.method /\ matchPath(r.path, q.path).matched)
                         ELSE (Same(routes[m]) /\ routes[m].conditions = <<>>)
                                => routes[m] = imported[newest].route
    BY Zenon DEF NewestRecordAnswers
  <2> DEFINE m == findMockRouteMatch(routes, q)
             r == imported[k].route
             Same(s) == s.method = r.method /\ s.path = r.path
             IsNewest(n) == /\ Same(imported[n].route)
                            /\ \A l \in DOMAIN imported :
                                 Same(imported[l].route) => imported[l].at <= imported[n].at
             newest == CHOOSE n \in DOMAIN imported : IsNewest(n)
  <2>1. /\ DOMAIN imported = 1..Len(imported) /\ DOMAIN routes = 1..Len(routes)
        /\ Len(imported) \in Nat /\ Len(routes) \in Nat
        /\ Before \in Nat /\ Before + Len(imported) = Len(routes)
    <3>1. /\ DOMAIN imported = 1..Len(imported) /\ DOMAIN routes = 1..Len(routes)
          /\ Len(imported) \in Nat /\ Len(routes) \in Nat /\ Len(imported) <= Len(routes)
      BY DEF ImportInv, IsSeq
    <3> QED
      BY <3>1 DEF Before
  <2>2. /\ m = 0 => Matches(routes, q) = {}
        /\ m # 0 => m \in Matches(routes, q) /\ \A i \in Matches(routes, q) : m <= i
    BY FirstMatch DEF ImportInv
  <2>3. \A l \in 1..Len(imported) :
          LET s == imported[l].route
          IN  /\ routes[Before + l] = s /\ Before + l \in DOMAIN routes
              /\ s.method = q.method /\ matchPath(s.path, q.path).matched
                    => Before + l \in Matches(routes, q)
    <3> TAKE l \in 1..Len(imported)
    <3>1. /\ routes[Before + l] = imported[l].route /\ imported[l].route.enabled
          /\ imported[l].route.conditions = <<>>
      BY DEF ImportInv
    <3>2. Before + l \in DOMAIN routes
      BY <2>1
    <3>3. mockConditionsMatch(<<>>, q)
      BY DEF mockConditionsMatch
    <3> QED
      BY <3>1, <3>2, <3>3 DEF Matches
  <2>4. m = 0 => ~(r.method = q.method /\ matchPath(r.path, q.path).matched)
    BY <2>1, <2>2, <2>3
  <2>5. ASSUME m # 0, Same(routes[m]), routes[m].conditions = <<>> PROVE routes[m] = imported[newest].route
    <3> DEFINE n == m - Before
    <3>1. m \in 1..Len(routes)
      BY <2>1, <2>2, <2>5 DEF Matches
    <3>2. n \in 1..Len(imported) /\ Before + n = m
      <4>1. ~(m \in 1..Before)
        BY <2>1, <2>5 DEF ImportInv
      <4> HIDE DEF m
      <4> QED
        BY <2>1, <3>1, <4>1
    <3>3. routes[m] = imported[n].route /\ Same(imported[n].route)
      BY <2>3, <2>5, <3>2
    <3>4. ASSUME NEW l \in 1..Len(imported), Same(imported[l].route) PROVE n <= l
      <4>1. imported[l].route.method = q.method /\ matchPath(imported[l].route.path, q.path).matched
        BY <2>2, <2>5, <3>4 DEF Matches
      <4>2. Before + l \in Matches(routes, q)
        BY <2>3, <4>1
      <4>3. m <= Before + l
        BY <2>2, <2>5, <4>2
      <4> HIDE DEF m
      <4> QED
        BY <2>1, <3>1, <4>3
    <3> HIDE DEF n
    <3>5. IsNewest(n)
      <4>1. ASSUME NEW l \in 1..Len(imported), Same(imported[l].route) PROVE imported[l].at <= imported[n].at
        <5>1. n <= l /\ imported[l].at \in Int /\ imported[n].at \in Int
          BY <3>2, <3>4, <4>1 DEF ImportInv
        <5>2. n # l => imported[l].at < imported[n].at
          BY <3>2, <5>1 DEF ImportInv
        <5> QED
          BY <5>1, <5>2
      <4> QED
        BY <2>1, <3>3, <4>1
    <3>6. newest \in DOMAIN imported /\ IsNewest(newest)
      <4>1. n \in DOMAIN imported
        BY <2>1, <3>2
      <4> HIDE DEF IsNewest
      <4> QED
        BY <3>5, <4>1
    <3>7. newest = n
      <4> HIDE DEF newest
      <4>1. n <= newest /\ newest \in 1..Len(imported)
        BY <2>1, <3>4, <3>6
      <4>2. imported[n].at <= imported[newest].at
        BY <2>1, <3>2, <3>3, <3>6
      <4>3. ~(n < newest)
        <5>1. imported[newest].at \in Int /\ imported[n].at \in Int
          BY <3>2, <4>1 DEF ImportInv
        <5> QED
          BY <3>2, <4>1, <4>2, <5>1 DEF ImportInv
      <4> QED
        BY <3>2, <4>1, <4>3
    <3> QED
      BY <3>3, <3>7
  <2> QED
    BY <2>4, <2>5, Zenon
<1> QED
  BY <1>1, <1>2, <1>3, PTL DEF MockSpec

-----------------------------------------------------------------------------
(* Replaying a fixture.                                                    *)

\* A sequence that is given as a function.
LEMMA MadeSeq ==
  ASSUME NEW n \in Nat, NEW f, DOMAIN f = 1..n, f = [i \in 1..n |-> f[i]]
  PROVE  IsSeq(f) /\ Len(f) = n
<1> DEFINE T == ToSet(f)
<1>1. \A i \in 1..n : f[i] \in T
  BY DEF ToSet
<1> HIDE DEF T
<1>2. f \in [1..n -> T]
  BY <1>1
<1>3. f \in Seq(T) /\ Len(f) = n
  BY <1>2
<1> QED
  BY <1>3, SeqOfItsElements

LEMMA ModOfSmall ==
  ASSUME NEW n \in Nat \ {0}, NEW a \in 0..(n - 1)
  PROVE  a % n = a
OBVIOUS

\* What was recorded of a method.
RecordedOf(entries, m) == Only(entries, {e \in ToSet(entries) : e.fullMethod = m})

\* The n-th call of a method is answered as the n-th that was recorded, and
\* no two routes of the replay are for one method.
LEMMA ReplayRepeats ==
  ASSUME NEW entries, IsSeq(entries)
  PROVE  LET list == replayFixture(entries)
         IN /\ \A i, k \in DOMAIN list : list[i].fullMethod = list[k].fullMethod => i = k
            /\ \A m : RecordedOf(entries, m) # <<>> =>
                 \E i \in DOMAIN list :
                   /\ list[i].fullMethod = m
                   /\ \A n \in DOMAIN RecordedOf(entries, m) :
                        list[i].responses[((n - 1) % Len(list[i].responses)) + 1] = RecordedOf(entries, m)[n].response
<1> DEFINE list == replayFixture(entries)
           Mine(m) == Only(entries, {e \in ToSet(entries) : e.fullMethod = m})
           IsFirst(i) == \A k \in 1..(i - 1) : entries[k].fullMethod # entries[i].fullMethod
           places == [i \in DOMAIN entries |-> i]
           F == {i \in DOMAIN entries : IsFirst(i)}
           heads == Only(places, F)
           N == Len(entries)
<1>1. N \in Nat /\ DOMAIN entries = 1..N /\ entries \in Seq(ToSet(entries))
  BY DEF IsSeq
<1>2. /\ DOMAIN list = DOMAIN heads
      /\ \A i \in DOMAIN heads :
           /\ list[i].fullMethod = entries[heads[i]].fullMethod
           /\ list[i].responses = [k \in DOMAIN Mine(entries[heads[i]].fullMethod) |->
                                    Mine(entries[heads[i]].fullMethod)[k].response]
  BY DEF replayFixture
<1>3. places \in Seq(Nat) /\ Len(places) = N /\ \A i \in 1..N : places[i] = i
  BY <1>1
<1> HIDE DEF list, places
<1>4. PICK at : Picks(heads, places, F, N, at)
  BY <1>3, OnlyPicks
<1>5. /\ DOMAIN heads = 1..Len(at) /\ Len(at) \in Nat
      /\ \A k \in 1..Len(at) : at[k] \in 1..N /\ heads[k] = at[k] /\ at[k] \in F
      /\ \A k, l \in 1..Len(at) : k < l => at[k] < at[l]
      /\ \A i \in F : \E k \in 1..Len(at) : at[k] = i
  <2>1. F \subseteq 1..N
    BY <1>1
  <2> HIDE DEF F, heads
  <2>2. at \in Seq(1..N) /\ DOMAIN heads = 1..Len(at)
    BY <1>4 DEF Picks
  <2>3. ASSUME NEW k \in 1..Len(at) PROVE at[k] \in 1..N /\ heads[k] = at[k] /\ at[k] \in F
    <3>1. at[k] \in 1..N
      BY <2>2
    <3>2. heads[k] = places[at[k]] /\ places[at[k]] \in F
      BY <1>4 DEF Picks
    <3> QED
      BY <1>3, <3>1, <3>2
  <2>4. ASSUME NEW i \in F PROVE \E k \in 1..Len(at) : at[k] = i
    <3>1. i \in 1..N /\ places[i] \in F
      BY <1>3, <2>1
    <3> QED
      BY <1>4, <3>1 DEF Picks
  <2>5. \A k, l \in 1..Len(at) : k < l => at[k] < at[l]
    BY <1>4 DEF Picks
  <2> QED
    BY <2>2, <2>3, <2>4, <2>5
<1> HIDE DEF heads
<1>6. ASSUME NEW i \in DOMAIN list, NEW k \in DOMAIN list, list[i].fullMethod = list[k].fullMethod PROVE i = k
  <2>1. /\ i \in 1..Len(at) /\ k \in 1..Len(at) /\ at[i] \in F /\ at[k] \in F
        /\ at[i] \in 1..N /\ at[k] \in 1..N
        /\ entries[at[i]].fullMethod = entries[at[k]].fullMethod
    BY <1>2, <1>5, <1>6
  <2>2. ~(at[i] < at[k]) /\ ~(at[k] < at[i])
    <3>1. ASSUME NEW x \in 1..N, NEW y \in 1..N, x < y, y \in F
          PROVE  entries[x].fullMethod # entries[y].fullMethod
      BY <3>1
    <3> QED
      BY <2>1, <3>1
  <2> QED
    BY <1>5, <2>1, <2>2
<1>7. ASSUME NEW m, Mine(m) # <<>>
      PROVE  \E i \in DOMAIN list :
               /\ list[i].fullMethod = m
               /\ \A n \in DOMAIN Mine(m) :
                    list[i].responses[((n - 1) % Len(list[i].responses)) + 1] = Mine(m)[n].response
  <2> DEFINE S == {e \in ToSet(entries) : e.fullMethod = m}
             M == {i \in 1..N : entries[i].fullMethod = m}
  <2>1. PICK to : Picks(Mine(m), entries, S, N, to)
    BY <1>1, OnlyPicks
  <2>2. Mine(m) \in Seq(ToSet(entries))
    BY <1>1, OnlyPicks
  <2> DEFINE mine == Mine(m)
             L == Len(mine)
  <2>3. L \in Nat \ {0} /\ DOMAIN mine = 1..L
    BY <1>7, <2>2
  <2>4. M # {}
    <3>1. 1 \in 1..Len(to) /\ to[1] \in 1..N /\ entries[to[1]] \in S
      BY <2>1, <2>3 DEF Picks
    <3> QED
      BY <3>1
  <2>5. PICK i0 \in M : \A i \in M : i0 <= i
    <3>1. M \in SUBSET Nat
      OBVIOUS
    <3> HIDE DEF M
    <3> QED
      BY <2>4, <3>1, LeastNumber
  <2>6. i0 \in F
    BY <1>1, <2>5
  <2>7. PICK i \in 1..Len(at) : at[i] = i0
    BY <1>5, <2>6
  <2>8. i \in DOMAIN list /\ list[i].fullMethod = m
        /\ list[i].responses = [k \in DOMAIN mine |-> mine[k].response]
    <3>1. i \in DOMAIN heads /\ heads[i] = i0 /\ entries[i0].fullMethod = m
      BY <1>5, <2>5, <2>7
    <3> HIDE DEF Mine
    <3> QED
      BY <1>2, <3>1
  <2> DEFINE given1 == [k \in DOMAIN mine |-> mine[k].response]
  <2> HIDE DEF mine
  <2>9. Len(given1) = L /\ \A k \in 1..L : given1[k] = mine[k].response
    <3>1. /\ DOMAIN given1 = 1..L /\ given1 = [k \in 1..L |-> given1[k]]
          /\ \A k \in 1..L : given1[k] = mine[k].response
      BY <2>3
    <3> HIDE DEF given1
    <3> QED
      BY <2>3, <3>1, MadeSeq
  <2>10. ASSUME NEW n \in 1..L PROVE ((n - 1) % L) + 1 = n
    <3>1. n - 1 \in 0..(L - 1)
      BY <2>3
    <3>2. (n - 1) % L = n - 1
      BY <2>3, <3>1, ModOfSmall
    <3> QED
      BY <2>3, <3>2
  <2>11. \A n \in DOMAIN mine :
           list[i].responses[((n - 1) % Len(list[i].responses)) + 1] = mine[n].response
    <3>1. list[i].responses = given1
      BY <2>8
    <3> HIDE DEF given1
    <3> QED
      BY <2>3, <2>9, <2>10, <3>1
  <2> QED
    BY <2>8, <2>11 DEF mine
<1>8. \A m : RecordedOf(entries, m) = Mine(m)
  BY DEF RecordedOf
<1> HIDE DEF Mine
<1> QED
  BY <1>6, <1>7, <1>8 DEF list

-----------------------------------------------------------------------------
(* The types of what the servers and the panel keep.                       *)

PanelTypes ==
  /\ mockStatus \in {"", "Syncing...", "Active", "Stopping...", "Inactive", "Error"}
  /\ importing \in BOOLEAN
  /\ DOMAIN calls = Clients /\ \A c \in Clients : calls[c].pc \in {"idle", "sleeping"}

LEMMA PanelTyped == MockSpec => []PanelTypes
<1>1. MockInit => PanelTypes
  <2> SUFFICES ASSUME MockInit PROVE PanelTypes
    OBVIOUS
  <2>1. mockStatus = "" /\ importing = FALSE /\ calls = [c \in Clients |-> Idle]
    BY DEF MockInit
  <2>2. Idle.pc = "idle"
    BY DEF Idle
  <2> QED
    BY <2>1, <2>2 DEF PanelTypes
<1>2. PanelTypes /\ [MockNext]_mockVars => PanelTypes'
  <2> SUFFICES ASSUME PanelTypes, [MockNext]_mockVars PROVE PanelTypes'
    OBVIOUS
  <2>1. ASSUME UNCHANGED <<mockStatus, importing, calls>> PROVE PanelTypes'
    BY <2>1 DEF PanelTypes
  <2>2. CASE UNCHANGED mockVars
    BY <2>1, <2>2 DEF mockVars, pageVars
  <2>3. ASSUME NEW j \in Jobs,
               sync(j) \/ stop(j) \/ clearLogs(j) \/ importSelected(j) \/ clearRecords(j)
        PROVE  PanelTypes'
    BY <2>3 DEF sync, stop, clearLogs, importSelected, clearRecords, PanelTypes
  <2>4. ASSUME NEW j \in Jobs, Settles(j) PROVE PanelTypes'
    BY <2>4 DEF Settles, NotStored, onSuccess, onError, PanelTypes
  <2>5. CASE openRoute \/ \E next : persistRoutes(next)
    BY <2>1, <2>5 DEF openRoute, persistRoutes
  <2>12. CASE leavePanel
    BY <2>12 DEF leavePanel, PanelTypes
  <2>6. CASE PanelNext
    BY <2>3, <2>4, <2>5, <2>6, <2>12
       DEF PanelNext, saveRoute, importRoutes, deleteAll, deleteRoute, toggleEnabled
  <2>7. ASSUME NEW c \in Clients, NEW q \in Requests, mockCatchAll(c, q) PROVE PanelTypes'
    <3>1. UNCHANGED <<mockStatus, importing>>
      BY <2>7 DEF mockCatchAll, pageVars
    <3>2. UNCHANGED calls \/ \E entry : calls' = [calls EXCEPT ![c] = [pc |-> "sleeping", entry |-> entry]]
      BY <2>7 DEF mockCatchAll
    <3>3. CASE UNCHANGED calls
      BY <2>1, <3>1, <3>3
    <3>4. ASSUME NEW entry, calls' = [calls EXCEPT ![c] = [pc |-> "sleeping", entry |-> entry]]
          PROVE  DOMAIN calls' = Clients /\ \A d \in Clients : calls'[d].pc \in {"idle", "sleeping"}
      <4>1. \A d \in Clients : calls'[d] = IF d = c THEN [pc |-> "sleeping", entry |-> entry] ELSE calls[d]
        BY <3>4 DEF PanelTypes
      <4>2. [pc |-> "sleeping", entry |-> entry].pc = "sleeping"
        OBVIOUS
      <4> QED
        BY <3>4, <4>1, <4>2 DEF PanelTypes
    <3> QED
      BY <3>1, <3>2, <3>3, <3>4 DEF PanelTypes
  <2>8. ASSUME NEW c \in Clients, Slept(c) PROVE PanelTypes'
    BY <2>8 DEF Slept, pageVars, PanelTypes, Idle
  <2>9. ASSUME NEW j \in Jobs, Handle(j) \/ Fails(j) PROVE PanelTypes'
    BY <2>1, <2>9 DEF Handle, Fails
  <2>10. CASE Restart
    BY <2>10 DEF Restart, PanelTypes, Idle
  <2>11. ASSUME NEW t \in Targets, ProxyRequest(t) PROVE PanelTypes'
    BY <2>1, <2>11 DEF ProxyRequest, pageVars
  <2> QED
    BY <2>2, <2>6, <2>7, <2>8, <2>9, <2>10, <2>11 DEF MockNext, MockServerNext
<1> QED
  BY <1>1, <1>2, PTL DEF MockSpec

\* The panel acts on the end of calls that are under way.
WatchedInv == HeldInv /\ watched \subseteq Waiting /\ unsaved \in BOOLEAN

LEMMA WatchedStep ==
  ASSUME WatchedInv, [MockNext]_mockVars
  PROVE  WatchedInv'
<1>1. HeldInv' /\ JobsOK
  BY HeldStep DEF WatchedInv, HeldInv
<1>2. ASSUME Waiting' = Waiting, UNCHANGED <<watched, unsaved>> PROVE WatchedInv'
  BY <1>1, <1>2 DEF WatchedInv
<1>3. ASSUME UNCHANGED <<jobs, watched, unsaved>> PROVE WatchedInv'
  BY <1>2, <1>3 DEF Waiting
<1>4. ASSUME NEW j \in Jobs, NEW job, JobOK(job), job.pc = "waiting", Call(j, job),
             watched' \subseteq watched \union {j}, unsaved' \in BOOLEAN
      PROVE  WatchedInv'
  BY <1>1, <1>4, CallStarts DEF WatchedInv
<1>5. ASSUME NEW j \in Jobs, sync(j) \/ stop(j) \/ clearLogs(j) \/ importSelected(j) \/ clearRecords(j)
      PROVE  WatchedInv'
  <2>1. PICK job : JobOK(job) /\ job.pc = "waiting" /\ Call(j, job)
    <3>1. \A x : /\ JobOK([pc |-> "waiting", kind |-> "import", ids |-> x, result |-> <<>>])
                 /\ JobOK([pc |-> "waiting", kind |-> "sync", routes |-> x])
                 /\ JobOK([pc |-> "waiting", kind |-> "stop", routes |-> x])
                 /\ JobOK([pc |-> "waiting", kind |-> "clear logs"])
                 /\ JobOK([pc |-> "waiting", kind |-> "clear records"])
      BY DEF JobOK, JobKinds
    <3>2. CASE sync(j)
      BY <3>1, <3>2 DEF sync
    <3>3. CASE stop(j)
      BY <3>1, <3>3 DEF stop
    <3>4. CASE clearLogs(j)
      BY <3>1, <3>4 DEF clearLogs
    <3>5. CASE importSelected(j)
      BY <3>1, <3>5 DEF importSelected
    <3>6. CASE clearRecords(j)
      BY <3>1, <3>6 DEF clearRecords
    <3> QED
      BY <1>5, <3>2, <3>3, <3>4, <3>5, <3>6
  <2>2. watched' \subseteq watched \union {j} /\ unsaved' \in BOOLEAN
    BY <1>5 DEF sync, stop, clearLogs, importSelected, clearRecords, WatchedInv
  <2> QED
    BY <1>4, <2>1, <2>2
<1>6. ASSUME NEW j \in Jobs, Settles(j) PROVE WatchedInv'
  <2>1. Waiting' = Waiting \ {j}
    BY <1>1, <1>6, JobSettles
  <2>2. watched' = watched \ {j} /\ unsaved' \in BOOLEAN
    BY <1>6 DEF Settles, NotStored, onSuccess, WatchedInv
  <2> QED
    BY <1>1, <2>1, <2>2 DEF WatchedInv
<1>7. CASE leavePanel
  BY <1>1, <1>7 DEF leavePanel, WatchedInv
<1>8. CASE openRoute \/ \E next : persistRoutes(next)
  BY <1>3, <1>8 DEF openRoute, persistRoutes
<1>9. CASE PanelNext
  BY <1>5, <1>6, <1>7, <1>8, <1>9
     DEF PanelNext, saveRoute, importRoutes, deleteAll, deleteRoute, toggleEnabled
<1>10. CASE UNCHANGED mockVars
  BY <1>3, <1>10 DEF mockVars, pageVars
<1>11. ASSUME NEW c \in Clients, Slept(c) \/ \E q \in Requests : mockCatchAll(c, q) PROVE WatchedInv'
  BY <1>3, <1>11 DEF Slept, mockCatchAll, pageVars
<1>12. ASSUME NEW j \in Jobs, Handle(j) PROVE WatchedInv'
  BY <1>1, <1>2, <1>12, JobAnswered DEF Handle
<1>13. ASSUME NEW j \in Jobs, Fails(j) PROVE WatchedInv'
  BY <1>1, <1>2, <1>13, JobFails DEF Fails
<1>14. CASE Restart
  BY <1>1, <1>2, <1>14, JobsLost DEF Restart
<1>15. ASSUME NEW t \in Targets, ProxyRequest(t) PROVE WatchedInv'
  BY <1>3, <1>15 DEF ProxyRequest, pageVars
<1> QED
  BY <1>9, <1>10, <1>11, <1>12, <1>13, <1>14, <1>15 DEF MockNext, MockServerNext

LEMMA MockTyped == MockSpec => []MockTypeOK
<1>1. MockInit => WatchedInv
  BY HeldInit DEF MockInit, WatchedInv
<1>2. WatchedInv /\ [MockNext]_mockVars => WatchedInv'
  BY WatchedStep
<1>3. WatchedInv /\ PanelTypes /\ LogIsNewest /\ Len(logs) <= LogCap => MockTypeOK
  BY DEF WatchedInv, HeldInv, JobsOK, JobOK, Recorded, AreRecords, PanelTypes, MockTypeOK
<1> QED
  BY <1>1, <1>2, <1>3, PanelTyped, LogsAreNewest, PTL DEF MockSpec

GrpcTypes ==
  /\ IsSeq(grpcLogs) /\ GrpcMockTypeOK
  /\ DOMAIN invokes = GrpcClients /\ grpcSpent.starts \in Nat
  /\ DOMAIN grpcSpent = {"invokes", "starts"}

LEMMA LogTrimmed ==
  ASSUME NEW list, IsSeq(list), NEW e, Len(list) <= GrpcLogCap
  PROVE  IsSeq(trimLogs(Append(list, e))) /\ Len(trimLogs(Append(list, e))) <= GrpcLogCap
<1> DEFINE all == Append(list, e)
<1>1. GrpcLogCap \in Nat \ {0} /\ IsSeq(all) /\ Len(all) = Len(list) + 1 /\ Len(list) \in Nat
  BY GrpcMockAssumption, Appended
<1>2. all \in Seq(ToSet(all))
  BY <1>1 DEF IsSeq
<1> HIDE DEF all
<1>3. CASE Len(all) <= GrpcLogCap
  BY <1>1, <1>3 DEF trimLogs, all
<1>4. CASE Len(all) > GrpcLogCap
  <2>1. trimLogs(all) = SubSeq(all, 2, Len(all))
    BY <1>1, <1>4 DEF trimLogs
  <2>2. SubSeq(all, 2, Len(all)) \in Seq(ToSet(all)) /\ Len(SubSeq(all, 2, Len(all))) = Len(all) - 1
    BY <1>1, <1>2
  <2>3. IsSeq(SubSeq(all, 2, Len(all)))
    BY <2>2, SeqOfItsElements
  <2> QED
    BY <1>1, <2>1, <2>2, <2>3 DEF all
<1> QED
  BY <1>1, <1>3, <1>4

LEMMA GrpcMockTyped == GrpcMockSpec => []GrpcMockTypeOK
<1>1. GrpcMockInit => GrpcTypes
  <2> SUFFICES ASSUME GrpcMockInit PROVE GrpcTypes
    OBVIOUS
  <2>1. IsSeq(<<>>) /\ Len(<<>>) = 0 /\ DOMAIN <<>> = {} /\ GrpcLogCap \in Nat
    BY EmptyIsSeq, GrpcMockAssumption
  <2>2. recording = (active # NoFixture)
    BY Zenon DEF GrpcMockInit
  <2>3. DOMAIN invokes = GrpcClients /\ \A c \in GrpcClients : invokes[c].busy \in BOOLEAN
    BY DEF GrpcMockInit, NoCall
  <2> QED
    BY <2>1, <2>2, <2>3 DEF GrpcMockInit, GrpcTypes, GrpcMockTypeOK
<1>2. GrpcTypes /\ [GrpcMockNext]_grpcVars => GrpcTypes'
  <2> SUFFICES ASSUME GrpcTypes, [GrpcMockNext]_grpcVars PROVE GrpcTypes'
    OBVIOUS
  <2>1. CASE UNCHANGED grpcVars
    BY <2>1 DEF grpcVars, GrpcTypes, GrpcMockTypeOK
  <2>2. ASSUME NEW next \in GrpcConfigs, grpcReplaceRoutes(next) PROVE GrpcTypes'
    <3>1. DOMAIN <<>> = {}
      OBVIOUS
    <3> QED
      BY <2>2, <3>1 DEF grpcReplaceRoutes, recorderVars, GrpcTypes, GrpcMockTypeOK
  <2>3. CASE grpcClearLogs
    <3>1. IsSeq(<<>>) /\ Len(<<>>) = 0 /\ GrpcLogCap \in Nat
      BY EmptyIsSeq, GrpcMockAssumption
    <3> QED
      BY <2>3, <3>1 DEF grpcClearLogs, recorderVars, GrpcTypes, GrpcMockTypeOK
  <2>4. ASSUME NEW c \in GrpcClients, LatencyOver(c) PROVE GrpcTypes'
    BY <2>4, LogTrimmed DEF LatencyOver, recorderVars, NoCall, GrpcTypes, GrpcMockTypeOK
  <2>5. ASSUME NEW c \in GrpcClients, NEW m \in Methods, invoke(c, m) PROVE GrpcTypes'
    <3>1. /\ UNCHANGED recorderVars
          /\ grpcSpent' = [grpcSpent EXCEPT !.invokes = @ + 1]
          /\ UNCHANGED grpcLogs \/ \E e : grpcLogs' = trimLogs(Append(grpcLogs, e))
          /\ UNCHANGED invokes \/ \E log : invokes' = [invokes EXCEPT ![c] = [busy |-> TRUE, log |-> log]]
          /\ UNCHANGED grpcIndex \/ grpcIndex' = With(grpcIndex, m, Of(grpcIndex, m, 0) + 1)
      BY <2>5 DEF invoke
    <3>2. DOMAIN grpcIndex' \subseteq Methods /\ \A n \in DOMAIN grpcIndex' : grpcIndex'[n] \in Nat
      BY <3>1 DEF With, Of, GrpcTypes, GrpcMockTypeOK
    <3>3. IsSeq(grpcLogs') /\ Len(grpcLogs') <= GrpcLogCap
      BY <3>1, LogTrimmed DEF GrpcTypes, GrpcMockTypeOK
    <3>4. DOMAIN invokes' = GrpcClients /\ \A d \in GrpcClients : invokes'[d].busy \in BOOLEAN
      <4>1. ASSUME NEW log, invokes' = [invokes EXCEPT ![c] = [busy |-> TRUE, log |-> log]]
            PROVE  DOMAIN invokes' = GrpcClients /\ \A d \in GrpcClients : invokes'[d].busy \in BOOLEAN
        <5>1. \A d \in GrpcClients : invokes'[d] = IF d = c THEN [busy |-> TRUE, log |-> log] ELSE invokes[d]
          BY <4>1 DEF GrpcTypes
        <5>2. [busy |-> TRUE, log |-> log].busy = TRUE
          OBVIOUS
        <5> QED
          BY <4>1, <5>1, <5>2 DEF GrpcTypes, GrpcMockTypeOK
      <4> QED
        BY <3>1, <4>1 DEF GrpcTypes, GrpcMockTypeOK
    <3>5. grpcSpent'.starts \in Nat /\ DOMAIN grpcSpent' = {"invokes", "starts"}
      BY <3>1 DEF GrpcTypes
    <3> QED
      BY <3>1, <3>2, <3>3, <3>4, <3>5 DEF recorderVars, GrpcTypes, GrpcMockTypeOK
  <2>6. CASE start
    <3>1. active'.id # NoFixture.id /\ recording' = TRUE
      BY <2>6 DEF start, NoFixture, GrpcTypes
    <3>2. recording' = (active' # NoFixture)
      BY <3>1, Zenon
    <3>3. grpcSpent'.starts \in Nat /\ DOMAIN grpcSpent' = {"invokes", "starts"}
      BY <2>6 DEF start, GrpcTypes
    <3> QED
      BY <2>6, <3>2, <3>3 DEF start, storeVars, GrpcTypes, GrpcMockTypeOK
  <2>7. CASE stopRecording
    BY <2>7 DEF stopRecording, storeVars, GrpcTypes, GrpcMockTypeOK
  <2> QED
    BY <2>1, <2>2, <2>3, <2>4, <2>5, <2>6, <2>7 DEF GrpcMockNext
<1>3. GrpcTypes => GrpcMockTypeOK
  BY DEF GrpcTypes
<1> QED
  BY <1>1, <1>2, <1>3, PTL DEF GrpcMockSpec

-----------------------------------------------------------------------------
(* Routes that are warned about.                                           *)

\* What a parsed pattern is like: a literal is no ":", and its lower case
\* depends on how it is written.
Parsed(list) ==
  /\ IsSeq(list) /\ \A i \in DOMAIN list : IsSeq(list[i].path.parts)
  /\ \A i, j \in DOMAIN list : \A k \in DOMAIN list[i].path.parts, l \in DOMAIN list[j].path.parts :
       LET p == list[i].path.parts[k]
           q == list[j].path.parts[l]
       IN p[1] # ":" => p[2] # ":" /\ (q[1] # ":" /\ p[2] = q[2] => p[1] = q[1])

LEMMA SameShape ==
  ASSUME NEW list, Parsed(list), NEW i \in DOMAIN list, NEW j \in DOMAIN list,
         routeShape(list[j].path) = routeShape(list[i].path), NEW path,
         matchPath(list[i].path, path).matched
  PROVE  matchPath(list[j].path, path).matched
<1> DEFINE P == list[i].path.parts
           Q == list[j].path.parts
<1>1. \A k \in DOMAIN P, l \in DOMAIN Q :
        /\ P[k][1] # ":" => P[k][2] # ":"
        /\ Q[l][1] # ":" => Q[l][2] # ":"
        /\ P[k][1] # ":" /\ Q[l][1] # ":" /\ P[k][2] = Q[l][2] => P[k][1] = Q[l][1]
  BY DEF Parsed
<1>2. IsSeq(P) /\ IsSeq(Q)
  BY DEF Parsed
<1>3. [k \in DOMAIN Q |-> IF Q[k][1] = ":" THEN ":" ELSE Q[k][2]]
      = [k \in DOMAIN P |-> IF P[k][1] = ":" THEN ":" ELSE P[k][2]]
  BY DEF routeShape
<1>4. Len(P) = Len(path) /\ \A k \in DOMAIN P : P[k][1] = ":" \/ P[k][1] = path[k][1]
  BY DEF matchPath
<1>5. (Len(Q) = Len(path) /\ \A k \in DOMAIN Q : Q[k][1] = ":" \/ Q[k][1] = path[k][1])
      => matchPath(list[j].path, path).matched
  BY DEF matchPath
<1> HIDE DEF P, Q
<1>6. DOMAIN Q = DOMAIN P /\ \A k \in DOMAIN P : (IF Q[k][1] = ":" THEN ":" ELSE Q[k][2])
                                                = IF P[k][1] = ":" THEN ":" ELSE P[k][2]
  <2> DEFINE f == [k \in DOMAIN Q |-> IF Q[k][1] = ":" THEN ":" ELSE Q[k][2]]
             g == [k \in DOMAIN P |-> IF P[k][1] = ":" THEN ":" ELSE P[k][2]]
  <2>1. DOMAIN f = DOMAIN Q /\ DOMAIN g = DOMAIN P
    OBVIOUS
  <2>2. \A k \in DOMAIN Q : f[k] = IF Q[k][1] = ":" THEN ":" ELSE Q[k][2]
    OBVIOUS
  <2>3. \A k \in DOMAIN P : g[k] = IF P[k][1] = ":" THEN ":" ELSE P[k][2]
    OBVIOUS
  <2>4. f = g
    BY <1>3
  <2> HIDE DEF f, g
  <2> QED
    BY <2>1, <2>2, <2>3, <2>4
<1>7. Len(Q) = Len(P)
  <2>1. DOMAIN P = 1..Len(P) /\ DOMAIN Q = 1..Len(Q) /\ Len(P) \in Nat /\ Len(Q) \in Nat
    BY <1>2 DEF IsSeq
  <2> QED
    BY <1>6, <2>1
<1>8. \A k \in DOMAIN Q : Q[k][1] = ":" \/ Q[k][1] = path[k][1]
  BY <1>1, <1>4, <1>6
<1> QED
  BY <1>4, <1>5, <1>7, <1>8

LEMMA SameConditions ==
  ASSUME NEW c, NEW d, conditionSignature(d) = conditionSignature(c), NEW q, mockConditionsMatch(c, q)
  PROVE  mockConditionsMatch(d, q)
<1> DEFINE Key(e) == <<e.source, e.expression, e.matcher, e.expected>>
           Often(list, k) == Cardinality({i \in DOMAIN list : Key(list[i]) = k})
           Keys(list) == {Key(list[i]) : i \in DOMAIN list}
<1>1. {<<k, Often(d, k)>> : k \in Keys(d)} = {<<k, Often(c, k)>> : k \in Keys(c)}
  BY DEF conditionSignature, Count
<1>2. Keys(d) \subseteq Keys(c)
  <2> HIDE DEF Keys, Often
  <2> SUFFICES ASSUME NEW k \in Keys(d) PROVE k \in Keys(c)
    OBVIOUS
  <2>1. <<k, Often(d, k)>> \in {<<l, Often(c, l)>> : l \in Keys(c)}
    BY <1>1
  <2> QED
    BY <2>1
<1>3. ASSUME NEW i \in DOMAIN d
      PROVE  compareMockValues(mockConditionActual(d[i], q), d[i].expected, d[i].matcher)
  <2>1. PICK k \in DOMAIN c : Key(c[k]) = Key(d[i])
    BY <1>2
  <2>2. /\ c[k].source = d[i].source /\ c[k].expression = d[i].expression
        /\ c[k].matcher = d[i].matcher /\ c[k].expected = d[i].expected
    BY <2>1
  <2>3. mockConditionActual(c[k], q) = mockConditionActual(d[i], q)
    BY <2>2 DEF mockConditionActual
  <2>4. compareMockValues(mockConditionActual(c[k], q), c[k].expected, c[k].matcher)
    BY DEF mockConditionsMatch
  <2> QED
    BY <2>2, <2>3, <2>4
<1> QED
  BY <1>3 DEF mockConditionsMatch

LEMMA OverlapWarned ==
  ASSUME NEW list, IsSeq(list), NEW i \in DOMAIN list,
         <<"warning", "overlap">> \in validateMockRoutes(list)[i]
  PROVE  \E j \in 1..(i - 1) : list[j].enabled /\ routeKey(list[j]) = routeKey(list[i])
<1> DEFINE warning == <<"warning", "overlap">>
           r == list[i]
           Overlap == r.enabled /\ \E j \in 1..(i - 1) : list[j].enabled /\ routeKey(list[j]) = routeKey(r)
<1>1. i \in 1..Len(list)
  BY DEF IsSeq
<1>2. warning \in IdIssues(list, i) \union validatePathPattern(r.path) \union validateHeaders(r.headers)
        \union validateBody(r) \union validateConditions(r) \union validateSequences(r)
        \union ResponseWarnings(r, r) \union (IF Overlap THEN {warning} ELSE {})
  BY <1>1 DEF validateMockRoutes
<1>3. \A x : warning # <<"error", x>>
  OBVIOUS
<1>4. \A x : x # "overlap" => warning # <<"warning", x>>
  OBVIOUS
<1> HIDE DEF r, Overlap, warning
<1>5. warning \notin IdIssues(list, i)
  BY <1>3 DEF IdIssues
<1>6. warning \notin validatePathPattern(r.path)
  BY <1>3 DEF validatePathPattern
<1>7. \A headers : warning \notin validateHeaders(headers)
  BY <1>3, <1>4 DEF validateHeaders
<1>8. \A body : warning \notin validateTemplates(r, body)
  BY <1>3, <1>4 DEF validateTemplates
<1>9. warning \notin validateBody(r)
  BY <1>3, <1>4, <1>8 DEF validateBody
<1>10. warning \notin validateConditions(r)
  <2>1. \A c : warning \notin ConditionIssues(r, c)
    BY <1>3, <1>4 DEF ConditionIssues
  <2> QED
    BY <1>3, <2>1 DEF validateConditions
<1>11. \A item : warning \notin ResponseWarnings(r, item)
  BY <1>4 DEF ResponseWarnings
<1>12. warning \notin validateSequences(r)
  BY <1>3, <1>7, <1>8, <1>11 DEF validateSequences
<1>13. Overlap
  BY <1>2, <1>5, <1>6, <1>7, <1>9, <1>10, <1>11, <1>12
<1> QED
  BY <1>13 DEF Overlap, r

\* A route that the user is warned about, because it overlaps one before it,
\* answers no request.
LEMMA WarnedNeverAnswers ==
  ASSUME NEW list, Parsed(list), NEW i \in DOMAIN list,
         <<"warning", "overlap">> \in validateMockRoutes(list)[i], NEW q
  PROVE  findMockRouteMatch(list, q) # i
<1>1. IsSeq(list) /\ DOMAIN list = 1..Len(list) /\ Len(list) \in Nat
  BY DEF Parsed, IsSeq
<1>2. PICK j \in 1..(i - 1) : list[j].enabled /\ routeKey(list[j]) = routeKey(list[i])
  BY <1>1, OverlapWarned
<1>3. j \in DOMAIN list /\ j < i /\ i # 0
  BY <1>1
<1>4. /\ list[j].method = list[i].method /\ routeShape(list[j].path) = routeShape(list[i].path)
      /\ conditionSignature(list[j].conditions) = conditionSignature(list[i].conditions)
  BY <1>2 DEF routeKey
<1>5. ASSUME i \in Matches(list, q) PROVE j \in Matches(list, q)
  <2>1. /\ list[i].method = q.method /\ matchPath(list[i].path, q.path).matched
        /\ mockConditionsMatch(list[i].conditions, q)
    BY <1>5 DEF Matches
  <2>2. matchPath(list[j].path, q.path).matched
    BY <1>3, <1>4, <2>1, SameShape
  <2>3. mockConditionsMatch(list[j].conditions, q)
    BY <1>4, <2>1, SameConditions
  <2> QED
    BY <1>2, <1>3, <1>4, <2>1, <2>2, <2>3 DEF Matches
<1> QED
  BY <1>1, <1>3, <1>5, FirstMatch

-----------------------------------------------------------------------------
(* Templates that were accepted.                                           *)

\* A segment of a pattern has two parts, and what a segment of a request is
\* decoded to is not empty.
Pairs(path) == IsSeq(path.parts) /\ \A k \in DOMAIN path.parts : path.parts[k] = <<path.parts[k][1], path.parts[k][2]>>
Decoded(path) == IsSeq(path) /\ \A k \in DOMAIN path : path[k][3] # ""

LEMMA AcceptedTemplates ==
  ASSUME NEW list, IsSeq(list), Valid(list), NEW m \in DOMAIN list,
         NEW b \in {list[m].body} \union {list[m].sequences[i].body : i \in DOMAIN list[m].sequences},
         NEW i \in DOMAIN b.names, b.names[i][1] = "param"
  PROVE  b.names[i][2] \in Names(list[m].path)
<1> DEFINE r == list[m]
           issues == validateMockRoutes(list)[m]
<1>1. m \in 1..Len(list)
  BY DEF IsSeq
<1>2. validateBody(r) \subseteq issues /\ validateSequences(r) \subseteq issues
  BY <1>1 DEF validateMockRoutes
<1>3. \A issue \in issues : issue[1] = "warning"
  <2>1. m \in DOMAIN validateMockRoutes(list)
    BY <1>1 DEF validateMockRoutes
  <2> QED
    BY <2>1 DEF Valid
<1> HIDE DEF issues
<1>4. validateTemplates(r, b) \subseteq issues
  <2>1. validateTemplates(r, r.body) \subseteq issues
    BY <1>2 DEF validateBody
  <2>2. ASSUME NEW k \in DOMAIN r.sequences PROVE validateTemplates(r, r.sequences[k].body) \subseteq issues
    <3> DEFINE item == r.sequences[k]
               said == validateHeaders(item.headers)
                       \union (IF item.body.bytes > MaxBody THEN {<<"error", "body size">>} ELSE {})
                       \union validateTemplates(r, item.body) \union ResponseWarnings(r, item)
    <3>1. said \subseteq validateSequences(r)
      BY Zenon DEF validateSequences
    <3>2. validateTemplates(r, item.body) \subseteq said
      OBVIOUS
    <3> QED
      BY <1>2, <3>1, <3>2
  <2> QED
    BY <2>1, <2>2
<1>5. SUFFICES ASSUME b.names[i][2] \notin Names(r.path) PROVE FALSE
  OBVIOUS
<1>6. <<"error", "unknown parameter">> \in validateTemplates(r, b)
  BY <1>5 DEF validateTemplates
<1> QED
  BY <1>3, <1>4, <1>6

OnceIn(P, x) == \E i \in DOMAIN P : P[i] = x /\ \A j \in DOMAIN P : P[j] = x => i = j

\* The parameters of an accepted route differ, so each has its segment.
LEMMA AcceptedParameters ==
  ASSUME NEW list, IsSeq(list), Valid(list), NEW m \in DOMAIN list, Pairs(list[m].path),
         NEW n \in Names(list[m].path)
  PROVE  OnceIn(list[m].path.parts, <<":", n>>)
<1> DEFINE P == list[m].path.parts
           issues == validateMockRoutes(list)[m]
           at(i) == P[i] = <<":", n>>
<1>1. m \in 1..Len(list)
  BY DEF IsSeq
<1>2. validatePathPattern(list[m].path) \subseteq issues
  BY <1>1 DEF validateMockRoutes
<1>3. \A issue \in issues : issue[1] = "warning"
  <2>1. m \in DOMAIN validateMockRoutes(list)
    BY <1>1 DEF validateMockRoutes
  <2> QED
    BY <2>1 DEF Valid
<1>4. \A x : <<"error", x>> \notin validatePathPattern(list[m].path)
  BY <1>2, <1>3
<1> HIDE DEF issues
<1>5. DOMAIN P = 1..Len(P) /\ Len(P) \in Nat
  BY DEF Pairs, IsSeq
<1>6. \E i \in DOMAIN P : at(i)
  BY DEF Names, Pairs
<1>7. ASSUME NEW i \in DOMAIN P, NEW j \in DOMAIN P, at(i), at(j), i < j PROVE FALSE
  <2>1. P[j][1] = ":" /\ P[j][2] = n /\ P[i] = P[j] /\ i \in 1..(j - 1)
    BY <1>5, <1>7
  <2>2. CASE BadName(n)
    <3>1. <<"error", "parameter">> \in validatePathPattern(list[m].path)
      BY <2>1, <2>2 DEF validatePathPattern
    <3> QED
      BY <1>4, <3>1
  <2>3. CASE ~BadName(n)
    <3>1. <<"error", "duplicate parameter">> \in validatePathPattern(list[m].path)
      BY <2>1, <2>3 DEF validatePathPattern
    <3> QED
      BY <1>4, <3>1
  <2> QED
    BY <2>2, <2>3
<1>8. ASSUME NEW i \in DOMAIN P, NEW j \in DOMAIN P, at(i), at(j) PROVE i = j
  <2>1. i = j \/ i < j \/ j < i
    BY <1>5
  <2> HIDE DEF at
  <2> QED
    BY <1>7, <1>8, <2>1
<1> QED
  BY <1>6, <1>8 DEF OnceIn

\* Whatever answers of an accepted list of routes, a parameter that its body
\* names has a value of the path.
LEMMA ParametersFilled ==
  ASSUME NEW list, IsSeq(list), Valid(list), \A k \in DOMAIN list : Pairs(list[k].path),
         NEW q, Decoded(q.path), findMockRouteMatch(list, q) # 0,
         NEW m, m = findMockRouteMatch(list, q),
         NEW b \in {list[m].body} \union {list[m].sequences[i].body : i \in DOMAIN list[m].sequences},
         NEW i \in DOMAIN b.names, b.names[i][1] = "param"
  PROVE  renderMockTemplate(b, matchPath(list[m].path, q.path).params, q.query)[i] # <<"text", "">>
<1> DEFINE P == list[m].path.parts
           n == b.names[i][2]
           Latest(x) == CHOOSE k \in DOMAIN P : P[k] = <<":", x>> /\ \A j \in (k + 1)..Len(P) : P[j] # P[k]
           params == matchPath(list[m].path, q.path).params
<1>1. m \in DOMAIN list /\ matchPath(list[m].path, q.path).matched /\ Pairs(list[m].path)
  BY FirstMatch DEF Matches
<1>2. n \in Names(list[m].path)
  BY <1>1, AcceptedTemplates
<1>3. Len(P) = Len(q.path)
  BY <1>1 DEF matchPath
<1>4. params = [x \in Names(list[m].path) |-> q.path[Latest(x)][3]]
  BY <1>1 DEF matchPath
<1>5. \E k \in DOMAIN P : P[k] = <<":", n>> /\ \A j \in DOMAIN P : P[j] = <<":", n>> => k = j
  <2>1. OnceIn(P, <<":", n>>)
    BY <1>1, <1>2, AcceptedParameters
  <2> HIDE DEF n, P
  <2> QED
    BY <2>1 DEF OnceIn
<1>6. DOMAIN P = 1..Len(P) /\ Len(P) \in Nat /\ DOMAIN q.path = 1..Len(q.path)
  <2>1. P \in Seq(ToSet(P)) /\ q.path \in Seq(ToSet(q.path))
    BY <1>1 DEF Pairs, Decoded, IsSeq
  <2> HIDE DEF P
  <2> QED
    BY <2>1
<1> HIDE DEF params
<1>7. Latest(n) \in DOMAIN P
  <2> HIDE DEF P, n
  <2>1. PICK k \in DOMAIN P : P[k] = <<":", n>> /\ \A j \in DOMAIN P : P[j] = <<":", n>> => k = j
    BY <1>5
  <2>2. \A j \in (k + 1)..Len(P) : P[j] # P[k]
    BY <1>6, <2>1
  <2> QED
    BY <2>1, <2>2
<1>8. n \in DOMAIN params /\ params[n] = q.path[Latest(n)][3]
  BY <1>2, <1>4
<1>9. params[n] # ""
  <2>1. Latest(n) \in DOMAIN q.path
    BY <1>3, <1>6, <1>7
  <2> HIDE DEF Latest
  <2> QED
    BY <1>8, <2>1 DEF Decoded
<1>10. renderMockTemplate(b, params, q.query)[i] = <<"text", params[n]>>
  BY <1>8 DEF renderMockTemplate
<1>11. renderMockTemplate(b, params, q.query)[i] # <<"text", "">>
  <2>1. \A x : x # "" => <<"text", x>> # <<"text", "">>
    OBVIOUS
  <2> QED
    BY <1>9, <1>10, <2>1, Zenon
<1> QED
  BY <1>11 DEF params

-----------------------------------------------------------------------------
(* Every pair of small routes, every short fixture, and all of it.         *)

PureInv ==
  /\ config \in {<<>>} \union ConfigsOfTwo \union {<<r>> : r \in Templated}
  /\ fixture \in Entries

LEMMA SmallPathsRead ==
  ASSUME NEW p \in SmallPaths
  PROVE  /\ IsSeq(p.parts)
         /\ \A k \in DOMAIN p.parts : p.parts[k] \in Segments
<1>1. PICK parts \in Seq(Segments) : p = Path(parts)
  <2>1. ASSUME NEW s \in Segments PROVE <<s>> \in Seq(Segments)
    BY <2>1
  <2>2. ASSUME NEW s \in Segments, NEW t \in Segments PROVE <<s, t>> \in Seq(Segments)
    BY <2>2
  <2>3. (\E s \in Segments : p = Path(<<s>>)) \/ (\E s, t \in Segments : p = Path(<<s, t>>))
    <3> DEFINE Ones == {Path(<<s>>) : s \in Segments}
               Twos == {Path(<<s, t>>) : s, t \in Segments}
    <3>1. SmallPaths = Ones \union Twos
      BY DEF SmallPaths
    <3>2. (p \in Ones => \E s \in Segments : p = Path(<<s>>)) /\ (p \in Twos => \E s, t \in Segments : p = Path(<<s, t>>))
      OBVIOUS
    <3> HIDE DEF Ones, Twos
    <3>3. p \in Ones \/ p \in Twos
      BY <3>1
    <3> QED
      BY <3>2, <3>3
  <2> QED
    BY <2>1, <2>2, <2>3, Zenon
<1>2. p.parts = parts
  BY <1>1 DEF Path
<1>3. IsSeq(parts)
  BY SeqOfItsElements
<1> QED
  BY <1>2, <1>3

LEMMA SegmentsRead ==
  ASSUME NEW s \in Segments
  PROVE  s = <<s[1], s[2]>> /\ s[2] # ":" /\ s[1] \in {":", "a"}
BY DEF Segments, Lit, Param

LEMMA ConfigRead ==
  ASSUME PureInv
  PROVE  IsSeq(config) /\ \A i \in DOMAIN config : config[i].path \in SmallPaths
<1>1. ASSUME NEW id, NEW r \in SmallRoutes(id) PROVE r.path \in SmallPaths
  <2>1. PICK p \in SmallPaths, c \in SmallConditions, e \in BOOLEAN :
          r = [Route(id, p, c, <<>>, 0) EXCEPT !.enabled = e]
    BY <1>1 DEF SmallRoutes
  <2> QED
    BY <2>1 DEF Route
<1>2. ASSUME NEW r \in Templated PROVE r.path \in SmallPaths
  <2>1. \E p \in SmallPaths : \E b, s : r = [Route(1, p, <<>>, s, 0) EXCEPT !.body = b]
    BY <1>2 DEF Templated
  <2> QED
    BY <2>1 DEF Route
<1>3. CASE config = <<>>
  BY <1>3, EmptyIsSeq
<1>4. ASSUME NEW r \in Templated, config = <<r>> PROVE IsSeq(config) /\ \A i \in DOMAIN config : config[i].path \in SmallPaths
  <2>1. config \in Seq({r}) /\ DOMAIN config = {1} /\ config[1] = r
    BY <1>4
  <2> QED
    BY <1>2, <2>1, SeqOfItsElements
<1>5. ASSUME NEW r \in SmallRoutes(1), NEW s \in SmallRoutes(2), config = <<r, s>>
      PROVE  IsSeq(config) /\ \A i \in DOMAIN config : config[i].path \in SmallPaths
  <2>1. config \in Seq({r, s}) /\ DOMAIN config = {1, 2} /\ config[1] = r /\ config[2] = s
    BY <1>5
  <2> QED
    BY <1>1, <2>1, SeqOfItsElements
<1> QED
  BY <1>3, <1>4, <1>5 DEF PureInv, ConfigsOfTwo

LEMMA RequestsDecoded ==
  ASSUME NEW q \in SmallRequests
  PROVE  Decoded(q.path)
<1> DEFINE S == {<<"a", "A", "A">>, <<"%20", "%20", " ">>}
<1>1. AtA \in Seq(S) /\ AtB \in Seq(S)
  BY DEF AtA, AtB
<1>2. \A s \in S : s[3] # ""
  <2>1. <<"a", "A", "A">>[3] = "A" /\ <<"%20", "%20", " ">>[3] = " " /\ "A" # "" /\ " " # ""
    OBVIOUS
  <2> QED
    BY <2>1, Zenon
<1> HIDE DEF S
<1>3. AtA \o AtB \in Seq(S) /\ AtB \o AtA \in Seq(S)
  BY <1>1
<1>4. q.path \in {AtA, AtB, AtA \o AtB, AtB \o AtA}
  BY DEF SmallRequests, Request
<1>5. q.path \in Seq(S)
  BY <1>1, <1>3, <1>4
<1>6. IsSeq(q.path) /\ \A k \in DOMAIN q.path : q.path[k] \in S
  BY <1>5, SeqOfItsElements
<1> QED
  BY <1>2, <1>6 DEF Decoded

LEMMA FixtureRead ==
  ASSUME PureInv
  PROVE  IsSeq(fixture)
<1>1. CASE fixture = <<>>
  BY <1>1, EmptyIsSeq
<1>2. ASSUME NEW n \in 1..4, fixture \in [1..n -> [fullMethod : {"m", "n"}, response : {"r1", "r2"}]]
      PROVE  IsSeq(fixture)
  <2>1. n \in Nat /\ DOMAIN fixture = 1..n /\ fixture = [i \in 1..n |-> fixture[i]]
    BY <1>2
  <2> QED
    BY <2>1, MadeSeq
<1> QED
  BY <1>1, <1>2 DEF PureInv, Entries

LEMMA PureHold ==
  ASSUME PureInv
  PROVE  WarnedIsDead /\ TemplatesFilled /\ ReplayIsFaithful
<1>1. Parsed(config) /\ IsSeq(config) /\ \A k \in DOMAIN config : Pairs(config[k].path)
  BY ConfigRead, SmallPathsRead, SegmentsRead DEF Parsed, Pairs
<1>2. WarnedIsDead
  BY <1>1, WarnedNeverAnswers DEF WarnedIsDead
<1>3. TemplatesFilled
  BY <1>1, RequestsDecoded, ParametersFilled DEF TemplatesFilled
<1>4. ReplayIsFaithful
  <2> DEFINE list == replayFixture(fixture)
             Of1(m) == Only(fixture, {e \in ToSet(fixture) : e.fullMethod = m})
  <2>1. IsSeq(fixture)
    BY FixtureRead
  <2>2. \A i, k \in DOMAIN list : list[i].fullMethod = list[k].fullMethod => i = k
    BY <2>1, ReplayRepeats
  <2>3. ASSUME NEW m \in Methods, Of1(m) # <<>>
        PROVE  \E i \in DOMAIN list :
                 /\ list[i].fullMethod = m
                 /\ \A n \in DOMAIN Of1(m) :
                      list[i].responses[((n - 1) % Len(list[i].responses)) + 1] = Of1(m)[n].response
    <3> DEFINE mine == Of1(m)
    <3>1. mine = RecordedOf(fixture, m) /\ mine # <<>>
      BY <2>3 DEF RecordedOf
    <3> HIDE DEF mine, list
    <3>2. \E i \in DOMAIN list :
            /\ list[i].fullMethod = m
            /\ \A n \in DOMAIN mine :
                 list[i].responses[((n - 1) % Len(list[i].responses)) + 1] = mine[n].response
      BY <2>1, <3>1, ReplayRepeats DEF list
    <3> QED
      BY <3>2 DEF mine
  <2> QED
    BY <2>2, <2>3 DEF ReplayIsFaithful
<1> QED
  BY <1>2, <1>3, <1>4

\* The mock servers answer what the panel shows, for any routes, edits,
\* pushes, imports, requests and restarts over HTTP, and any routes and
\* overlapping calls of the mock gRPC server (MockStore, MockPanel,
\* validateMockRoutes, MockGrpcStore, MockGrpcRecorder).
THEOREM MocksServeTheUser == Spec => []MocksServe
<1>1. Init => MockInit /\ GrpcMockInit /\ PureInv
  BY DEF Init, PureInv, Entries
<1>2. [Next]_vars => [MockNext]_mockVars /\ [GrpcMockNext]_grpcVars
  <2> USE DEF vars
  <2> QED
    BY DEF Next
<1>3. PureInv /\ [Next]_vars => PureInv'
  BY DEF Next, vars, PureInv
<1>4. Spec => MockSpec /\ GrpcMockSpec /\ []PureInv
  BY <1>1, <1>2, <1>3, PTL DEF Spec, MockSpec, GrpcMockSpec
<1>5. /\ MockTypeOK /\ GrpcMockTypeOK /\ ActiveIsServed /\ ServedApart /\ ItemsInOrder
      /\ ResponsesInOrder /\ LogIsNewest /\ NewestRecordAnswers /\ PureInv
      => MocksServe
  BY PureHold DEF MocksServe
<1> QED
  BY <1>4, <1>5, MockTyped, GrpcMockTyped, ActiveRoutesAreServed, RoutesAreApart, ItemsComeInOrder,
     ResponsesComeInOrder, LogsAreNewest, NewestRecordIsAnswered, PTL
=============================================================================
