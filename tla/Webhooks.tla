------------------------------ MODULE Webhooks ------------------------------
(***************************************************************************)
(* Webhook endpoints: the panel that makes, configures and deletes them,   *)
(* and the server that receives what is sent to them, checks it against    *)
(* the configuration it holds and keeps a log.  The page knows its         *)
(* endpoints until another panel takes the place of this one, the server   *)
(* what it was told since it started.                                      *)
(***************************************************************************)
EXTENDS Naturals, Sequences, FiniteSets, SequencesExt

CONSTANTS
  Hooks,         \* ids of endpoints
  NoHook,
  Configs,       \* validations a user may enter
  NoValidation,  \* DEFAULT_VALIDATION, type "none"
  Deliveries,    \* what is sent to an endpoint
  Saves,         \* calls of setWebhookConfig in flight
  EntryCap,      \* MAX_WEBHOOK_ENTRIES
  MaxSaves,      \* bound: configurations applied
  MaxDeliveries  \* bound: deliveries

\* MAX_WEBHOOK_ENTRIES is 200.
ASSUME WebhookAssumption ==
  NoHook \notin Hooks /\ EntryCap \in Nat \ {0} /\ MaxSaves \in Nat /\ MaxDeliveries \in Nat

VARIABLES
  hookLogs, hookConfigs,   \* the server
  endpoints,               \* id -> the validation the page shows
  modal,                   \* the endpoint being configured, its draft, the save it waits for
  saves, removing,         \* calls in flight
  undisturbed,             \* history: endpoints of the panel as it is, none of whose calls
                           \* overlapped or failed and that were not deleted under their modal
  received,                \* history: what reached an endpoint since its log was cleared
  hookSpent
hookVars == <<hookLogs, hookConfigs, endpoints, modal, saves, removing, undisturbed, received, hookSpent>>

ClosedModal == [id |-> NoHook, validation |-> NoValidation, saving |-> {}]
NoSave == [id |-> NoHook, config |-> NoValidation, pc |-> "idle"]

WebhookInit ==
  /\ hookLogs = <<>> /\ hookConfigs = <<>> /\ endpoints = <<>>
  /\ modal = ClosedModal /\ saves = [s \in Saves |-> NoSave] /\ removing = {}
  /\ undisturbed = {} /\ received = <<>>
  /\ hookSpent = [saves |-> 0, deliveries |-> 0]

Fetch(f, x, default) == IF x \in DOMAIN f THEN f[x] ELSE default
Store(f, x, v) == [y \in DOMAIN f \union {x} |-> IF y = x THEN v ELSE f[y]]
Drop(f, x) == [y \in DOMAIN f \ {x} |-> f[y]]
InFlight(id) == id \in removing \/ \E s \in Saves : saves[s].id = id

(* ---- the server ---- *)

\* A signature is right, wrong, of the wrong length or missing; the header is
\* its token, another, or missing.  An incomplete configuration passes a
\* header check and fails a signature check.
validateWebhookRequest(config, d) ==
  CASE config.type = "header" -> config.complete => d.header = config.token
    [] config.type = "hmac" -> config.complete /\ d.signature = "right"
    [] OTHER -> TRUE

\* The newest first.
appendEntry(id, entry) ==
  LET all == <<entry>> \o Fetch(hookLogs, id, <<>>)
  IN hookLogs' = Store(hookLogs, id, SubSeq(all, 1, IF Len(all) > EntryCap THEN EntryCap ELSE Len(all)))

\* Any id is received, also one that is gone or never was.
webhookReceiver(id, d) ==
  /\ hookSpent.deliveries < MaxDeliveries
  /\ hookSpent' = [hookSpent EXCEPT !.deliveries = @ + 1]
  /\ LET entry == [delivery |-> d, n |-> hookSpent.deliveries + 1,
                   passed |-> validateWebhookRequest(Fetch(hookConfigs, id, NoValidation), d)]
     IN /\ appendEntry(id, entry)
        /\ received' = Store(received, id, Append(Fetch(received, id, <<>>), entry))
  /\ UNCHANGED <<hookConfigs, endpoints, modal, saves, removing, undisturbed>>

setConfig(s) ==
  /\ saves[s].pc = "waiting"
  /\ hookConfigs' = Store(hookConfigs, saves[s].id, saves[s].config)
  /\ saves' = [saves EXCEPT ![s].pc = "done"]
  /\ UNCHANGED <<hookLogs, endpoints, modal, removing, undisturbed, received, hookSpent>>

RestartHooks ==
  /\ hookLogs' = <<>> /\ hookConfigs' = <<>> /\ received' = <<>> /\ undisturbed' = {}
  /\ saves' = [s \in Saves |-> IF saves[s].pc = "waiting" THEN [saves[s] EXCEPT !.pc = "failed"] ELSE saves[s]]
  /\ UNCHANGED <<endpoints, modal, removing, hookSpent>>

(* ---- the page ---- *)

\* crypto.randomUUID: unlike every id that something still refers to.
addEndpoint(id) ==
  /\ id \notin DOMAIN endpoints /\ id \notin DOMAIN hookConfigs /\ ~InFlight(id) /\ modal.id # id
  /\ endpoints' = Store(endpoints, id, NoValidation)
  /\ undisturbed' = undisturbed \union {id}
  /\ UNCHANGED <<hookLogs, hookConfigs, modal, saves, removing, received, hookSpent>>

\* The modal works on a copy of the endpoint.
Configure(id) ==
  /\ modal = ClosedModal
  /\ modal' = [id |-> id, validation |-> endpoints[id], saving |-> {}]
  /\ UNCHANGED <<hookLogs, hookConfigs, endpoints, saves, removing, undisturbed, received, hookSpent>>

EditValidation ==
  /\ modal.id # NoHook
  /\ \E v \in Configs : modal' = [modal EXCEPT !.validation = v]
  /\ UNCHANGED <<hookLogs, hookConfigs, endpoints, saves, removing, undisturbed, received, hookSpent>>

\* Closing does not wait for what is being saved.
CloseModal ==
  /\ modal # ClosedModal /\ modal' = ClosedModal
  /\ UNCHANGED <<hookLogs, hookConfigs, endpoints, saves, removing, undisturbed, received, hookSpent>>

applyConfig_Eager(s) ==
  /\ modal.id # NoHook /\ saves[s].pc = "idle" /\ hookSpent.saves < MaxSaves
  /\ hookSpent' = [hookSpent EXCEPT !.saves = @ + 1]
  /\ saves' = [saves EXCEPT ![s] = [id |-> modal.id, config |-> modal.validation, pc |-> "waiting"]]
  /\ modal' = modal
  /\ endpoints' = Store(endpoints, modal.id, modal.validation)
  /\ undisturbed' = IF InFlight(modal.id) THEN undisturbed \ {modal.id} ELSE undisturbed
  /\ UNCHANGED <<hookLogs, hookConfigs, removing, received>>

\* Apply is disabled while its own save is under way.
applyConfig(s) ==
  /\ modal.id # NoHook /\ modal.saving = {} /\ saves[s].pc = "idle" /\ hookSpent.saves < MaxSaves
  /\ hookSpent' = [hookSpent EXCEPT !.saves = @ + 1]
  /\ saves' = [saves EXCEPT ![s] = [id |-> modal.id, config |-> modal.validation, pc |-> "waiting"]]
  /\ modal' = [modal EXCEPT !.saving = {s}]
  /\ undisturbed' = IF InFlight(modal.id) THEN undisturbed \ {modal.id} ELSE undisturbed
  /\ UNCHANGED <<hookLogs, hookConfigs, endpoints, removing, received>>

SaveFails(s) ==
  /\ saves[s].pc \in {"waiting", "done"}
  /\ saves' = [saves EXCEPT ![s].pc = "failed"]
  /\ undisturbed' = IF saves[s].pc = "done" THEN undisturbed \ {saves[s].id} ELSE undisturbed
  /\ UNCHANGED <<hookLogs, hookConfigs, endpoints, modal, removing, received, hookSpent>>

\* The endpoint is updated if the page still has it.  Another modal, opened
\* meanwhile, keeps its own saving flag.
applied(s) ==
  /\ saves[s].pc \in {"done", "failed"}
  /\ endpoints' = IF saves[s].pc = "done" /\ saves[s].id \in DOMAIN endpoints
                  THEN Store(endpoints, saves[s].id, saves[s].config) ELSE endpoints
  /\ modal' = [modal EXCEPT !.saving = @ \ {s}]
  /\ saves' = [saves EXCEPT ![s] = NoSave]
  /\ UNCHANGED <<hookLogs, hookConfigs, removing, undisturbed, received, hookSpent>>

\* The modal lies over the rows and their buttons.
removeEndpoint(id) ==
  /\ modal = ClosedModal /\ id \notin removing
  /\ removing' = removing \union {id}
  /\ undisturbed' = IF InFlight(id) THEN undisturbed \ {id} ELSE undisturbed
  /\ UNCHANGED <<hookLogs, hookConfigs, endpoints, modal, saves, received, hookSpent>>

deleteWebhook(id) == hookConfigs' = Drop(hookConfigs, id)

Forgets(id) ==
  /\ deleteWebhook(id)
  /\ hookLogs' = Drop(hookLogs, id) /\ received' = Drop(received, id)

\* The delete reaches the server and its answer the page.  removeEndpoint closes
\* the modal that was open when Delete was clicked, and none was: one that was
\* opened on the endpoint meanwhile stays, and goes on working.
Removed(id) ==
  /\ id \in removing /\ removing' = removing \ {id}
  /\ Forgets(id)
  /\ endpoints' = Drop(endpoints, id)
  /\ undisturbed' = IF modal.id = id THEN undisturbed \ {id} ELSE undisturbed
  /\ UNCHANGED <<modal, saves, hookSpent>>

\* The delete fails, before or after the server has done it.
RemoveFails(id) ==
  /\ id \in removing /\ removing' = removing \ {id}
  /\ \/ UNCHANGED <<hookLogs, hookConfigs, undisturbed, received>>
     \/ Forgets(id) /\ undisturbed' = undisturbed \ {id}
  /\ UNCHANGED <<endpoints, modal, saves, hookSpent>>

clearHookLogs(id) ==
  /\ id \in DOMAIN hookLogs /\ modal.id = id
  /\ hookLogs' = Drop(hookLogs, id) /\ received' = Drop(received, id)
  /\ UNCHANGED <<hookConfigs, endpoints, modal, saves, removing, undisturbed, hookSpent>>

\* Another panel takes the place of this one, which comes back without any
\* endpoint.  Its calls go on, and what they say is not heard.
leaveSection ==
  /\ endpoints # <<>>
  /\ endpoints' = <<>> /\ modal' = ClosedModal /\ undisturbed' = {}
  /\ UNCHANGED <<hookLogs, hookConfigs, saves, removing, received, hookSpent>>

WebhookNext ==
  \/ \E id \in Hooks : addEndpoint(id) \/ Removed(id) \/ RemoveFails(id) \/ clearHookLogs(id)
  \/ \E id \in DOMAIN endpoints : Configure(id) \/ removeEndpoint(id)
  \/ \E id \in Hooks, d \in Deliveries : webhookReceiver(id, d)
  \/ \E s \in Saves : applyConfig(s) \/ setConfig(s) \/ SaveFails(s) \/ applied(s)
  \/ EditValidation \/ CloseModal \/ leaveSection \/ RestartHooks

WebhookSpec == WebhookInit /\ [][WebhookNext]_hookVars

WebhookFairness ==
  \A s \in Saves : WF_hookVars(setConfig(s) \/ SaveFails(s)) /\ WF_hookVars(applied(s) \/ SaveFails(s))

(* ---- properties ---- *)

WebhookTypeOK ==
  /\ DOMAIN hookLogs \subseteq Hooks /\ \A id \in DOMAIN hookLogs : Len(hookLogs[id]) <= EntryCap
  /\ DOMAIN hookConfigs \subseteq Hooks /\ DOMAIN endpoints \subseteq Hooks
  /\ modal.id \in Hooks \union {NoHook} /\ modal.saving \subseteq Saves

\* WebhookModal.applyConfig and webhookReceiver: what the page shows as the
\* validation of an endpoint is what the server checks deliveries with, once
\* its calls have ended, if no two of them overlapped, none failed halfway and
\* the server was not restarted.
ShownIsEnforced ==
  \A id \in DOMAIN endpoints :
    (id \in undisturbed /\ ~InFlight(id)) => Fetch(hookConfigs, id, NoValidation) = endpoints[id]

\* WebhookModal.applyConfig: the button that waits for a save is freed, by an
\* answer or an error.
ApplyIsFreed == modal.saving # {} ~> modal.saving = {}

\* removeEndpoint, WebhookStore.deleteWebhook: an endpoint that was deleted while
\* nothing of it was being saved, and while no modal was open on it, leaves no
\* configuration behind on the server.  (Under a modal that was opened while the
\* delete was under way, Apply stores one that nothing will delete.)
DeletedIsForgotten ==
  \A id \in undisturbed : (id \notin DOMAIN endpoints /\ ~InFlight(id)) => id \notin DOMAIN hookConfigs

\* WebhookStore.appendEntry: the log is what was received last, newest first.
NewestDeliveriesKept ==
  \A id \in DOMAIN received :
    LET all == Reverse(received[id])
    IN hookLogs[id] = SubSeq(all, 1, IF Len(all) > EntryCap THEN EntryCap ELSE Len(all))

\* A webhook checks deliveries as the page shows, keeps the newest ones, and
\* leaves no configuration behind when it is deleted with nothing open or under
\* way.
WebhooksHold == WebhookTypeOK /\ ShownIsEnforced /\ DeletedIsForgotten /\ NewestDeliveriesKept
=============================================================================
