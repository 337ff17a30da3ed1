---------------------------- MODULE GraphQLSchema ----------------------------
(***************************************************************************)
(* The schema that the GraphQL editor completes and checks queries with:   *)
(* imported by the dialog (useGraphQLSchemaImport), refreshed by the       *)
(* explorer (GraphQLSchemaModal), restored from the cache in localStorage  *)
(* (useGraphQLQueryPanel).  Calls answer in any order, and go on when      *)
(* their dialog or the whole panel is gone.                                *)
(*                                                                         *)
(* A schema is what some endpoint, or a file, held at some moment:         *)
(* [from, v].  Every URL that is typed is an endpoint or one template,     *)
(* which the variables resolve to the endpoint `target'; the template as   *)
(* it stands reaches no endpoint.  Other tabs, which share the cache, are  *)
(* left out.                                                               *)
(***************************************************************************)
EXTENDS Naturals

CONSTANTS
  Endpoints,
  SchemaCalls,    \* fetches and reads of files, each made at most once
  MaxVersion,     \* bound: times that the schemas of the endpoints change
  MaxPanels,      \* bound: times that the panel is mounted
  MaxExplorers,   \* bound: times that each of them opens the explorer
  Template,       \* a URL with a variable in it
  NoEndpoint,     \* the empty endpoint
  NoSchema

ASSUME SchemaAssumption ==
  /\ Endpoints # {} /\ MaxVersion \in Nat /\ MaxPanels \in Nat \ {0}
  /\ \A e \in Endpoints \union {NoEndpoint}, n \in 0..MaxVersion : [from |-> e, v |-> n] # NoSchema

VARIABLES
  version,        \* external: the version that the endpoints serve
  target,         \* what the variables resolve the template to
  typed,          \* the URL of the request
  store,          \* [schema, endpoint] of the store
  cache,          \* localStorage: endpoint |-> schema
  panel,          \* [no, import, working, explorer, refreshing, at]: the mounted panel and its two dialogs;
                  \* at counts the explorers
  calls,          \* [pc, kind, url, panel, at] of each call
  unsaved,        \* history: endpoints whose last write to the cache failed
  stuck           \* history: the last import of this panel was of SDL text, and worked
schemaVars == <<version, target, typed, store, cache, panel, calls, unsaved, stuck>>

Urls == Endpoints \union {Template}
Keys == Endpoints \union {NoEndpoint}
NotCalled == [pc |-> "idle", kind |-> "none", url |-> NoEndpoint, panel |-> 0, at |-> 0]
Mounted(n) == [no |-> n, import |-> FALSE, working |-> FALSE, explorer |-> FALSE, refreshing |-> FALSE, at |-> 0]

SchemaInit ==
  /\ version = 0 /\ target = CHOOSE e \in Endpoints : TRUE
  /\ typed = Template
  /\ store = [schema |-> NoSchema, endpoint |-> NoEndpoint]
  /\ cache = [k \in Keys |-> NoSchema]
  /\ panel = Mounted(1)
  /\ calls = [c \in SchemaCalls |-> NotCalled]
  /\ unsaved = {} /\ stuck = FALSE

resolve(url) == IF url = Template THEN target ELSE url
Asked == {c \in SchemaCalls : calls[c].pc = "waits"}

-----------------------------------------------------------------------------
(* What the user does.                                                     *)

EditUrl(url) ==
  /\ typed' = url
  /\ UNCHANGED <<version, target, store, cache, panel, calls, unsaved, stuck>>

\* Another environment, or a session variable.
VariablesChange(e) ==
  /\ target' = e
  /\ UNCHANGED <<version, typed, store, cache, panel, calls, unsaved, stuck>>

\* The dialog stays mounted when it is closed; the explorer does not.
ShowPanel(p) == panel' = p /\ UNCHANGED <<version, target, typed, store, cache, calls, unsaved, stuck>>
openImport == ~panel.import /\ ~panel.explorer /\ ShowPanel([panel EXCEPT !.import = TRUE])
close == panel.import /\ ~panel.working /\ ShowPanel([panel EXCEPT !.import = FALSE])
openExplorer ==
  /\ ~panel.import /\ ~panel.explorer /\ store.schema # NoSchema /\ panel.at < MaxExplorers
  /\ ShowPanel([panel EXCEPT !.explorer = TRUE, !.refreshing = FALSE, !.at = @ + 1])
closeExplorer == panel.explorer /\ ShowPanel([panel EXCEPT !.explorer = FALSE])

\* The user turns to another protocol and comes back.
Remount ==
  /\ panel.no < MaxPanels
  /\ panel' = Mounted(panel.no + 1) /\ stuck' = FALSE
  /\ UNCHANGED <<version, target, typed, store, cache, calls, unsaved>>

\* The page is loaded again: only the cache survives.
Reload ==
  /\ panel.no < MaxPanels
  /\ panel' = Mounted(panel.no + 1) /\ stuck' = FALSE
  /\ store' = [schema |-> NoSchema, endpoint |-> NoEndpoint]
  /\ calls' = [c \in SchemaCalls |-> [calls[c] EXCEPT !.pc = IF @ = "waits" THEN "done" ELSE @]]
  /\ UNCHANGED <<version, target, typed, cache, unsaved>>

-----------------------------------------------------------------------------
(* The cache.                                                              *)

\* The quota may be exceeded.
cacheSchema(endpoint, schema) ==
  \/ /\ cache' = [cache EXCEPT ![endpoint] = schema]
     /\ unsaved' = unsaved \ {endpoint}
  \/ /\ unsaved' = unsaved \union {endpoint}
     /\ UNCHANGED cache

\* The effect: only when there is no schema.
restoreCached ==
  /\ store.schema = NoSchema
  /\ cache[resolve(typed)] # NoSchema
  /\ store' = [schema |-> cache[resolve(typed)], endpoint |-> resolve(typed)]
  /\ UNCHANGED <<version, target, typed, cache, panel, calls, unsaved, stuck>>

-----------------------------------------------------------------------------
(* The dialog.                                                             *)

Calls(c, kind, url) ==
  /\ calls[c] = NotCalled
  /\ calls' = [calls EXCEPT ![c] = [pc |-> "waits", kind |-> kind, url |-> url, panel |-> panel.no, at |-> panel.at]]

Works == panel.import /\ ~panel.working /\ panel' = [panel EXCEPT !.working = TRUE] /\ stuck' = FALSE
\* The URL is the dialog's own.
fetchSchema(c, url) ==
  /\ Works /\ Calls(c, "fetch", resolve(url))
  /\ UNCHANGED <<version, target, typed, store, cache, unsaved>>
\* A JSON or an SDL file.
importSchemaFile(c) ==
  /\ Works /\ Calls(c, "file", NoEndpoint)
  /\ UNCHANGED <<version, target, typed, store, cache, unsaved>>

\* The dialog is closed too (import, in the callers).
commitSchema(schema, endpoint) ==
  /\ cacheSchema(endpoint, schema)
  /\ store' = [schema |-> schema, endpoint |-> endpoint]

\* working is not reset when the text was good.
importSDLText ==
  /\ panel.import /\ ~panel.working
  /\ commitSchema([from |-> NoEndpoint, v |-> version], NoEndpoint)
  /\ panel' = [panel EXCEPT !.import = FALSE, !.working = TRUE]
  /\ stuck' = TRUE
  /\ UNCHANGED <<version, target, typed, calls>>

Ends(c) == calls[c].pc = "waits" /\ calls' = [calls EXCEPT ![c].pc = "done"]
\* A dialog that is gone learns nothing.
SamePanel(c) == calls[c].panel = panel.no

\* The answer holds the schema of the endpoint; a file holds its own.
ImportAnswered(c) ==
  /\ calls[c].kind \in {"fetch", "file"} /\ Ends(c)
  /\ commitSchema([from |-> calls[c].url, v |-> version], calls[c].url)
  /\ panel' = IF SamePanel(c) THEN [panel EXCEPT !.import = FALSE, !.working = FALSE] ELSE panel
  /\ UNCHANGED <<version, target, typed, stuck>>

ImportFails(c) ==
  /\ calls[c].kind \in {"fetch", "file"} /\ Ends(c)
  /\ panel' = IF SamePanel(c) THEN [panel EXCEPT !.working = FALSE] ELSE panel
  /\ UNCHANGED <<version, target, typed, store, cache, unsaved, stuck>>

-----------------------------------------------------------------------------
(* The explorer.                                                           *)

\* The request's URL is not resolved here.
handleRefresh(c) ==
  /\ panel.explorer /\ ~panel.refreshing
  /\ Calls(c, "refresh", IF store.endpoint # NoEndpoint THEN store.endpoint ELSE typed)
  /\ panel' = [panel EXCEPT !.refreshing = TRUE]
  /\ UNCHANGED <<version, target, typed, store, cache, unsaved, stuck>>

Refreshed(c) ==
  IF SamePanel(c) /\ calls[c].at = panel.at THEN [panel EXCEPT !.refreshing = FALSE] ELSE panel

\* Mutant: the endpoint is taken to be the same still.
RefreshAnswered_KeepsEndpoint(c) ==
  /\ calls[c].kind = "refresh" /\ calls[c].url \in Endpoints /\ Ends(c)
  /\ store' = [store EXCEPT !.schema = [from |-> calls[c].url, v |-> version]]
  /\ cacheSchema(calls[c].url, [from |-> calls[c].url, v |-> version])
  /\ panel' = Refreshed(c)
  /\ UNCHANGED <<version, target, typed, stuck>>
RefreshAnswered(c) ==
  /\ calls[c].kind = "refresh" /\ calls[c].url \in Endpoints /\ Ends(c)
  /\ store' = [schema |-> [from |-> calls[c].url, v |-> version], endpoint |-> calls[c].url]
  /\ cacheSchema(calls[c].url, [from |-> calls[c].url, v |-> version])
  /\ panel' = Refreshed(c)
  /\ UNCHANGED <<version, target, typed, stuck>>
RefreshFails(c) ==
  /\ calls[c].kind = "refresh" /\ Ends(c)
  /\ panel' = Refreshed(c)
  /\ UNCHANGED <<version, target, typed, store, cache, unsaved, stuck>>

\* External: the endpoints change their schemas.
SchemasChange ==
  /\ version < MaxVersion /\ version' = version + 1
  /\ UNCHANGED <<target, typed, store, cache, panel, calls, unsaved, stuck>>

SchemaNext ==
  \/ \E u \in Urls : EditUrl(u)
  \/ \E e \in Endpoints : VariablesChange(e)
  \/ openImport \/ close \/ openExplorer \/ closeExplorer \/ Remount \/ Reload
  \/ restoreCached \/ importSDLText \/ SchemasChange
  \/ \E c \in SchemaCalls :
       \/ \E u \in Urls : fetchSchema(c, u)
       \/ importSchemaFile(c) \/ ImportAnswered(c) \/ ImportFails(c)
       \/ handleRefresh(c) \/ RefreshAnswered(c) \/ RefreshFails(c)

SchemaSpec == SchemaInit /\ [][SchemaNext]_schemaVars

-----------------------------------------------------------------------------
(* Properties.                                                             *)

\* The state of the panel has its type.
SchemaTypeOK ==
  /\ version \in 0..MaxVersion /\ target \in Endpoints
  /\ typed \in Urls /\ store.endpoint \in Keys
  /\ panel.no \in 1..MaxPanels
  /\ panel.explorer => store.schema # NoSchema
  /\ \A c \in SchemaCalls : calls[c].pc \in {"idle", "waits", "done"} /\ calls[c].url \in Urls \union Keys
  /\ unsaved \subseteq Keys

\* commitSchema, handleRefresh, the restoring effect: the endpoint that the store
\* names is the one the schema is of, whatever answers late and wherever the
\* request's URL has gone meanwhile.  The next refresh asks that endpoint.
SchemaIsOfEndpoint ==
  store.schema # NoSchema => store.schema.from = store.endpoint

\* The same functions: what is shown of an endpoint is what the cache holds of it,
\* so that the page shows the same after it is loaded again, unless the write
\* failed.
ShownIsCached ==
  (store.schema # NoSchema /\ store.endpoint \notin unsaved) => cache[store.endpoint] = store.schema

\* fetchSchema, importSchemaFile, handleRefresh: a dialog that says it is busy waits for a
\* call of its own.  The exception is the import of SDL text: when it worked, the
\* dialog is busy for ever, and cannot be closed once it is opened again.
BusyWaits ==
  /\ (panel.working /\ ~stuck) => \E c \in Asked : SamePanel(c) /\ calls[c].kind # "refresh"
  /\ (panel.explorer /\ panel.refreshing) =>
       \E c \in Asked : SamePanel(c) /\ calls[c].at = panel.at /\ calls[c].kind = "refresh"

\* The schema the GraphQL page shows is that of its endpoint and the one it has
\* cached, and its dialogs are busy only while they wait for a call.
SchemaIsCurrent == SchemaTypeOK /\ SchemaIsOfEndpoint /\ ShownIsCached /\ BusyWaits
=============================================================================
