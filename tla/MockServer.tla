----------------------------- MODULE MockServer -----------------------------
(***************************************************************************)
(* The mock server and the panel that configures it.  The page keeps the   *)
(* routes in its database, edits them there and pushes all of them at      *)
(* once; the server holds them in memory, answers /mock/*, logs what it    *)
(* answered, and records what went through its proxy so that it can be     *)
(* turned into routes.  Requests to the mock are answered concurrently,    *)
(* calls of the page may overlap, and the server may be restarted.         *)
(*                                                                         *)
(* A call of the page is waiting until the server takes it or it fails,    *)
(* and then answered until the page sees the answer.  The panel goes away  *)
(* when the user opens another one, with its status and what it waits for. *)
(* The three-second poll of the log only shows it and is left out.         *)
(***************************************************************************)
EXTENDS MockRoutes, Naturals, Sequences, FiniteSets, SequencesExt, Functions

CONSTANTS
  Clients,       \* concurrent requests to /mock/*
  Jobs,          \* calls of the page in flight
  Drafts,        \* the routes a user may enter
  StoredRoutes,  \* the lists of routes an earlier session may have left in the database
  Imports,       \* the lists of routes a user may import from a file
  Requests,      \* the requests sent to the mock
  Targets,       \* the [method, path, status] of what is sent through the proxy
  LogCap,        \* 1000 in appendLog
  RecordCap,     \* MAX_PROXY_RECORDS
  Bounds         \* the numbers of edits (and times the panel is left), calls of the page, requests
                 \* to the mock and requests through the proxy that one behaviour may make

NoRoute == [id |-> 0]
RouteFields ==
  {"id", "enabled", "method", "path", "status", "headers", "body", "latencyMs", "conditions", "sequences"}
IsSeq(s) == s \in Seq(ToSet(s))
UserRoutes == Drafts \union UNION {ToSet(list) : list \in StoredRoutes \union Imports}

\* Routes have the fields of MockRoute, and a user's ids are unlike those that
\* NewId makes.
ASSUME MockAssumption ==
  /\ LogCap \in Nat \ {0} /\ RecordCap \in Nat \ {0}
  /\ Bounds \subseteq [edits : Nat, pushes : Nat, answers : Nat, records : Nat]
  /\ StoredRoutes \union Imports \subseteq Seq(UserRoutes)
  /\ \A r \in UserRoutes :
       DOMAIN r = RouteFields /\ r.id \in 0..(RecordCap + 1) /\ IsSeq(r.sequences)

VARIABLES
  routes, logs, sequenceIndex, records,     \* memory of the server
  calls,                                    \* requests to the mock being answered
  saved,                                    \* "mockRoutes" in the page's database
  mockStatus, importing, editing, jobs,     \* the panel
  watched,                                  \* the calls whose end the panel as it is now acts on
  unsaved,    \* history: the routes of the last sync could not be stored
  calm,       \* history: nothing was edited, restarted, left, refused or overlapped since a lone push
  picks,      \* history: the items given to each sequence since its index was reset
  answered,   \* history: what was logged since the log was cleared
  imported,   \* history: the routes made by an import and their records, until the next push
  spent       \* what is left of the bounds
serverVars == <<routes, logs, sequenceIndex, records>>
pageVars == <<saved, mockStatus, importing, editing, jobs, watched, unsaved>>
mockVars == <<serverVars, calls, pageVars, calm, picks, answered, imported, spent>>

Idle == [pc |-> "idle"]

MockInit ==
  /\ routes = <<>> /\ logs = <<>> /\ sequenceIndex = <<>> /\ records = <<>>
  /\ calls = [c \in Clients |-> Idle]
  /\ saved \in StoredRoutes /\ mockStatus = "" /\ importing = FALSE /\ editing = NoRoute
  /\ jobs = [j \in Jobs |-> Idle] /\ watched = {} /\ unsaved = FALSE
  /\ calm = FALSE /\ picks = <<>> /\ answered = <<>> /\ imported = <<>>
  /\ spent \in Bounds

At(f, x, default) == IF x \in DOMAIN f THEN f[x] ELSE default
Put(f, x, v) == [y \in DOMAIN f \union {x} |-> IF y = x THEN v ELSE f[y]]
\* Array.filter: the elements of s that are in S.
Only(s, S) ==
  LET kept[i \in 0..Len(s)] ==
        IF i = 0 THEN <<>>
        ELSE IF s[i] \in S THEN Append(kept[i - 1], s[i]) ELSE kept[i - 1]
  IN kept[Len(s)]
Spend(what) == spent[what] > 0 /\ spent' = [spent EXCEPT ![what] = @ - 1]

(* ---- the routes the server holds ---- *)

Reset(next) ==
  /\ routes' = next
  /\ sequenceIndex' = <<>> /\ picks' = <<>>

\* PUT /api/mock/routes: the schema refuses what validateMockRoutes refuses.
mockRoutesSchema(list) == Valid(list)

replaceRoutes(next) == Reset(next) /\ imported' = <<>>

\* crypto.randomUUID: unlike the ids of a user's routes and of other imports.
NewId(i) == (RecordCap + 1) * (spent.pushes + 1) + i

Merged(new) ==
  LET Same(r) == \E i \in DOMAIN new : /\ new[i].method = r.method /\ new[i].path = r.path
                                       /\ r.conditions = <<>>
  IN Only(routes, {r \in ToSet(routes) : ~Same(r)}) \o new

\* A route of the same method and path without conditions gives way; the new
\* ones come last, in the order of the records.  Nothing is validated.
proxyImport(selected) ==
  LET new == [i \in DOMAIN selected |-> [selected[i].route EXCEPT !.id = NewId(i)]]
  IN /\ Reset(Merged(new))
     /\ imported' = [i \in DOMAIN new |-> [route |-> new[i], at |-> selected[i].id]]

(* ---- answering /mock/* ---- *)

appendLog(entry) ==
  LET all == Append(logs, entry)
  IN /\ logs' = SubSeq(all, IF Len(all) > LogCap THEN Len(all) - LogCap + 1 ELSE 1, Len(all))
     /\ answered' = Append(answered, entry)

\* The next item of the sequence and the index to store, 0 if there is none.
nextSequenceItem(route) ==
  LET idx == At(sequenceIndex, route.id, 0)
  IN IF route.sequences = <<>> THEN [item |-> route, n |-> 0]
     ELSE [item |-> route.sequences[(idx % Len(route.sequences)) + 1], n |-> idx + 1]

Advance(route, next) ==
  IF next.n = 0 THEN UNCHANGED <<sequenceIndex, picks>>
  ELSE /\ sequenceIndex' = Put(sequenceIndex, route.id, next.n)
       /\ picks' = Put(picks, route.id, Append(At(picks, route.id, <<>>), next.item))

\* A request is matched and its answer picked at once; a latency delays the
\* log and the answer, whatever happens to the routes meanwhile.
mockCatchAll(c, q) ==
  /\ calls[c].pc = "idle" /\ Spend("answers")
  /\ LET m == findMockRouteMatch(routes, q)
     IN \/ /\ m = 0
           /\ appendLog([id |-> 0, status |-> 404])
           /\ UNCHANGED <<calls, sequenceIndex, picks>>
        \/ /\ m # 0
           /\ LET next == nextSequenceItem(routes[m])
                  entry == [id |-> routes[m].id, status |-> next.item.status]
              IN /\ Advance(routes[m], next)
                 /\ IF next.item.latencyMs = 0
                    THEN appendLog(entry) /\ UNCHANGED calls
                    ELSE /\ calls' = [calls EXCEPT ![c] = [pc |-> "sleeping", entry |-> entry]]
                         /\ UNCHANGED <<logs, answered>>
  /\ UNCHANGED <<routes, records, pageVars, calm, imported>>

Slept(c) ==
  /\ calls[c].pc = "sleeping"
  /\ appendLog(calls[c].entry)
  /\ calls' = [calls EXCEPT ![c] = Idle]
  /\ UNCHANGED <<routes, sequenceIndex, picks, records, pageVars, calm, imported, spent>>

(* ---- the proxy ---- *)

\* What went through the proxy becomes the newest record, with the route it
\* may be turned into: a method the mock does not know becomes GET, the query
\* is cut off.  A target that fails or answers too much is not recorded.
ProxyRequest(t) ==
  /\ Spend("records")
  /\ LET r == [id |-> 9 - spent.records,
               route |-> [id |-> 0, enabled |-> TRUE,
                          method |-> IF t.method \in {"GET", "POST"} THEN t.method ELSE "GET",
                          path |-> t.path, status |-> t.status, headers |-> <<>>,
                          body |-> t.body, latencyMs |-> 0, conditions |-> <<>>, sequences |-> <<>>]]
     IN records' = SubSeq(<<r>> \o records, 1,
                          IF Len(records) + 1 > RecordCap THEN RecordCap ELSE Len(records) + 1)
  /\ UNCHANGED <<routes, logs, sequenceIndex, calls, pageVars, calm, picks, answered, imported>>

(* ---- the panel ---- *)

Waiting == {j \in Jobs : jobs[j].pc # "idle"}

\* A call of the page starts; one that overlaps another ends the calm.
Call(j, job) ==
  /\ jobs[j].pc = "idle" /\ Spend("pushes")
  /\ jobs' = [jobs EXCEPT ![j] = job]
  /\ calm' = (Waiting = {} /\ (calm \/ job.kind = "sync"))

\* The button is offered whatever is in flight.  mutate calls back for the last
\* of its calls only.
sync(j) ==
  /\ Valid(saved)
  /\ Call(j, [pc |-> "waiting", kind |-> "sync", routes |-> saved])
  /\ mockStatus' = "Syncing..."
  /\ watched' = {i \in watched : jobs[i].kind # "sync"} \union {j}
  /\ unsaved' = FALSE
  /\ UNCHANGED <<serverVars, calls, saved, importing, editing, picks, answered, imported>>

stop(j) ==
  /\ mockStatus = "Active"
  /\ Call(j, [pc |-> "waiting", kind |-> "stop", routes |-> <<>>])
  /\ mockStatus' = "Stopping..."
  /\ watched' = watched \union {j} /\ UNCHANGED unsaved
  /\ UNCHANGED <<serverVars, calls, saved, importing, editing, picks, answered, imported>>

clearLogs(j) ==
  /\ Call(j, [pc |-> "waiting", kind |-> "clear logs"])
  /\ UNCHANGED <<serverVars, calls, saved, mockStatus, importing, editing, watched, unsaved, picks, answered,
                 imported>>

\* The user selects records from the list, which is taken to be up to date;
\* no selection means all.
Selections == {{}} \union {{records[i].id} : i \in DOMAIN records}

\* Not offered while importing.  Bound: one import is under way at a time, also
\* after the panel was left.
importSelected(j) ==
  /\ ~importing /\ records # <<>> /\ \A i \in Waiting : jobs[i].kind # "import"
  /\ \E ids \in Selections : Call(j, [pc |-> "waiting", kind |-> "import", ids |-> ids, result |-> <<>>])
  /\ importing' = TRUE /\ watched' = watched \union {j}
  /\ UNCHANGED <<serverVars, calls, saved, mockStatus, editing, unsaved, picks, answered, imported>>

clearRecords(j) ==
  /\ ~importing /\ records # <<>>
  /\ Call(j, [pc |-> "waiting", kind |-> "clear records"])
  /\ UNCHANGED <<serverVars, calls, saved, mockStatus, importing, editing, watched, unsaved, picks, answered,
                 imported>>

Answer(j) == jobs' = [jobs EXCEPT ![j].pc = "answered"]

\* The server takes the call.
Handle(j) ==
  /\ jobs[j].pc = "waiting"
  /\ \/ /\ jobs[j].kind \in {"sync", "stop"} /\ mockRoutesSchema(jobs[j].routes)
        /\ replaceRoutes(jobs[j].routes) /\ Answer(j)
        /\ UNCHANGED <<logs, answered, records>>
     \/ /\ jobs[j].kind = "import"
        /\ proxyImport(IF jobs[j].ids = {} THEN records
                       ELSE Only(records, {r \in ToSet(records) : r.id \in jobs[j].ids}))
        /\ jobs' = [jobs EXCEPT ![j].pc = "answered", ![j].result = routes']
        /\ UNCHANGED <<logs, answered, records>>
     \/ /\ jobs[j].kind = "clear logs" /\ logs' = <<>> /\ answered' = <<>> /\ Answer(j)
        /\ UNCHANGED <<routes, sequenceIndex, picks, imported, records>>
     \/ /\ jobs[j].kind = "clear records" /\ records' = <<>> /\ Answer(j)
        /\ UNCHANGED <<routes, sequenceIndex, picks, imported, logs, answered>>
  /\ UNCHANGED <<calls, saved, mockStatus, importing, editing, watched, unsaved, calm, spent>>

\* The call or its answer is lost.
Fails(j) ==
  /\ jobs[j].pc \in {"waiting", "answered"}
  /\ jobs' = [jobs EXCEPT ![j].pc = "failed"]
  /\ calm' = FALSE
  /\ UNCHANGED <<serverVars, calls, saved, mockStatus, importing, editing, watched, unsaved, picks,
                 answered, imported, spent>>

onSuccess_KeepsSaved(j, list) ==
  /\ saved' = saved
  /\ mockStatus' = IF jobs[j].kind = "sync" THEN "Active" ELSE mockStatus

\* A sync stores the routes it pushed, an import the routes of the server.
onSuccess(j, list) ==
  /\ saved' = list
  /\ mockStatus' = IF jobs[j].kind = "sync" THEN "Active" ELSE mockStatus

onError_Quiet == UNCHANGED mockStatus
onError == mockStatus' = "Error"

\* The database refuses what is to be stored.  After a sync nothing more is
\* done then: the status stays as it is.
NotStored(j) ==
  /\ unsaved' = (unsaved \/ jobs[j].kind = "sync") /\ calm' = FALSE
  /\ UNCHANGED <<mockStatus, saved>>

\* The page sees the answer: for an import the list the server answered with,
\* which is stored whether or not the panel is still there.
Settles(j) ==
  /\ jobs[j].pc \in {"answered", "failed"}
  /\ jobs' = [jobs EXCEPT ![j] = Idle] /\ watched' = watched \ {j}
  /\ \/ /\ jobs[j].pc = "answered"
        /\ jobs[j].kind = "import" \/ (jobs[j].kind = "sync" /\ j \in watched)
        /\ \/ /\ onSuccess(j, IF jobs[j].kind = "sync" THEN jobs[j].routes ELSE jobs[j].result)
              /\ UNCHANGED <<unsaved, calm>>
           \/ NotStored(j)
     \/ /\ jobs[j].pc = "answered" /\ jobs[j].kind = "stop" /\ j \in watched
        /\ mockStatus' = "Inactive" /\ UNCHANGED <<saved, unsaved, calm>>
     \/ /\ jobs[j].pc = "failed" /\ jobs[j].kind \in {"sync", "stop"} /\ j \in watched
        /\ onError /\ UNCHANGED <<saved, unsaved, calm>>
     \/ /\ \/ jobs[j].kind \in {"clear logs", "clear records"}
           \/ jobs[j].kind = "import" /\ jobs[j].pc = "failed"
           \/ jobs[j].kind \in {"sync", "stop"} /\ j \notin watched
        /\ UNCHANGED <<mockStatus, saved, unsaved, calm>>
  /\ importing' = IF jobs[j].kind = "import" /\ j \in watched THEN FALSE ELSE importing
  /\ UNCHANGED <<serverVars, calls, editing, picks, answered, imported, spent>>

\* Another panel takes its place, by the sidebar or the palette, and it comes
\* back empty.  Its calls go on without it.
leavePanel ==
  /\ Spend("edits")
  /\ mockStatus' = "" /\ importing' = FALSE /\ editing' = NoRoute
  /\ watched' = {} /\ unsaved' = FALSE /\ calm' = FALSE
  /\ UNCHANGED <<serverVars, calls, saved, jobs, picks, answered, imported>>

(* ---- editing the routes ---- *)

persistRoutes(next) ==
  /\ Spend("edits")
  /\ saved' = next /\ calm' = FALSE
  /\ UNCHANGED <<serverVars, calls, mockStatus, importing, jobs, watched, unsaved, picks, answered, imported>>

\* The modal opens on a route; it is saved later, over whatever is there then.
openRoute ==
  /\ editing = NoRoute /\ spent.edits > 0
  /\ editing' \in Drafts
  /\ UNCHANGED <<serverVars, calls, saved, mockStatus, importing, jobs, watched, unsaved, calm, picks,
                 answered, imported, spent>>

saveRoute ==
  /\ editing # NoRoute
  /\ persistRoutes(IF \E i \in DOMAIN saved : saved[i].id = editing.id
                   THEN [i \in DOMAIN saved |-> IF saved[i].id = editing.id THEN editing ELSE saved[i]]
                   ELSE Append(saved, editing))
  /\ editing' = NoRoute

deleteRoute(id) ==
  /\ editing = NoRoute /\ \E i \in DOMAIN saved : saved[i].id = id
  /\ persistRoutes(Only(saved, {r \in ToSet(saved) : r.id # id}))
  /\ UNCHANGED editing

toggleEnabled(id) ==
  /\ editing = NoRoute /\ \E i \in DOMAIN saved : saved[i].id = id
  /\ persistRoutes([i \in DOMAIN saved |-> IF saved[i].id = id THEN [saved[i] EXCEPT !.enabled = ~@] ELSE saved[i]])
  /\ UNCHANGED editing

importRoutes ==
  /\ editing = NoRoute
  /\ \E list \in Imports :
       persistRoutes(Only(saved, {r \in ToSet(saved) : \A i \in DOMAIN list : list[i].id # r.id}) \o list)
  /\ UNCHANGED editing

deleteAll ==
  /\ editing = NoRoute /\ saved # <<>>
  /\ persistRoutes(<<>>)
  /\ UNCHANGED editing

(* ---- the server restarts: its memory is gone, its answers are lost ---- *)
Restart ==
  /\ Reset(<<>>) /\ logs' = <<>> /\ records' = <<>> /\ answered' = <<>> /\ imported' = <<>>
  /\ calls' = [c \in Clients |-> Idle]
  /\ jobs' = [j \in Jobs |-> IF jobs[j].pc = "waiting" THEN [jobs[j] EXCEPT !.pc = "failed"] ELSE jobs[j]]
  /\ calm' = FALSE
  /\ UNCHANGED <<saved, mockStatus, importing, editing, watched, unsaved, spent>>

PanelNext ==
  \/ \E j \in Jobs : \/ sync(j) \/ stop(j) \/ clearLogs(j) \/ importSelected(j) \/ clearRecords(j)
                     \/ Settles(j)
  \/ openRoute \/ saveRoute \/ importRoutes \/ deleteAll \/ leavePanel
  \/ \E id \in {saved[i].id : i \in DOMAIN saved} : deleteRoute(id) \/ toggleEnabled(id)

MockServerNext ==
  \/ \E c \in Clients : (\E q \in Requests : mockCatchAll(c, q)) \/ Slept(c)
  \/ \E j \in Jobs : Handle(j) \/ Fails(j)
  \/ \E t \in Targets : ProxyRequest(t)
  \/ Restart

MockNext == PanelNext \/ MockServerNext

MockSpec == MockInit /\ [][MockNext]_mockVars

\* A latency ends, a call of the page is taken or fails, and its answer is seen.
MockFairness ==
  /\ \A c \in Clients : WF_mockVars(Slept(c))
  /\ \A j \in Jobs : WF_mockVars(Handle(j) \/ Fails(j)) /\ WF_mockVars(Settles(j) \/ Fails(j))

(* ---- properties ---- *)

MockTypeOK ==
  /\ Len(logs) <= LogCap /\ Len(records) <= RecordCap
  /\ mockStatus \in {"", "Syncing...", "Active", "Stopping...", "Inactive", "Error"}
  /\ importing \in BOOLEAN
  /\ \A c \in Clients : calls[c].pc \in {"idle", "sleeping"}
  /\ \A j \in Jobs : jobs[j].pc \in {"idle", "waiting", "answered", "failed"}
  /\ watched \subseteq Waiting /\ unsaved \in BOOLEAN

\* MockPanel.sync and useImportProxyToMocks: while the panel says Active and
\* nothing is under way, the server answers with exactly the routes the user
\* sees, if none was edited since, no two calls overlapped, none failed, the
\* database refused nothing and the server was not restarted.
ActiveIsServed == (mockStatus = "Active" /\ calm /\ Waiting = {}) => routes = saved

\* MockStore: the routes that are served have ids of their own, so that no two
\* of them share the place in a sequence.
ServedApart == \A i, k \in DOMAIN routes : routes[i].id = routes[k].id => i = k

\* nextSequenceItem: requests that overlap get the items of a route in order,
\* round and round, from the first one after each change of the routes.
ItemsInOrder ==
  \A id \in DOMAIN picks :
    \E i \in DOMAIN routes :
      /\ routes[i].id = id
      /\ \A k \in DOMAIN picks[id] :
           picks[id][k] = routes[i].sequences[((k - 1) % Len(routes[i].sequences)) + 1]

\* appendLog: the log is what was answered last, in the order of the answers.
LogIsNewest ==
  logs = SubSeq(answered, IF Len(answered) > LogCap THEN Len(answered) - LogCap + 1 ELSE 1, Len(answered))

\* proxyImport: until the next push, of the routes without conditions for a
\* method and path that was imported, the newest record answers.
NewestRecordAnswers ==
  \A q \in Requests, k \in DOMAIN imported :
    LET m == findMockRouteMatch(routes, q)
        r == imported[k].route
        Same(s) == s.method = r.method /\ s.path = r.path
        newest == CHOOSE n \in DOMAIN imported :
                    /\ Same(imported[n].route)
                    /\ \A l \in DOMAIN imported : Same(imported[l].route) => imported[l].at <= imported[n].at
    IN IF m = 0 THEN ~(r.method = q.method /\ matchPath(r.path, q.path).matched)
       ELSE (Same(routes[m]) /\ routes[m].conditions = <<>>) => routes[m] = imported[newest].route

\* MockPanel.sync, MockPanel.stop: whatever overlaps, fails or is left, a push does
\* not leave the panel waiting for ever, unless the database refused to store
\* the routes of a sync, which nothing catches.
StatusSettles ==
  mockStatus \in {"Syncing...", "Stopping..."} ~> (mockStatus \notin {"Syncing...", "Stopping..."} \/ unsaved)

\* mockCatchAll: a request that waits for its latency is answered, or its
\* server is gone.
CallsAnswered == \A c \in Clients : calls[c].pc = "sleeping" ~> calls[c].pc = "idle"

-----------------------------------------------------------------------------
(***************************************************************************)
(* The mock gRPC server and the recorder of fixtures, both in the memory   *)
(* of the server, next to the real calls that a recording is about.        *)
(***************************************************************************)
CONSTANTS
  GrpcClients,   \* concurrent calls of the mock
  GrpcConfigs,   \* the lists of routes a client may put, each with responses (minItems 1)
  Methods,       \* full names of methods
  GrpcLogCap,    \* 1000 in trimLogs
  MaxInvokes,    \* bound: calls of the mock
  MaxStarts      \* bound: recordings started

ASSUME GrpcMockAssumption ==
  /\ GrpcLogCap \in Nat \ {0}
  /\ \A list \in GrpcConfigs :
       IsSeq(list) /\ \A i \in DOMAIN list : IsSeq(list[i].responses) /\ list[i].responses # <<>>

VARIABLES
  grpcRoutes, grpcLogs, grpcIndex,   \* MockGrpcStore
  invokes,                           \* calls of the mock in their latency
  recording, active, fixtures,       \* MockGrpcRecorder
  given,        \* history: the responses given for each method since the index was reset
  grpcSpent
grpcVars == <<grpcRoutes, grpcLogs, grpcIndex, invokes, recording, active, fixtures, given, grpcSpent>>
storeVars == <<grpcRoutes, grpcLogs, grpcIndex, invokes, given>>
recorderVars == <<recording, active, fixtures>>

NoCall == [busy |-> FALSE]
NoFixture == [id |-> 0, entries |-> <<>>]

GrpcMockInit ==
  /\ grpcRoutes = <<>> /\ grpcLogs = <<>> /\ grpcIndex = <<>>
  /\ invokes = [c \in GrpcClients |-> NoCall]
  /\ recording = FALSE /\ active = NoFixture /\ fixtures = <<>>
  /\ given = <<>>
  /\ grpcSpent = [invokes |-> 0, starts |-> 0]

Of(f, x, default) == IF x \in DOMAIN f THEN f[x] ELSE default
With(f, x, v) == [y \in DOMAIN f \union {x} |-> IF y = x THEN v ELSE f[y]]

(* ---- the store ---- *)

trimLogs(list) == IF Len(list) > GrpcLogCap THEN SubSeq(list, Len(list) - GrpcLogCap + 1, Len(list)) ELSE list

grpcReplaceRoutes(next) ==
  /\ grpcRoutes' = next /\ grpcIndex' = <<>> /\ given' = <<>>
  /\ UNCHANGED <<grpcLogs, invokes, recorderVars, grpcSpent>>

grpcClearLogs ==
  /\ grpcLogs' = <<>>
  /\ UNCHANGED <<grpcRoutes, grpcIndex, invokes, given, recorderVars, grpcSpent>>

\* The response is picked and the index advanced in one step; the log comes
\* after the latency.
invoke(c, m) ==
  /\ ~invokes[c].busy /\ grpcSpent.invokes < MaxInvokes
  /\ grpcSpent' = [grpcSpent EXCEPT !.invokes = @ + 1]
  /\ LET hits == {i \in DOMAIN grpcRoutes : grpcRoutes[i].enabled /\ grpcRoutes[i].fullMethod = m}
         first == CHOOSE i \in hits : \A k \in hits : i <= k
         idx == Of(grpcIndex, m, 0)
     IN \/ /\ hits = {}
           /\ grpcLogs' = trimLogs(Append(grpcLogs, [method |-> m, response |-> "unimplemented"]))
           /\ UNCHANGED <<grpcIndex, invokes, given>>
        \/ /\ hits # {}
           /\ LET route == grpcRoutes[first]
                  response == route.responses[(idx % Len(route.responses)) + 1]
                  log == [method |-> m, response |-> response]
              IN /\ grpcIndex' = With(grpcIndex, m, idx + 1)
                 /\ given' = With(given, m, Append(Of(given, m, <<>>), response))
                 /\ IF route.latencyMs = 0
                    THEN grpcLogs' = trimLogs(Append(grpcLogs, log)) /\ UNCHANGED invokes
                    ELSE invokes' = [invokes EXCEPT ![c] = [busy |-> TRUE, log |-> log]] /\ UNCHANGED grpcLogs
  /\ UNCHANGED <<grpcRoutes, recorderVars>>

LatencyOver(c) ==
  /\ invokes[c].busy
  /\ grpcLogs' = trimLogs(Append(grpcLogs, invokes[c].log))
  /\ invokes' = [invokes EXCEPT ![c] = NoCall]
  /\ UNCHANGED <<grpcRoutes, grpcIndex, given, recorderVars, grpcSpent>>

(* ---- the recorder ---- *)

\* A recording that is under way is thrown away.
start ==
  /\ grpcSpent.starts < MaxStarts
  /\ grpcSpent' = [grpcSpent EXCEPT !.starts = @ + 1]
  /\ recording' = TRUE /\ active' = [id |-> grpcSpent.starts + 1, entries |-> <<>>]
  /\ UNCHANGED <<fixtures, storeVars>>

\* A fixture without entries is answered but not kept.  Nobody calls recordEntry,
\* so there is never one to list, get, delete or replay.
stopRecording ==
  /\ recording' = FALSE /\ active' = NoFixture
  /\ fixtures' = IF active.entries # <<>> THEN Append(fixtures, active) ELSE fixtures
  /\ UNCHANGED <<storeVars, grpcSpent>>

GrpcMockNext ==
  \/ \E next \in GrpcConfigs : grpcReplaceRoutes(next)
  \/ grpcClearLogs
  \/ \E c \in GrpcClients : (\E m \in Methods : invoke(c, m)) \/ LatencyOver(c)
  \/ start \/ stopRecording

GrpcMockSpec == GrpcMockInit /\ [][GrpcMockNext]_grpcVars

(* ---- replaying a fixture: pure ---- *)

\* One route for each method, with the responses in the order they were
\* recorded; the routes are in the order of the methods' first entries.
replayFixture(entries) ==
  LET First(i) == \A k \in 1..(i - 1) : entries[k].fullMethod # entries[i].fullMethod
      heads == Only([i \in DOMAIN entries |-> i], {i \in DOMAIN entries : First(i)})
      Mine(m) == Only(entries, {e \in ToSet(entries) : e.fullMethod = m})
  IN [i \in DOMAIN heads |->
        LET m == entries[heads[i]].fullMethod
        IN [fullMethod |-> m, responses |-> [k \in DOMAIN Mine(m) |-> Mine(m)[k].response]]]

(* ---- properties ---- *)

GrpcMockTypeOK ==
  /\ Len(grpcLogs) <= GrpcLogCap
  /\ DOMAIN grpcIndex \subseteq Methods /\ \A m \in DOMAIN grpcIndex : grpcIndex[m] \in Nat
  /\ \A c \in GrpcClients : invokes[c].busy \in BOOLEAN
  /\ recording = (active # NoFixture)

\* MockGrpcStore.invoke: concurrent calls of a method are given its responses
\* in order, round and round, each response once in a round, and a new list
\* of routes starts again with the first.
ResponsesInOrder ==
  \A m \in DOMAIN given :
    \E i \in DOMAIN grpcRoutes :
      /\ grpcRoutes[i].fullMethod = m
      /\ \A k \in DOMAIN given[m] :
           given[m][k] = grpcRoutes[i].responses[((k - 1) % Len(grpcRoutes[i].responses)) + 1]
=============================================================================
