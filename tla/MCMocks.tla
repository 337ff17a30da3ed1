------------------------------- MODULE MCMocks -------------------------------
(***************************************************************************)
(* The mock server, the mock gRPC server and the webhooks, checked part by *)
(* part: a behaviour is about one of them, and they share no state.  Two   *)
(* parts are pure: every list of two small routes, and every short fixture.*)
(***************************************************************************)
EXTENDS MockServer, Webhooks

VARIABLES area, config, fixture

(* ---- values ---- *)

Digits == [v \in {"1", "2", "12"} |-> CASE v = "1" -> 1 [] v = "2" -> 2 [] OTHER -> 12]
MCLess(a, b) == a \in DOMAIN Digits /\ b \in DOMAIN Digits /\ Digits[a] < Digits[b]
MCIncludes(a, b) == a = b \/ (a = "12" /\ b \in {"1", "2"})
MCAccepts(e, a) == e = a

Path(parts) == [parts |-> parts, flaws |-> {}]
Lit(lower, written) == <<lower, written>>
Param(n) == <<":", n>>
Body(names) == [blank |-> FALSE, bytes |-> 1, open |-> Len(names), close |-> Len(names),
                names |-> names, json |-> TRUE]
Blank == [blank |-> TRUE, bytes |-> 0, open |-> 0, close |-> 0, names |-> <<>>, json |-> FALSE]
Item(status, latency, body) == [status |-> status, latencyMs |-> latency, headers |-> <<>>, body |-> body]
Route(id, path, conditions, sequences, latency) ==
  [id |-> id, enabled |-> TRUE, method |-> "GET", path |-> path, status |-> 200, headers |-> <<>>,
   body |-> Blank, latencyMs |-> latency, conditions |-> conditions, sequences |-> sequences]
Condition(source, e, matcher, expected) ==
  [source |-> source, expression |-> e, matcher |-> matcher, expected |-> expected,
   bad |-> FALSE, numeric |-> expected \in DOMAIN Digits, compiles |-> TRUE]
Request(path, query) ==
  [method |-> "GET", path |-> path, query |-> query, headers |-> <<>>, json |-> <<>>]

PathA == Path(<<Lit("a", "a")>>)
MCDrafts ==
  {Route(1, PathA, <<>>, <<Item(201, 0, Blank), Item(202, 1, Blank)>>, 0),
   Route(2, Path(<<Param("x")>>), <<>>, <<>>, 1)}
MCImports == {<<Route(3, PathA, <<Condition("query", "q", "equals", "1")>>, <<>>, 0),
                Route(3, PathA, <<>>, <<>>, 0)>>}
Draft(id) == CHOOSE r \in MCDrafts : r.id = id
MCStored == {<<Draft(1)>>, <<Draft(1), Draft(2)>>}
Bound(e, p, a, r) ==
  [edits |-> e, pushes |-> p, answers |-> a, records |-> r]
\* Answering while the routes change, and the panel with what it imports.
Answering == Bound(0, 2, 3, 0)
Panel == Bound(1, 2, 0, 2)
MCBounds == {Answering, Panel}
AtA == <<<<"a", "A", "A">>>>
AtB == <<<<"%20", "%20", " ">>>>
MCRequests == {Request(AtA, <<>>), Request(AtB, <<>>)}
MCTargets == {[method |-> m, path |-> PathA, status |-> 200, body |-> Blank] : m \in {"TRACE"}}

MCGrpcConfigs ==
  {<<[fullMethod |-> "m", responses |-> <<"r1", "r2">>, latencyMs |-> 1, enabled |-> TRUE]>>,
   <<[fullMethod |-> "m", responses |-> <<"r3">>, latencyMs |-> 0, enabled |-> FALSE],
     [fullMethod |-> "m", responses |-> <<"r4", "r5", "r6">>, latencyMs |-> 0, enabled |-> TRUE]>>}

MCNoValidation == [type |-> "none", complete |-> FALSE, token |-> ""]
MCConfigs == {[type |-> "header", complete |-> TRUE, token |-> "t"],
              [type |-> "hmac", complete |-> TRUE, token |-> ""]}
MCDeliveries == {[header |-> "t", signature |-> "missing"]}

(* ---- every pair of small routes ---- *)

Segments == {Lit("a", "a"), Lit("a", "A"), Param("x"), Param("y")}
SmallPaths == {Path(<<s>>) : s \in Segments} \union {Path(<<s, t>>) : s, t \in Segments}
ByQuery(m, v) == Condition("query", "q", m, v)
SmallConditions ==
  {<<>>, <<ByQuery("equals", "1")>>, <<ByQuery("equals", "2")>>, <<ByQuery("gt", "1")>>, <<ByQuery("gt", "1"), ByQuery("notEquals", "12")>>,
   <<ByQuery("notEquals", "12"), ByQuery("gt", "1")>>, <<ByQuery("exists", "")>>}
SmallBodies == {Body(<<<<"param", "x">>>>), Body(<<<<"query", "q">>, <<"other", "x">>>>), Blank}
SmallRoutes(id) ==
  {[Route(id, p, c, <<>>, 0) EXCEPT !.enabled = e] : p \in SmallPaths, c \in SmallConditions, e \in BOOLEAN}
Templated ==
  {[Route(1, p, <<>>, s, 0) EXCEPT !.body = b] :
     p \in SmallPaths, b \in SmallBodies, s \in {<<>>} \union {<<Item(200, 0, c)>> : c \in SmallBodies}}
SmallRequests ==
  {Request(p, q) : p \in {AtA, AtB, AtA \o AtB, AtB \o AtA},
                   q \in {<<>>} \union {[x \in {"q"} |-> v] : v \in {"1", "2", "12"}}}
ConfigsOfTwo == {<<r, s>> : r \in SmallRoutes(1), s \in SmallRoutes(2)}

Entries == {<<>>} \union UNION {[1..n -> [fullMethod : {"m", "n"}, response : {"r1", "r2"}]] : n \in 1..4}

(* ---- the areas ---- *)

Init ==
  /\ area \in {"http", "grpc", "webhooks", "routes", "replay"}
  /\ config = <<>> /\ fixture = <<>>
  /\ MockInit /\ GrpcMockInit /\ WebhookInit
  /\ (spent = Answering) = (Len(saved) = 2)
  /\ area # "http" => spent = Panel

Next ==
  \/ /\ area = "http" /\ MockNext
     /\ UNCHANGED <<grpcVars, hookVars, area, config, fixture>>
  \/ /\ area = "grpc" /\ GrpcMockNext
     /\ UNCHANGED <<mockVars, hookVars, area, config, fixture>>
  \/ /\ area = "webhooks" /\ WebhookNext
     /\ UNCHANGED <<mockVars, grpcVars, area, config, fixture>>
  \/ /\ area = "routes" /\ config = <<>>
     /\ config' \in ConfigsOfTwo \union {<<r>> : r \in Templated}
     /\ UNCHANGED <<mockVars, grpcVars, hookVars, area, fixture>>
  \/ /\ area = "replay" /\ fixture = <<>>
     /\ fixture' \in Entries \ {<<>>}
     /\ UNCHANGED <<mockVars, grpcVars, hookVars, area, config>>

vars == <<mockVars, grpcVars, hookVars, area, config, fixture>>

Spec == Init /\ [][Next]_vars /\ MockFairness /\ WebhookFairness

(* ---- pure properties ---- *)

\* validateMockRoutes and findMockRouteMatch: a route the user is warned about,
\* because it overlaps one before it, answers no request.
WarnedIsDead ==
  \A i \in DOMAIN config :
    <<"warning", "overlap">> \in validateMockRoutes(config)[i] =>
      \A q \in SmallRequests : findMockRouteMatch(config, q) # i

\* validateTemplates and renderMockTemplate: whatever answers of an accepted
\* list of routes, every parameter its body names has a value of the path.
TemplatesFilled ==
  Valid(config) =>
    \A q \in SmallRequests :
      LET m == findMockRouteMatch(config, q)
          params == matchPath(config[m].path, q.path).params
          bodies == {config[m].body} \union {config[m].sequences[i].body : i \in DOMAIN config[m].sequences}
      IN m # 0 =>
           \A b \in bodies : \A i \in DOMAIN b.names :
             b.names[i][1] = "param" => renderMockTemplate(b, params, q.query)[i] # <<"text", "">>

\* replayFixture and MockGrpcStore.invoke: replaying a fixture answers the n-th
\* call of a method as the n-th call of it was answered when it was recorded.
ReplayIsFaithful ==
  LET list == replayFixture(fixture)
      Of1(m) == Only(fixture, {e \in ToSet(fixture) : e.fullMethod = m})
  IN /\ \A i, k \in DOMAIN list : list[i].fullMethod = list[k].fullMethod => i = k
     /\ \A m \in Methods : Of1(m) # <<>> =>
          \E i \in DOMAIN list :
            /\ list[i].fullMethod = m
            /\ \A n \in DOMAIN Of1(m) :
                 list[i].responses[((n - 1) % Len(list[i].responses)) + 1] = Of1(m)[n].response

\* The mock servers answer what the panel shows, over HTTP and gRPC: the active
\* routes are the ones served, under ids of their own, items and responses come
\* in order, the newest record answers and the newest log entries are kept, a
\* route that is warned about never answers, a template that was accepted is
\* filled, and a replay repeats what was recorded.
MocksServe ==
  /\ MockTypeOK /\ GrpcMockTypeOK
  /\ ActiveIsServed /\ ServedApart /\ ItemsInOrder /\ ResponsesInOrder
  /\ LogIsNewest /\ NewestRecordAnswers /\ WarnedIsDead /\ TemplatesFilled /\ ReplayIsFaithful

\* Nothing hangs: a push whose routes can be stored does not leave the mock panel
\* waiting, a request to a mock is answered, and the button that saves a webhook
\* is freed.
MocksSettle == StatusSettles /\ CallsAnswered /\ ApplyIsFreed
=============================================================================
