----------------------------- MODULE MockRoutes -----------------------------
(***************************************************************************)
(* The mock routes: what validateMockRoutes says of a list of routes, in   *)
(* the page and on the server, and which route answers a request.  Pure    *)
(* code.                                                                   *)
(*                                                                         *)
(* A segment of a pattern is a literal <<lower case, as written>> or a     *)
(* parameter <<":", name>>; a segment of a request's path is <<lower case, *)
(* as written, decoded>>, the last being what safeDecodeURIComponent makes *)
(* of it.  A pattern also carries its flaws: the characters it should not  *)
(* have.  A placeholder of a body is <<kind, name>>; an id of 0 is an      *)
(* empty one.                                                              *)
(***************************************************************************)
EXTENDS Naturals, Sequences, FiniteSets, SequencesExt

CONSTANTS
  MaxRoutes,      \* MAX_ROUTES
  MaxConditions,  \* MAX_CONDITIONS_PER_ROUTE
  MaxBody,        \* MAX_ROUTE_BODY_BYTES
  MaxConfig,      \* MAX_TOTAL_CONFIG_BYTES
  MaxLatency,     \* the latency above which the user is warned
  Less(_, _),     \* Number(a) < Number(b), FALSE for what is no number
  Includes(_, _), \* String.includes
  Accepts(_, _)   \* the regular expression, anchored; FALSE if it is none

Absent == "undefined"
BadName(name) == name \in {"", "1"}          \* not PARAM_RE
Restricted == {"connection", "content-length", "te", "upgrade"}
Bodyless == {204, 205, 304}

Count(seq, Test(_)) == Cardinality({i \in DOMAIN seq : Test(seq[i])})
Names(path) == {path.parts[i][2] : i \in {j \in DOMAIN path.parts : path.parts[j][1] = ":"}}

(* ---- validation ---- *)

\* An issue is <<level, what>>.
validatePathPattern(path) ==
  LET parts == path.parts
      Param(i) == parts[i][1] = ":"
  IN {<<"error", flaw>> : flaw \in path.flaws}
     \union {<<"error", "parameter">> : i \in {j \in DOMAIN parts : Param(j) /\ BadName(parts[j][2])}}
     \union {<<"error", "duplicate parameter">> :
               i \in {j \in DOMAIN parts : /\ Param(j) /\ ~BadName(parts[j][2])
                                           /\ \E k \in 1..(j - 1) : parts[k] = parts[j]}}

validateHeaders(headers) ==
  LET Live(i) == headers[i].enabled /\ headers[i].key # ""
  IN {<<"error", "header name">> : i \in {j \in DOMAIN headers :
         \/ headers[j].key = "" /\ headers[j].value # ""
         \/ headers[j].key # "" /\ headers[j].badName}}
     \union {<<"error", "line break">> : i \in {j \in DOMAIN headers : headers[j].breaks}}
     \union {<<"error", "restricted header">> :
               i \in {j \in DOMAIN headers : Live(j) /\ headers[j].key \in Restricted}}
     \union {<<"warning", "duplicate header">> :
               i \in {j \in DOMAIN headers : Live(j) /\ \E k \in 1..(j - 1) :
                                               Live(k) /\ headers[k].key = headers[j].key}}

validateTemplates(route, body) ==
  LET P == {body.names[i] : i \in DOMAIN body.names}
  IN (IF body.open # body.close THEN {<<"error", "template">>} ELSE {})
     \union {<<"error", "unknown parameter">> :
               p \in {q \in P : q[1] = "param" /\ q[2] \notin Names(route.path)}}
     \union {<<"error", "query name">> : p \in {q \in P : q[1] = "query" /\ q[2] = ""}}
     \union {<<"warning", "unknown placeholder">> : p \in {q \in P : q[1] = "other"}}

enabledHeader(headers, name) ==
  \E i \in DOMAIN headers : headers[i].enabled /\ headers[i].key = name /\ headers[i].value = "json"

validateBody(route) ==
  LET typed == enabledHeader(route.headers, "content-type") /\ ~route.body.blank
  IN (IF route.body.bytes > MaxBody THEN {<<"error", "body size">>} ELSE {})
     \union validateTemplates(route, route.body)
     \union (CASE typed /\ route.body.names # <<>> -> {<<"warning", "templated JSON">>}
               [] typed /\ route.body.names = <<>> /\ ~route.body.json -> {<<"error", "JSON">>}
               [] OTHER -> {})

\* What is said of a response, the route's own or an item of its sequence.
ResponseWarnings(route, item) ==
  (IF route.method = "HEAD" /\ ~item.body.blank THEN {<<"warning", "HEAD body">>} ELSE {})
  \union (IF item.status \in Bodyless /\ ~item.body.blank THEN {<<"warning", "status body">>} ELSE {})
  \union (IF item.latencyMs > MaxLatency THEN {<<"warning", "latency">>} ELSE {})

\* The body of an item is not parsed, whatever its content type.
validateSequences(route) ==
  UNION {LET item == route.sequences[i]
         IN validateHeaders(item.headers)
            \union (IF item.body.bytes > MaxBody THEN {<<"error", "body size">>} ELSE {})
            \union validateTemplates(route, item.body)
            \union ResponseWarnings(route, item) : i \in DOMAIN route.sequences}

\* An expression that its source cannot have is marked bad: a header name
\* that is no token, a parameter with =, &, ? or #, a path beyond the simple
\* JSON path.
ConditionIssues(route, c) ==
  (IF c.expression = "" THEN {<<"error", "expression">>} ELSE {})
  \union (IF c.expression # "" /\ c.bad THEN {<<"error", c.source>>} ELSE {})
  \union (IF c.source = "bodyJsonPath" /\ route.method \in {"GET", "HEAD"}
          THEN {<<"warning", "no body">>} ELSE {})
  \union (IF c.matcher # "exists" /\ c.expected = "" THEN {<<"error", "expected">>} ELSE {})
  \union (IF c.matcher \in {"gt", "lt"} /\ c.expected # "" /\ ~c.numeric THEN {<<"error", "numeric">>} ELSE {})
  \union (IF c.matcher = "matches" /\ ~c.compiles THEN {<<"error", "regular expression">>} ELSE {})

validateConditions(route) ==
  (IF Len(route.conditions) > MaxConditions THEN {<<"error", "conditions">>} ELSE {})
  \union UNION {ConditionIssues(route, route.conditions[i]) : i \in DOMAIN route.conditions}

routeShape(path) == [i \in DOMAIN path.parts |-> IF path.parts[i][1] = ":" THEN ":" ELSE path.parts[i][2]]

\* The sorted text of the conditions: how often each of them occurs.
conditionSignature(conditions) ==
  LET Key(c) == <<c.source, c.expression, c.matcher, c.expected>>
      keys == {Key(conditions[i]) : i \in DOMAIN conditions}
  IN {<<k, Count(conditions, LAMBDA c : Key(c) = k)>> : k \in keys}

routeKey(route) == <<route.method, routeShape(route.path), conditionSignature(route.conditions)>>

ConfigBytes(routes) == FoldLeft(LAMBDA n, r : n + r.body.bytes, 0, routes)

\* An id is required, and not one of a route before.
IdIssues(list, i) ==
  IF list[i].id = 0 \/ \E j \in 1..(i - 1) : list[j].id = list[i].id THEN {<<"error", "id">>} ELSE {}

\* The issues of each route, and those of the list under 0.
validateMockRoutes(routes) ==
  LET Overlap(i) == /\ routes[i].enabled
                    /\ \E j \in 1..(i - 1) : routes[j].enabled /\ routeKey(routes[j]) = routeKey(routes[i])
  IN [i \in 0..Len(routes) |->
        IF i = 0
        THEN (IF ConfigBytes(routes) > MaxConfig THEN {<<"error", "size">>} ELSE {})
             \union (IF Len(routes) > MaxRoutes THEN {<<"error", "routes">>} ELSE {})
        ELSE IdIssues(routes, i) \union validatePathPattern(routes[i].path) \union validateHeaders(routes[i].headers)
             \union validateBody(routes[i]) \union validateConditions(routes[i])
             \union validateSequences(routes[i]) \union ResponseWarnings(routes[i], routes[i])
             \union (IF Overlap(i) THEN {<<"warning", "overlap">>} ELSE {})]

Valid(routes) ==
  LET issues == validateMockRoutes(routes)
  IN \A i \in DOMAIN issues : \A issue \in issues[i] : issue[1] = "warning"

(* ---- matching ---- *)

\* Of two parameters with one name the last one counts.
matchPath(pattern, path) ==
  LET P == pattern.parts
      matched == Len(P) = Len(path) /\ \A i \in DOMAIN P : P[i][1] = ":" \/ P[i][1] = path[i][1]
      Latest(n) == CHOOSE i \in DOMAIN P : P[i] = <<":", n>> /\ \A j \in (i + 1)..Len(P) : P[j] # P[i]
  IN [matched |-> matched,
      params |-> IF matched THEN [n \in Names(pattern) |-> path[Latest(n)][3]] ELSE <<>>]

mockConditionActual(c, request) ==
  LET from == CASE c.source = "header" -> request.headers
                [] c.source = "query" -> request.query
                [] OTHER -> request.json
  IN IF c.expression \in DOMAIN from THEN from[c.expression] ELSE Absent

compareMockValues(actual, expected, matcher) ==
  /\ actual # Absent
  /\ CASE matcher = "exists" -> TRUE
       [] matcher = "notEquals" -> actual # expected
       [] matcher = "contains" -> Includes(actual, expected)
       [] matcher = "matches" -> Accepts(expected, actual)
       [] matcher = "gt" -> Less(expected, actual)
       [] matcher = "lt" -> Less(actual, expected)
       [] OTHER -> actual = expected

mockConditionsMatch(conditions, request) ==
  \A i \in DOMAIN conditions :
    compareMockValues(mockConditionActual(conditions[i], request), conditions[i].expected,
                      conditions[i].matcher)

\* The index of the first route that matches, 0 if there is none.
findMockRouteMatch(routes, request) ==
  LET hits == {i \in DOMAIN routes : /\ routes[i].enabled /\ routes[i].method = request.method
                                     /\ matchPath(routes[i].path, request.path).matched
                                     /\ mockConditionsMatch(routes[i].conditions, request)}
  IN IF hits = {} THEN 0 ELSE CHOOSE i \in hits : \A j \in hits : i <= j

\* The placeholders of a body, filled in; a name nobody knows is left as it is.
renderMockTemplate(body, params, query) ==
  [i \in DOMAIN body.names |->
     LET p == body.names[i]
         Of(f) == IF p[2] \in DOMAIN f THEN f[p[2]] ELSE ""
     IN CASE p[1] = "param" -> <<"text", Of(params)>>
          [] p[1] = "query" -> <<"text", Of(query)>>
          [] p[1] = "known" -> <<"text", "generated">>
          [] OTHER -> p]
=============================================================================
