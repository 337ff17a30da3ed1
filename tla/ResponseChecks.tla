--------------------------- MODULE ResponseChecks ---------------------------
(***************************************************************************)
(* What the program does with a response: extraction of variables          *)
(* (packages/core/src/variables), assertions (assertions/index.ts), rules  *)
(* and mocks drafted from it, the comparison of two responses              *)
(* (lib/diff.ts) and of two gRPC messages, its cookies, its entry in the   *)
(* history, a GraphQL answer in parts.  Pure code, an operator per         *)
(* function; then the timings, which take steps.                           *)
(*                                                                         *)
(* A JSON value is a leaf [kind, text] (kind "num", "str", "bool",         *)
(* "null"), an object [kind |-> "obj", of |-> function] or an array        *)
(* [kind |-> "arr", of |-> function of the index, written as a key].       *)
(* Absent is JavaScript's undefined.                                       *)
(***************************************************************************)
EXTENDS Integers, FiniteSets, Sequences, SequencesExt, Functions

CONSTANTS
  ParsedAs,     \* what JSON.parse makes of a text, where it succeeds (external)
  Below,        \* the pairs of texts of numbers in < order (external)
  InText        \* the pairs <<part, text>> of String.includes (external)

Leaf(k, t) == [kind |-> k, text |-> t]
Str(t) == Leaf("str", t)
Absent == Leaf("absent", "")
Null == Leaf("null", "null")

(* ---- extraction: a response is [status, headers, json] ---- *)

\* The first header of a name, whatever its case.
Find(headers, name) ==
  LET of == SelectSeq(headers, LAMBDA h : h.key = name)
  IN IF of = <<>> THEN Absent ELSE Str(of[1].value)

\* The value a JSONPath selects: the path is a key of the body.
JSONPath(json, path) ==
  IF json.kind = "obj" /\ path \in DOMAIN json.of THEN json.of[path] ELSE Absent

extractValue(response, source, expression) ==
  CASE source = "status" -> response.status
    [] source = "header" -> Find(response.headers, expression)
    [] OTHER -> IF response.json = Null THEN Absent
                ELSE JSONPath(response.json, expression)

\* The fallback stands in for undefined and for null.
Extracted(response, rule) ==
  LET v == extractValue(response, rule.source, rule.expression)
  IN IF v \in {Absent, Null} THEN rule.fallback ELSE v

extractVariables(response, rules) ==
  LET on == SelectSeq(rules, LAMBDA r : r.enabled /\ r.variableName # ""
                                        /\ Extracted(response, r) # Absent)
  IN [n \in {on[i].variableName : i \in DOMAIN on} |->
        Extracted(response, on[Max({i \in DOMAIN on : on[i].variableName = n})]).text]

(* ---- assertions ---- *)

numericOrString(t) ==
  IF t \in DOMAIN ParsedAs /\ ParsedAs[t].kind = "num" THEN ParsedAs[t] ELSE Str(t)

parseExpected(t) == IF t \in DOMAIN ParsedAs THEN ParsedAs[t] ELSE numericOrString(t)

headerValue(headers, name) == Find(headers, name)

evaluateAssertion(response, a) ==
  CASE a.type = "status" -> [actual |-> response.status, expected |-> numericOrString(a.expected)]
    [] a.type = "header" -> [actual |-> headerValue(response.headers, a.expression),
                             expected |-> Str(a.expected)]
    [] a.type = "bodyJsonPath" -> [actual |-> JSONPath(response.json, a.expression),
                                   expected |-> parseExpected(a.expected)]
    [] OTHER -> [actual |-> Absent, expected |-> Str(a.expected)]

\* normalize: a string as it is, any other value as JSON; undefined is neither.
normalize(v) == IF v = Absent THEN <<>> ELSE <<v.text>>

match(actual, matcher, expected) ==
  CASE matcher = "equals" -> normalize(actual) = normalize(expected)
    [] matcher = "notEquals" -> normalize(actual) # normalize(expected)
    [] matcher = "exists" -> actual \notin {Absent, Null, Str("")}
    [] matcher = "gt" -> <<expected.text, actual.text>> \in Below
    [] matcher = "lt" -> <<actual.text, expected.text>> \in Below
    [] matcher = "contains" -> <<expected.text, actual.text>> \in InText
    [] OTHER -> FALSE

\* A body that is not JSON makes an assertion about it fail, not throw.
runAssertion(response, a) ==
  LET e == evaluateAssertion(response, a)
  IN /\ a.type = "bodyJsonPath" => response.json # Absent
     /\ match(e.actual, a.matcher, e.expected)

runAssertions(response, assertions) ==
  LET on == SelectSeq(assertions, LAMBDA a : a.enabled)
  IN [i \in DOMAIN on |-> runAssertion(response, on[i])]

(* ---- rules, examples and mocks drafted from the response that is shown ---- *)

headerAssertion(h) == [type |-> "header", expression |-> h.key, matcher |-> "equals", expected |-> h.value]
headerExtraction(h, variableName) == [variableName |-> variableName, source |-> "header", expression |-> h.key]
pathAssertion(path) == [type |-> "bodyJsonPath", expression |-> path, matcher |-> "equals", expected |-> ""]
pathExtraction(path, variableName) == [variableName |-> variableName, source |-> "body", expression |-> path]

\* The overlays: a draft with what was edited in it.
Current(draft, edits) == edits @@ draft

addAssertion(rules, draft) == Append(rules, [enabled |-> TRUE] @@ draft)
addExtraction(rules, draft) == Append(rules, [enabled |-> TRUE, fallback |-> Absent] @@ draft)

\* The name of an example that has none is its number in the list.
saveExample(examples, response, name) ==
  Append(examples, [name |-> IF name = "" THEN <<"Example", Len(examples) + 1>> ELSE <<name>>,
                    status |-> response.status, headers |-> response.headers, json |-> response.json])

\* A URL is absolute, with a path, or a text that is none.
responsePath(url) == IF url.absolute THEN (IF url.path = "" THEN "/" ELSE url.path) ELSE url.text

\* The route of a request without a method of its own is one for GET.
createMock(routes, request, response) ==
  Append(routes,
    [method |-> IF request.method = "" THEN "GET" ELSE request.method, pathPattern |-> responsePath(request.url),
     status |-> response.status, json |-> response.json,
     headers |-> SelectSeq(response.headers, LAMBDA h :
                   h.key \notin {"content-encoding", "transfer-encoding", "connection"})])

(* ---- the comparison of two responses ---- *)

Change(type, path) == [type |-> type, path |-> path]
IsObject(v) == v.kind = "obj"
IsArray(v) == v.kind = "arr"
At(v, k) == IF k \in DOMAIN v.of THEN v.of[k] ELSE Absent

\* The keys, or the positions, of either side.
Steps(left, right) == DOMAIN left.of \union DOMAIN right.of

RECURSIVE compareValues(_, _, _)
compareValues(left, right, path) ==
  LET compareValueAt(k) ==
        LET l == At(left, k)
            r == At(right, k)
            p == Append(path, k)
        IN CASE l = Absent /\ r # Absent -> {Change("add", p)}
             [] l # Absent /\ r = Absent -> {Change("remove", p)}
             [] OTHER -> compareValues(l, r, p)
  IN IF left = right THEN {}
     ELSE IF \/ IsArray(left) /\ IsArray(right)
             \/ IsObject(left) /\ IsObject(right)
          THEN UNION {compareValueAt(k) : k \in Steps(left, right)}
          ELSE {Change("change", path)}

compareText(left, right) ==
  {Change(IF i > Len(left) THEN "add" ELSE IF i > Len(right) THEN "remove" ELSE "change", <<"line", i>>) :
     i \in {j \in 1..Max({Len(left), Len(right)}) :
              j > Len(left) \/ j > Len(right) \/ left[j] # right[j]}}

shouldIgnore(path, ignored) == \E p \in ignored : IsPrefix(p, path)

\* Bodies are compared as JSON when both are, line by line otherwise.
compareResponses(left, right, ignored) ==
  LET body == IF left.json # Absent /\ right.json # Absent
              THEN compareValues(left.json, right.json, <<"body">>)
              ELSE compareText(left.lines, right.lines)
      status == IF left.status = right.status THEN {} ELSE {Change("change", <<"status">>)}
  IN {c \in body \union status : ~shouldIgnore(c.path, ignored)}

(* ---- the errors of a GraphQL answer ---- *)

ErrorsOf(answer) ==
  LET errors == At(answer, "errors") IN IF IsArray(errors) THEN {errors.of[i] : i \in DOMAIN errors.of} ELSE {}

\* null has no fields: an item that is null takes the errors of all others with it.
parseGraphQLErrors(json) ==
  LET items == IF IsArray(json) THEN {json.of[i] : i \in DOMAIN json.of} ELSE {json}
      Fields(item) == IF IsObject(item) THEN ErrorsOf(item) ELSE {}
  IN IF Null \in items \/ Absent \in items THEN {} ELSE UNION {Fields(item) : item \in items}

(* ---- the viewer of gRPC responses: what is chosen in it for a comparison ---- *)

ViewerStart == [messages |-> <<>>, selected |-> <<>>, streamDiff |-> FALSE, left |-> "", right |-> "", transcriptDiff |-> FALSE]

\* The messages of a server stream, by position: of three the first is dropped.
toggleStreamDiff(v, i) ==
  [v EXCEPT !.selected = CASE i \in ToSet(@) -> SelectSeq(@, LAMBDA x : x # i)
                           [] i \notin ToSet(@) /\ Len(@) >= 2 -> <<@[2], i>>
                           [] OTHER -> Append(@, i)]
openStreamDiff(v) == [v EXCEPT !.streamDiff = Len(v.selected) = 2 \/ @]
closeStreamDiff(v) == [v EXCEPT !.streamDiff = FALSE]
clearStreamDiff(v) == [v EXCEPT !.selected = <<>>, !.streamDiff = FALSE]
clearStreamMessages(v) == [clearStreamDiff(v) EXCEPT !.messages = <<>>]

\* A message arrives; a call begins: it leaves what is selected.
Arrived(v, m) == [v EXCEPT !.messages = Append(@, m)]
OtherCall(v) == [v EXCEPT !.messages = <<>>]

\* The two messages that are shown side by side, if any.
Compared(v) ==
  IF ~v.streamDiff \/ Len(v.selected) # 2 THEN <<>>
  ELSE [j \in 1..2 |-> IF v.selected[j] \in DOMAIN v.messages THEN v.messages[v.selected[j]] ELSE ""]

\* The messages of a transcript, by their text.
selectForDiff(v, body) ==
  CASE v.left = "" -> [v EXCEPT !.left = body]
    [] v.left # "" /\ v.right = "" -> [v EXCEPT !.right = body, !.transcriptDiff = TRUE]
    [] OTHER -> [v EXCEPT !.left = body, !.right = ""]
resetDiff(v) == [v EXCEPT !.left = "", !.right = ""]
closeTranscriptDiff(v) == [resetDiff(v) EXCEPT !.transcriptDiff = FALSE]
TranscriptCompared(v) ==
  IF v.transcriptDiff /\ v.left # "" /\ v.right # "" THEN <<v.left, v.right>> ELSE <<>>

\* Which part of the store is shown; a log is a number of messages.
GrpcContent(f) ==
  LET bidi == f.clientStream /\ f.serverStream
      clientLog == bidi \/ (f.clientStream /\ f.streaming) \/ f.streamId \/ f.transcript > 0
      serverLog == (f.serverStream /\ ~f.clientStream) \/ (~f.clientStream /\ f.streaming) \/ f.messages > 0
      closed == f.clientStream /\ ~bidi /\ ~f.streamId /\ ~f.streaming /\ f.response
  IN CASE closed -> "response" [] ~closed /\ clientLog -> "transcript"
       [] ~closed /\ ~clientLog /\ serverLog -> "messages"
       [] OTHER -> IF f.response THEN "response" ELSE "placeholder"

\* A tab that has lost its entries gives way to the body.
effectiveTab(activeTab, metadata, assertions) ==
  IF (activeTab = "metadata" /\ metadata = 0) \/ (activeTab = "assertions" /\ assertions = 0) THEN "body" ELSE activeTab

-----------------------------------------------------------------------------
(***************************************************************************)
(* The cookies of a response (cookies/index.ts) and those of the next      *)
(* request.  A host is the sequence of its labels, a path that of its      *)
(* segments; a text without a slash in front is a path that starts with    *)
(* "".                                                                     *)
(***************************************************************************)

NoUrl == [host |-> <<>>, path |-> <<>>, https |-> FALSE]    \* new URL() throws
NaN == -9                                                 \* a value that is no date and no number
Never == -1                                                \* expires is undefined

\* An attribute of a Set-Cookie header: the last one of its kind that can be read counts.
WithAttribute(cookie, attr, now) ==
  CASE attr.key = "domain" /\ attr.value # <<>> ->
         [cookie EXCEPT !.domain = IF attr.value[1] = "" THEN Tail(attr.value) ELSE attr.value]
    [] attr.key = "path" /\ attr.value # <<"">> -> [cookie EXCEPT !.path = attr.value]
    [] attr.key = "secure" -> [cookie EXCEPT !.secure = TRUE]
    [] attr.key = "expires" /\ attr.value # NaN -> [cookie EXCEPT !.expires = attr.value]
    [] attr.key = "max-age" /\ attr.value # NaN ->
         [cookie EXCEPT !.expires = IF attr.value > 0 THEN now + attr.value ELSE 0]
    [] OTHER -> cookie

parseCookieHeaders(headers, url, now) ==
  LET named == SelectSeq(headers, LAMBDA h : h.name # "")
      Of(h) == FoldLeft(LAMBDA c, a : WithAttribute(c, a, now),
                        [name |-> h.name, value |-> h.value, domain |-> url.host, path |-> <<>>,
                         secure |-> FALSE, expires |-> Never], h.attrs)
  IN IF url = NoUrl THEN <<>> ELSE [i \in DOMAIN named |-> Of(named[i])]

matchCookies(cookies, url, now) ==
  {c \in cookies : /\ url # NoUrl
                   /\ c.expires = Never \/ c.expires >= now
                   /\ c.secure => url.https
                   /\ IsSuffix(c.domain, url.host)
                   /\ IsPrefix(c.path, url.path)}

\* buildCookieHeader, without the order of its pairs.
buildCookieHeader(cookies) == {<<c.name, c.value>> : c \in cookies}

\* upsertCookies: a row per domain, path and name.
CookieRow(c) == <<c.domain, c.path, c.name>>
persistResponseCookies(jar, headers, url, now) ==
  FoldLeft(LAMBDA rows, c : {d \in rows : CookieRow(d) # CookieRow(c)} \union {c},
           jar, parseCookieHeaders(headers, url, now))

-----------------------------------------------------------------------------
(***************************************************************************)
(* The history entry of a response: what is stored of it (lib/redact.ts),  *)
(* found again (history/index.ts and the panel's own filter) and restored. *)
(***************************************************************************)
CONSTANT HasToken     \* the header names with the word token in them (external)

REDACTED == "[redacted]"
SENSITIVE_HEADERS ==
  {"authorization", "cookie", "set-cookie", "x-api-key", "proxy-authorization", "x-auth-token"}
SecretTexts ==
  {"password", "token", "clientSecret", "awsSecretAccessKey", "accessToken", "refreshToken", "apiKeyValue"}

isSensitiveKey(key) == key \in SENSITIVE_HEADERS \union HasToken

redactHeaders(rows) ==
  [i \in DOMAIN rows |-> IF isSensitiveKey(rows[i].key) THEN [rows[i] EXCEPT !.value = REDACTED] ELSE rows[i]]

redactAuth(auth) ==
  [f \in DOMAIN auth |-> IF f \in SecretTexts /\ auth[f] # "" THEN REDACTED ELSE auth[f]]

\* A request has headers or, a gRPC one, metadata: one field here, named rows.
redactHistoryEntry(entry) ==
  [entry EXCEPT !.request.rows = redactHeaders(@), !.request.auth = redactAuth(@),
                !.response.headers = redactHeaders(@)]

\* HistoryPanel.restore: of a request with headers, those that were not redacted.
restore(entry) ==
  [entry.request EXCEPT !.rows = IF entry.protocol = "grpc" THEN @
                                 ELSE SelectSeq(@, LAMBDA h : h.value # REDACTED)]

\* The texts of an entry, one per kind of request; a header's name and value are one.
historyHaystack(entry) ==
  LET r == entry.request
  IN {entry.id, r.name, IF entry.protocol = "rest" THEN r.method ELSE entry.protocol, r.body,
      entry.response.body, entry.response.status}
       \union (IF entry.protocol = "grpc" THEN {r.url, r.method} ELSE {r.url})
       \union {r.rows[i].value : i \in DOMAIN r.rows}
       \union {entry.response.headers[i].value : i \in DOMAIN entry.response.headers}

Newest(entries) == SortSeq(entries, LAMBDA l, r : l.createdAt > r.createdAt)

searchHistory(entries, query, limit) ==
  LET found == SelectSeq(Newest(entries), LAMBDA e :
                 query = "" \/ \E t \in historyHaystack(e) : <<query, t>> \in InText)
  IN SubSeq(found, 1, Min({limit, Len(found)}))

matchesHistoryQuery(entry, query) ==
  \E t \in {entry.request.method, entry.request.url, entry.response.status, entry.label} :
    <<query, t>> \in InText

\* Neighbours of one day make a group.
groupHistoryByDate(entries) ==
  FoldLeft(LAMBDA groups, e :
             IF groups # <<>> /\ groups[Len(groups)].label = e.day
             THEN [groups EXCEPT ![Len(groups)].entries = Append(@, e)]
             ELSE Append(groups, [label |-> e.day, entries |-> <<e>>]),
           <<>>, entries)

-----------------------------------------------------------------------------
(***************************************************************************)
(* A GraphQL answer in parts (execute/multipart.ts): @defer sends a first  *)
(* payload and then objects with the paths where they belong.  A section   *)
(* of the body is empty, unreadable, or a payload.                         *)
(***************************************************************************)

NoPath == <<"no path">>

\* The sections after the first delimiter; one that cannot be read keeps its number.
parseMultipartMixed(sections) ==
  LET some == SelectSeq(sections, LAMBDA s : s.kind # "empty")
      Of(i) == LET s == some[i]
               IN CASE s.kind = "unreadable" -> <<>>
                    [] s.kind # "unreadable" /\ i = 1 ->
                         <<[partIndex |-> 0, path |-> NoPath, data |-> s.data, errors |-> s.errors]>>
                    [] OTHER -> IF s.incremental = <<>>
                                THEN <<[partIndex |-> i - 1, path |-> NoPath, data |-> Absent, errors |-> <<>>]>>
                                ELSE [j \in DOMAIN s.incremental |->
                                        s.incremental[j] @@ [partIndex |-> i - 1]]
  IN FlattenSeq([i \in DOMAIN some |-> Of(i)])

Container(v) == v.kind \in {"obj", "arr"}

\* { ...existing, ...data }, or data where there is no object.
Placed(existing, data) ==
  IF Container(existing) THEN [kind |-> "obj", of |-> data.of @@ existing.of] ELSE data

\* A path that leads nowhere changes nothing.
RECURSIVE setAtPath(_, _, _)
setAtPath(root, path, data) ==
  CASE path = <<>> -> Placed(root, data)
    [] path # <<>> /\ (~Container(root) \/ (Len(path) > 1 /\ ~Container(At(root, path[1])))) -> root
    [] OTHER -> [root EXCEPT !.of = (path[1] :> setAtPath(At(root, path[1]), Tail(path), data)) @@ @]

mergeIncrementalParts(parts) ==
  LET first == SelectSeq(parts, LAMBDA p : p.partIndex = 0)
      later == SelectSeq(parts, LAMBDA p : p.partIndex # 0)
      start == IF first = <<>> \/ first[1].data \in {Absent, Null} THEN [kind |-> "obj", of |-> <<>>]
               ELSE first[1].data
      given == SelectSeq(later, LAMBDA p : p.data \notin {Absent, Null} /\ p.path # NoPath)
  IN [data |-> FoldLeft(LAMBDA d, p : setAtPath(d, p.path, p.data), start, given),
      errors |-> (IF first = <<>> THEN <<>> ELSE first[1].errors)
                   \o FlattenSeq([i \in DOMAIN later |-> later[i].errors])]

\* contentType is "mixed" only with the boundary that divides the sections.
processMultipartResponse(response) ==
  LET parts == parseMultipartMixed(response.sections)
  IN IF response.contentType # "mixed" \/ parts = <<>>
     THEN [body |-> response.sections, parts |-> <<>>]
     ELSE [body |-> mergeIncrementalParts(parts), parts |-> parts]

-----------------------------------------------------------------------------
(***************************************************************************)
(* The timings of one request of the executor (traceData, attemptRecord    *)
(* and aggregateTiming in service.go).  Every round trip is traced by      *)
(* hooks that net/http calls, and its phases are computed when it returns  *)
(* and, for the last one, again when the body has been read.               *)
(*                                                                         *)
(* The hooks are external: a connection that is reused calls none of those *)
(* of dialling, several addresses may be dialled at once, and a response   *)
(* may begin before the request was written.  A time is a number, and 0 is *)
(* the zero time.                                                          *)
(***************************************************************************)
CONSTANTS
  MaxClock,        \* bound: the clock
  MaxRoundTrips    \* bound: round trips, the last one and redirects before it

VARIABLE timed     \* the clock, the round trip under way, the records, and the answer

TimingHooks == {"dnsStart", "dnsDone", "connStart", "connDone", "tlsStart", "tlsDone", "wroteRequest", "firstByte"}
newTraceData == [h \in TimingHooks |-> 0]
NoTrip == [start |-> 0, trace |-> newTraceData, orderly |-> TRUE]

TimingStart == [now |-> 1, start |-> 1, trip |-> NoTrip, attempts |-> <<>>, over |-> FALSE, end |-> 0]

-----------------------------------------------------------------------------
(* Phases.                                                                 *)

\* Between two moments, if both were seen, in this order.
elapsed(start, end) == IF start = 0 \/ end = 0 \/ end < start THEN 0 ELSE end - start

nonZero(value, fallback) == IF value = 0 THEN fallback ELSE value

\* A phase: its offset from the start of the round trip, and its duration.
phase(requestStart, start, end) == [startMs |-> elapsed(requestStart, start), durationMs |-> elapsed(start, end)]

phases(r, finishedRead) ==
  <<phase(r.start, r.trace["dnsStart"], r.trace["dnsDone"]),
    phase(r.start, r.trace["connStart"], r.trace["connDone"]),
    phase(r.start, r.trace["tlsStart"], r.trace["tlsDone"]),
    phase(r.start, nonZero(r.trace["wroteRequest"], r.start), r.trace["firstByte"]),
    phase(r.start, r.trace["firstByte"], finishedRead)>>

\* The same durations, without their offsets.
timing(r, finishedRead) == [i \in 1..5 |-> phases(r, finishedRead)[i].durationMs]

\* A record with the timing it has when it is finalized.
finalize(r, at) ==
  [start |-> r.start, trace |-> r.trace, orderly |-> r.orderly,
   phases |-> phases(r, at), timing |-> timing(r, at), total |-> at - r.start]

\* Mutant: the timing of the round trip is kept, which ends with the headers.
finalizeLastAttempt_Headers(attempts, at) == attempts

finalizeLastAttempt(attempts, at) ==
  IF attempts = <<>> THEN attempts
  ELSE [attempts EXCEPT ![Len(attempts)] = finalize(@, at)]

SumOf(s) == FoldFunction(LAMBDA x, y : x + y, 0, s)

\* The phases of all round trips, added up, and the time from first to last.
aggregateTiming(attempts, start, end) ==
  [total |-> end - start, phases |-> SumOf([i \in DOMAIN attempts |-> SumOf(attempts[i].timing)])]

-----------------------------------------------------------------------------
(* A request.                                                              *)

Tick ==
  /\ timed.now < MaxClock /\ ~timed.over
  /\ timed' = [timed EXCEPT !.now = @ + 1]

RoundTripBegins ==
  /\ ~timed.over /\ timed.trip.start = 0 /\ Len(timed.attempts) < MaxRoundTrips
  /\ timed' = [timed EXCEPT !.trip = [NoTrip EXCEPT !.start = timed.now]]

\* The hooks that come before a hook, where they come at all.
Before(h) ==
  CASE h = "dnsStart" -> {} [] h = "dnsDone" -> {"dnsStart"} [] h = "connStart" -> {}
    [] h = "connDone" -> {"connStart"} [] h = "tlsStart" -> {"connDone"} [] h = "tlsDone" -> {"tlsStart"}
    [] OTHER -> {}

\* A hook of the round trip.  orderly is history: each came once, what is begun
\* has ended before the next thing, and the request is written before a response begins.
Trace(h) ==
  LET t == timed.trip.trace
      order == <<"dnsStart", "dnsDone", "connStart", "connDone", "tlsStart", "tlsDone", "wroteRequest", "firstByte">>
      When(e) == SelectInSeq(order, LAMBDA x : x = e)
      open == \E p \in {<<"dnsStart", "dnsDone">>, <<"connStart", "connDone">>, <<"tlsStart", "tlsDone">>} :
                t[p[1]] # 0 /\ t[p[2]] = 0 /\ h # p[2]
  IN /\ timed.trip.start # 0
     /\ \A e \in Before(h) : t[e] # 0
     /\ h \in {"connStart", "connDone"} \/ t[h] = 0
     /\ h \in {"wroteRequest", "firstByte"} \/ t["firstByte"] = 0
     /\ timed' = [timed EXCEPT
          !.trip = [start |-> @.start, trace |-> [t EXCEPT ![h] = timed.now],
                    orderly |-> /\ @.orderly /\ t[h] = 0 /\ ~open
                                /\ h = "firstByte" => t["wroteRequest"] # 0
                                /\ \A e \in TimingHooks : t[e] # 0 => When(e) < When(h)]]

\* RoundTrip of recordingTransport: the record is made when there is a response or an error.
RoundTrip ==
  /\ timed.trip.start # 0
  /\ timed' = [timed EXCEPT !.trip = NoTrip, !.attempts = Append(@, finalize(timed.trip, timed.now))]

\* The body was read to its end, to its limit or to an error; or client.Do failed.
Answered ==
  /\ ~timed.over /\ timed.trip.start = 0 /\ timed.attempts # <<>>
  /\ timed' = [timed EXCEPT !.over = TRUE, !.end = timed.now,
                            !.attempts = finalizeLastAttempt(@, timed.now)]

TimingNext == Tick \/ RoundTripBegins \/ (\E h \in TimingHooks : Trace(h)) \/ RoundTrip \/ Answered

-----------------------------------------------------------------------------
(* Properties.                                                             *)

TimingTypeOK ==
  /\ timed.now \in 1..MaxClock /\ timed.end \in 0..MaxClock /\ timed.over \in BOOLEAN
  /\ timed.trip.trace \in [TimingHooks -> 0..MaxClock]
  /\ \A i \in DOMAIN timed.attempts :
       LET a == timed.attempts[i]
       IN a.phases \in [1..5 -> [startMs : 0..MaxClock, durationMs : 0..MaxClock]] /\ a.total \in 0..MaxClock

\* What is shown of an attempt fits in it, whichever hooks came, in whatever
\* order and how often: every phase begins and ends within it, and nothing
\* that was never seen counts.  The phases of orderly attempts do not overlap:
\* they add up to no more than the time there was, also over all redirects.
PhasesFit ==
  /\ \A i \in DOMAIN timed.attempts :
       LET a == timed.attempts[i]
       IN /\ \A j \in DOMAIN a.phases : a.phases[j].startMs + a.phases[j].durationMs <= a.total
          /\ a.orderly => SumOf(a.timing) <= a.total
  /\ (timed.over /\ \A i \in DOMAIN timed.attempts : timed.attempts[i].orderly) =>
       LET sum == aggregateTiming(timed.attempts, timed.start, timed.end)
       IN sum.phases <= sum.total

\* Reading the body is part of the last attempt, and only of it: it ends with
\* the request, and the others ended before the next one began.
BodyIsTimed ==
  timed.over =>
    \A i \in DOMAIN timed.attempts :
      LET a == timed.attempts[i]
          ended == a.start + a.total
      IN IF i = Len(timed.attempts) THEN ended = timed.end ELSE ended <= timed.attempts[i + 1].start
=============================================================================
