----------------------------- MODULE MCDocuments -----------------------------
(***************************************************************************)
(* What the program reads and writes as documents: flows that are          *)
(* validated, collections that are exported and imported, stored data that *)
(* is upgraded, schemas that are imported.  A behaviour picks an input of  *)
(* one area of a small grammar, and the invariants compare what the        *)
(* functions make of it with a reference; or it is one of the GraphQL      *)
(* panel and its schema.                                                   *)
(***************************************************************************)
EXTENDS FlowValidation, InvokeYaml, GraphQLSchema

CONSTANTS NETWORK_OPTION_KEYS, NoOptions

VARIABLES area, input

vars == <<area, input, schemaVars>>

I == INSTANCE Importers

CallSymmetry == Permutations(SchemaCalls)

UpTo(S, n) == UNION {[1..k -> S] : k \in 0..n}

(* ---- texts ---- *)

MCTexts == {"", " ", "x", " x ", "1", "0", "2", "{{v}}", "http://h", "$.a", "$[", "(", "{}", "[]", "break", "long"}
MCTrimmed == [t \in MCTexts |-> IF t = " " THEN "" ELSE IF t = " x " THEN "x" ELSE t]
MCLower == MCTrimmed
NamesInOrder == <<"a", "A", "a 2", "b", "collection", "folder">>
MCSlug == [n \in ToSet(NamesInOrder) |-> CASE n = "a 2" -> <<"a", "2">> [] n = "A" -> <<"a">> [] OTHER -> <<n>>]
MCNameOrder == [n \in ToSet(NamesInOrder) |-> CHOOSE i \in DOMAIN NamesInOrder : NamesInOrder[i] = n]
MCTrim == [k \in {"", " ", "k", " k", "m"} |-> IF k = " " THEN "" ELSE IF k = " k" THEN "k" ELSE k]

(* ---- flows ---- *)

Cond(source, matcher, expression, expected) ==
  [source |-> source, matcher |-> matcher, expression |-> expression, expected |-> expected]
Status == Cond("status", "equals", "", "1")
OfVariable == Cond("variable", "exists", "x", "")

PlainRequest ==
  [url |-> "http://h", method |-> "GET", timeoutMs |-> 1, bodyMode |-> "none", body |-> "",
   headers |-> <<>>, params |-> <<>>, assertions |-> <<>>, extractionRules |-> <<>>]
Req(id, goOn) == [id |-> id, name |-> "n", type |-> "request", request |-> PlainRequest, continueOnFailure |-> goOn]
Delay(id) == [id |-> id, name |-> "n", type |-> "delay", delayMs |-> 1]
Branch(id, c, then, else) ==
  [id |-> id, name |-> "n", type |-> "condition", condition |-> c, thenSteps |-> then, elseSteps |-> else]
Loop(id, steps, c, count, most) ==
  [id |-> id, name |-> "n", type |-> "loop", steps |-> steps, condition |-> c, conditionMode |-> "until",
   count |-> count, maxIterations |-> most]

Nests == {<<>>, <<Req("d", FALSE)>>, <<Delay("a")>>, <<Branch("d", Status, <<Req("e", TRUE)>>, <<>>)>>,
          <<Req("d", TRUE), Branch("e", Status, <<>>, <<>>)>>}
StepsOf(id) ==
  {Req(id, TRUE), Req(id, FALSE), Delay(id)}
    \union {Branch(id, c, t, e) : c \in {Status, OfVariable}, t \in Nests, e \in Nests \union {Undefined}}
    \union {Loop(id, s, c, n, m) : s \in Nests, c \in {Status, Undefined}, n \in {Undefined, 0, 2}, m \in {Undefined, 1}}
Flows ==
  {[name |-> "n", steps |-> s] :
     s \in {<<>>} \union {<<a>> : a \in StepsOf("a")} \union {<<a, b>> : a \in StepsOf("a"), b \in StepsOf("b")}
             \union {<<Req("b", TRUE), Branch("c", OfVariable, t, <<>>), b>> : t \in Nests, b \in StepsOf("a")}}

Issues == validateFlow(input, TRUE)

\* A flow that validates is one that FlowRunner's assumptions are about: no two
\* of its steps, at whatever depth, share an id, every step is of a known type
\* and every loop makes between one and MaxIterations iterations.
ValidFlowsRun ==
  (area = "flow" /\ valid(Issues)) =>
    LET visits == Visits(input.steps, 1, FALSE)
        most(s) == IF s.maxIterations = Undefined THEN MaxIterations ELSE s.maxIterations
    IN /\ \A i, j \in DOMAIN visits : visits[i].step.id = visits[j].step.id => i = j
       /\ \A i \in DOMAIN visits : LET s == visits[i].step IN
            /\ s.type \in STEP_TYPES
            /\ s.type = "loop" => /\ most(s) \in 1..MaxIterations
                                  /\ s.count # Undefined => s.count \in 1..MaxIterations
                                  /\ s.condition = Undefined => s.count # Undefined \/ s.maxIterations # Undefined

(* The runs of a flow: sequences of results and of conditions evaluated,   *)
(* with the responses they could see.  A reference for FlowRunner's order. *)
Result(id, kind, response, failed) == [id |-> id, kind |-> kind, response |-> response, failed |-> failed]
Results(t) == SelectSeq(t, LAMBDA e : e.kind # "check")
LastResponse(t) == IF Results(t) = <<>> THEN FALSE ELSE Results(t)[Len(Results(t))].response
Check(t, id) == Append(t, Result(id, "check", LastResponse(t), FALSE))

RECURSIVE RunSteps(_, _)
RECURSIVE RunStep(_, _)
RECURSIVE RunLoop(_, _, _)
RunLoop(s, t, left) ==
  LET checked == IF s.condition = Undefined THEN t ELSE Check(t, s.id)
  IN (IF left = 0 THEN {t} ELSE UNION {RunLoop(s, u, left - 1) : u \in RunSteps(List(s.steps), checked)})
       \union (IF s.condition = Undefined \/ left = 0 THEN {} ELSE {checked})
RunStep(s, t) ==
  CASE s.type = "request" ->
         {Append(t, Result(s.id, "request", r, f)) : r \in {TRUE}, f \in BOOLEAN}
           \union {Append(t, Result(s.id, "request", FALSE, TRUE))}
    [] s.type = "delay" -> {Append(t, Result(s.id, "delay", FALSE, FALSE))}
    [] s.type = "condition" ->
         LET u == Append(Check(t, s.id), Result(s.id, "condition", FALSE, FALSE))
         IN RunSteps(List(s.thenSteps), u) \union RunSteps(List(s.elseSteps), u)
    [] OTHER ->
         {Append(u, Result(s.id, "loop", FALSE, FALSE)) :
            u \in RunLoop(s, t, IF s.maxIterations = Undefined THEN 2 ELSE s.maxIterations)}
RunSteps(steps, t) ==
  IF steps = <<>> THEN {t}
  ELSE LET s == Head(steps)
           stops(u) == s.type = "request" /\ u[Len(u)].failed /\ ~s.continueOnFailure
       IN UNION {IF stops(u) THEN {u} ELSE RunSteps(Tail(steps), u) : u \in RunStep(s, t)}

Unwarned == {Visits(input.steps, 1, FALSE)[i].step.id : i \in
               {j \in DOMAIN Issues \ {0} : Warning("no response") \notin Issues[j]}}

\* When a condition about a response is evaluated that the validator did not
\* warn about, some request of the flow was made before it, whatever branches
\* were taken, iterations made and failures tolerated.
UnwarnedFollowRequests ==
  (area = "flow" /\ valid(Issues)) =>
    \A t \in RunSteps(input.steps, <<>>) : \A i \in DOMAIN t :
      LET of == {v.step : v \in Rows(Visits(input.steps, 1, FALSE))}
          s == CHOOSE x \in of : x.id = t[i].id
      IN (t[i].kind = "check" /\ t[i].id \in Unwarned /\ conditionNeedsResponse(s.condition)) =>
           \E j \in 1..(i - 1) : t[j].kind = "request"

\* ... and it sees the response of that request: the warning is given when, and
\* only when, there is none.
UnwarnedSeeResponses ==
  (area = "flow" /\ valid(Issues)) =>
    \A t \in RunSteps(input.steps, <<>>) : \A i \in DOMAIN t :
      LET of == {v.step : v \in Rows(Visits(input.steps, 1, FALSE))}
          s == CHOOSE x \in of : x.id = t[i].id
      IN (/\ t[i].kind = "check" /\ t[i].id \in Unwarned /\ conditionNeedsResponse(s.condition)
          /\ \A j \in 1..(i - 1) : t[j].kind = "request" => t[j].response) => t[i].response

(* ---- conditions and assertions ---- *)

Conditions ==
  [source : {"variable", "status", "header", "bodyJsonPath", "cookie"},
   matcher : MATCHERS \union {"is"}, expression : MCTexts \ {"long"}, expected : {"", " ", "x", "1", "(", "{{v}}"}]
Numerals == {"0", "1", "2"}
Order == {<<"0", "1">>, <<"0", "2">>, <<"1", "2">>}
Same == {<<t, t>> : t \in MCTexts}
Actuals(c) == IF c.source = "status" THEN Numerals ELSE MCTexts
Worlds(c) ==
  [variables : {<<>>} \union [{"x"} -> MCTexts],
   response : {Undefined} \union {[status |-> a, headers |-> [h \in {"x", "1", "0", "2"} |-> a],
                                   body |-> [p \in {"$.a"} |-> a]] : a \in Actuals(c)}]
Holds(c, w) == compare(conditionActual(c, w.variables, w.response), c.expected, c.matcher, Order, Same, Same)

\* A condition that validates without an error is a question: on some values of
\* variables and responses it holds and on others it does not.  (Not for names
\* with blanks around them, which are trimmed for the validation alone, and not
\* for a status that is compared with what is no number.)
ValidConditionsAsk ==
  (area = "condition" /\ \A i \in validateCondition(input, TRUE) : i.level # "error") =>
    \/ MCTrimmed[input.expression] # input.expression
    \/ input.source = "status" /\ input.matcher # "exists" /\ input.expected \notin Numerals
    \/ {Holds(input, w) : w \in Worlds(input)} = BOOLEAN

(* ---- collections ---- *)

Own == "c"
FolderIds == <<"f1", "f2", "f3">>
\* A parent comes before its children in the list: every forest of three folders.
Parents(i) == {None} \union {FolderIds[j] : j \in 1..(i - 1)}
FolderOf(i, parent, name, order) ==
  [id |-> FolderIds[i], collectionId |-> Own, parentFolderId |-> parent, name |-> name,
   variables |-> <<>>, sortOrder |-> order]
Forests ==
  {<<FolderOf(1, None, n[1], o[1]), FolderOf(2, p, n[2], o[2]), FolderOf(3, q, n[3], o[3])>> :
     n \in [1..3 -> {"A", "a", "a 2"}], o \in [1..3 -> {1, 2}], p \in Parents(2), q \in Parents(3)}

RestRequest(rows, mode) ==
  [method |-> "GET", url |-> "u", params |-> rows, headers |-> rows, auth |-> "auth", bodyMode |-> mode,
   body |-> IF mode = "none" THEN "" ELSE "body", variables |-> rows]
GraphRequest(rows, q) == [url |-> "u", headers |-> rows, auth |-> "auth", query |-> q, variables |-> "{}"]
GrpcRequest(rows, tls) ==
  [address |-> "a", service |-> "s", method |-> "m", metadata |-> rows, body |-> "{}", tls |-> tls, auth |-> "auth"]
SavedIn(folder, name, protocol, request) ==
  [id |-> "r", collectionId |-> Own, folderId |-> folder, name |-> name, protocol |-> protocol, request |-> request]

Collections ==
  {[folders |-> fs, requests |-> <<SavedIn(f, n, "rest", RestRequest(<<>>, "json")),
                                   SavedIn(g, "a", "grpc", GrpcRequest(<<>>, TRUE))>>] :
     fs \in Forests, f \in {None, "f1", "f2", "f3"}, g \in {"f3"}, n \in {"a", "a 2", "folder"}}
   \union {[folders |-> <<>>, requests |-> [i \in DOMAIN ns |-> SavedIn(None, ns[i], "rest", RestRequest(<<>>, "json"))]] :
             ns \in UpTo({"A", "a", "a 2", "b"}, 4) \union UpTo({"a", "collection", "folder"}, 3)}
Imported(requests, folders) ==
  importedFromDocuments(exportCollectionZip([id |-> Own, name |-> "b", variables |-> <<>>], requests, folders))

RECURSIVE NamesUp(_, _)
\* The names on the way to a folder, whatever its ids are.
NamesUp(folder, folders) ==
  IF folder = None THEN <<>>
  ELSE LET f == ById(folders, folder) IN Append(NamesUp(f.parentFolderId, folders), f.name)

\* What is exported comes back: the name of the collection, as many folders under
\* the same parents, and as many requests, each in its folder, however the names
\* collide, in the root and below it, and with names that look numbered already.
SameTree(now, sorted) ==
  LET index(id, folders) == IF id = None THEN 0 ELSE CHOOSE i \in DOMAIN folders : folders[i].id = id
  IN /\ now.collection.name = "b"
     /\ Len(now.folders) = Len(sorted) /\ Len(now.requests) = Len(input.requests)
     /\ \A i \in DOMAIN sorted :
          /\ now.folders[i].name = sorted[i].name
          /\ index(now.folders[i].parentFolderId, now.folders) = index(sorted[i].parentFolderId, sorted)
     /\ \A i \in DOMAIN input.requests :
          /\ now.requests[i].name = input.requests[i].name
          /\ index(now.requests[i].folderId, now.folders) = index(input.requests[i].folderId, sorted)

\* The folders (or the collection, None) whose own file a request overwrites:
\* one called "folder" in a folder, one called "collection" in the root.
Overwritten ==
  {r.folderId : r \in {x \in ToSet(input.requests) :
                        Words(x.name) = IF x.folderId = None THEN CollectionFile ELSE FolderFile}}

\* The tree comes back when no request overwrites the file of a folder or of the
\* collection; and otherwise exactly the overwritten ones are lost, no request
\* and no other folder.
ExportedTreeComesBack ==
  area = "collection" =>
    LET now == Imported(input.requests, input.folders)
        sorted == sortFoldersForExport(input.folders)
        left == SelectSeq(sorted, LAMBDA f : f.id \notin Overwritten)
    IN IF Overwritten = {} THEN SameTree(now, sorted)
       ELSE /\ [i \in DOMAIN now.folders |-> now.folders[i].name] = [i \in DOMAIN left |-> left[i].name]
            /\ SortedBy([i \in DOMAIN now.requests |-> NameOrder[now.requests[i].name]], <)
                 = SortedBy([i \in DOMAIN input.requests |-> NameOrder[input.requests[i].name]], <)
            /\ now.collection.name = IF None \in Overwritten THEN Default ELSE "b"

RowSeqs == UpTo([key : {"", " k", "k", "m"}, value : {"1", "2"}, enabled : BOOLEAN], 2)
\* The modes the reader does not know.
LostModes == {"file", "graphql-multipart"}
Contents ==
  {SavedIn(None, "a", "rest", RestRequest(rows, mode)) :
     rows \in RowSeqs, mode \in {"none", "json", "raw", "urlencoded", "form-data"} \union LostModes}
   \union {SavedIn(None, "a", "graphql", GraphRequest(rows, q)) : rows \in RowSeqs, q \in {"", "q"}}
   \union {SavedIn(None, "a", "grpc", GrpcRequest(rows, tls)) : rows \in RowSeqs, tls \in BOOLEAN}

\* The rows that are sent: those that are on and have a key, the last of a key.
Effective(rows) ==
  {<<Trim[rows[i].key], rows[i].value>> : i \in
     {j \in DOMAIN rows : /\ rows[j].enabled /\ Trim[rows[j].key] # ""
                          /\ \A k \in (j + 1)..Len(rows) : ~(rows[k].enabled /\ Trim[rows[k].key] = Trim[rows[j].key])}}
RowFields == {"params", "headers", "metadata"}

\* A REST, GraphQL or gRPC request that comes back says the same: the rows that
\* are on, the body and every other field that the format has.  The mode of the
\* body is kept but for two, which come back as "none", and an empty query is
\* replaced.
SaysTheSame(now) ==
  LET kept(f) == CASE f = "query" /\ input.request[f] = "" -> Default
                   [] f = "bodyMode" /\ input.request[f] \in LostModes -> "none"
                   [] OTHER -> input.request[f]
  IN /\ now.protocol = input.protocol
     /\ DOMAIN now.request = DOMAIN input.request
     /\ \A f \in DOMAIN now.request :
          IF f \in RowFields \/ (f = "variables" /\ input.protocol = "rest")
          THEN Effective(now.request[f]) = Effective(input.request[f])
          ELSE now.request[f] = kept(f)
ExportedContentComesBack == area = "content" => SaysTheSame(Imported(<<input>>, <<>>).requests[1])

(* ---- imports ---- *)

\* A collection as another program sees it: folders and requests by number, the
\* parent of each, and the order in which a flat file lists the folders.
Sources ==
  [parent : {p \in [1..3 -> 0..3] : \A i \in 1..3 : p[i] < i},
   in : [1..2 -> 0..3], order : {<<1, 2, 3>>, <<2, 3, 1>>, <<3, 2, 1>>}]
Number == <<"1", "2", "3", "4">>
FolderName(i) == "folder " \o Number[i]
RequestName(i) == "request " \o Number[i]

PostmanReq == [type |-> "http", method |-> "GET", url |-> [raw |-> "u", query |-> <<>>], header |-> <<>>,
               auth |-> None, body |-> None]
RECURSIVE PostmanItems(_, _)
PostmanItems(src, at) ==
  LET fs == SelectSeq(<<1, 2, 3>>, LAMBDA i : src.parent[i] = at)
      rs == SelectSeq(<<1, 2>>, LAMBDA i : src.in[i] = at)
  IN [i \in DOMAIN fs |-> [name |-> FolderName(fs[i]), item |-> PostmanItems(src, fs[i]), request |-> None]]
       \o [i \in DOMAIN rs |-> [name |-> RequestName(rs[i]), item |-> None, request |-> PostmanReq]]

HoppReq(i) == [name |-> RequestName(i), method |-> "GET", endpoint |-> "u", params |-> <<>>, headers |-> <<>>,
               auth |-> None, body |-> None]
RECURSIVE HoppNode(_, _)
HoppNode(src, at) ==
  LET fs == SelectSeq(<<1, 2, 3>>, LAMBDA i : src.parent[i] = at)
      rs == SelectSeq(<<1, 2>>, LAMBDA i : src.in[i] = at)
  IN [name |-> IF at = 0 THEN "root" ELSE FolderName(at), requests |-> [i \in DOMAIN rs |-> HoppReq(rs[i])],
      folders |-> [i \in DOMAIN fs |-> HoppNode(src, fs[i])]]

Resource(i) == IF i = 0 THEN "workspace" ELSE "group " \o Number[i]
InsomniaDoc(src) ==
  [name |-> "root",
   resources |-> [k \in 1..3 |-> [type |-> "request_group", id |-> Resource(src.order[k]),
                                  parentId |-> Resource(src.parent[src.order[k]]), name |-> FolderName(src.order[k])]]
     \o [i \in 1..2 |-> [type |-> "request", id |-> RequestName(i), parentId |-> Resource(src.in[i]),
                         name |-> RequestName(i), method |-> "GET", url |-> "u", headers |-> <<>>,
                         authentication |-> None, body |-> None]]]

RECURSIVE Way(_, _)
Way(src, i) == IF i = 0 THEN <<>> ELSE Append(Way(src, src.parent[i]), FolderName(i))
Tree(src) == {<<Append(Way(src, src.parent[i]), FolderName(i)), "folder">> : i \in 1..3}
               \union {<<Append(Way(src, src.in[i]), RequestName(i)), "request">> : i \in 1..2}
\* The same of an import or of what was saved.
TreeOf(result) ==
  {<<NamesUp(f.id, result.folders), "folder">> : f \in {result.folders[i] : i \in DOMAIN result.folders}}
    \union {<<Append(NamesUp(r.folderId, result.folders), r.name), "request">> :
              r \in {result.requests[i] : i \in DOMAIN result.requests}}

PostmanOf(src) == I!importPostmanCollection([name |-> "root", variable |-> <<>>, item |-> PostmanItems(src, 0)])
HoppOf(src) == I!importHoppscotchCollection([collections |-> <<HoppNode(src, 0)>>, environments |-> <<>>])
InsomniaOf(src) == I!importInsomniaExport(InsomniaDoc(src))

\* One collection, written by Postman, Hoppscotch or Insomnia, is imported as the
\* same tree, also when Insomnia lists a folder before its parent.
ImportersKeepTheTree ==
  area = "import" =>
    TreeOf(PostmanOf(input)) = Tree(input) /\ TreeOf(HoppOf(input)) = Tree(input)
      /\ TreeOf(InsomniaOf(input)) = Tree(input)

\* What was imported is what is saved, when every folder comes after its parent.
SavedAsImported ==
  area = "import" =>
    /\ TreeOf(I!persistImported(PostmanOf(input))) = Tree(input)
    /\ TreeOf(I!persistImported(HoppOf(input))) = Tree(input)
    /\ (\A i \in 1..3 : \A j \in 1..3 :
          input.parent[input.order[i]] = input.order[j] => j < i) =>
         TreeOf(I!persistImported(InsomniaOf(input))) = Tree(input)

(* ---- requests of other programs ---- *)

SourceRequests ==
  [method : {"GET", "POST"},
   rows : UpTo([key : {"k", "m"}, value : {"1"}, disabled : BOOLEAN], 2),
   auth : {"none", "bearer", "basic", "key in header", "key in query"},
   body : [kind : {"none", "json", "text"}]]

InQuery(src) == src.auth = "key in query"
PostmanFrom(src) ==
  [type |-> "http", method |-> src.method, url |-> [raw |-> "u", query |-> <<>>],
   header |-> src.rows,
   auth |-> CASE src.auth = "none" -> None
              [] src.auth = "bearer" -> [type |-> "bearer", values |-> [token |-> "t"]]
              [] src.auth = "basic" -> [type |-> "basic", values |-> [username |-> "u", password |-> None]]
              [] OTHER -> [type |-> "apikey", values |-> [key |-> "k", value |-> "v", in |-> IF InQuery(src) THEN "query" ELSE "header"]],
   body |-> IF src.body.kind = "none" THEN None
            ELSE [mode |-> "raw", raw |-> "b", language |-> src.body.kind]]
MimeType(src) == IF src.body.kind = "json" THEN "application/json" ELSE "text/plain"
AddTo(src) == IF InQuery(src) THEN "queryParams" ELSE "headers"
InsomniaFrom(src) ==
  [method |-> src.method, url |-> "u",
   headers |-> [i \in DOMAIN src.rows |-> [name |-> src.rows[i].key, value |-> src.rows[i].value, disabled |-> src.rows[i].disabled]],
   authentication |-> CASE src.auth = "none" -> None
                        [] src.auth = "bearer" -> [type |-> "bearer", token |-> "t"]
                        [] src.auth = "basic" -> [type |-> "basic", username |-> "u", password |-> None]
                        [] OTHER -> [type |-> "apikey", key |-> "k", value |-> "v", addTo |-> AddTo(src)],
   body |-> IF src.body.kind = "none" THEN None ELSE [mimeType |-> MimeType(src), text |-> "b"]]
HoppFrom(src) ==
  [name |-> "n", method |-> src.method, endpoint |-> "u", params |-> <<>>,
   headers |-> [i \in DOMAIN src.rows |-> [key |-> src.rows[i].key, value |-> src.rows[i].value, active |-> ~src.rows[i].disabled]],
   auth |-> CASE src.auth = "none" -> None
              [] src.auth = "bearer" -> [authType |-> "bearer", token |-> "t"]
              [] src.auth = "basic" -> [authType |-> "basic", username |-> "u", password |-> None]
              [] OTHER -> [authType |-> "api-key", key |-> "k", value |-> "v", addTo |-> AddTo(src)],
   body |-> IF src.body.kind = "none" THEN None ELSE [contentType |-> MimeType(src), body |-> "b"]]

\* What a browser recorded of it: no authorization apart, and nothing that is off.
HarFrom(src) ==
  [name |-> "n", entries |-> <<[request |->
    [method |-> src.method, url |-> [base |-> "u", query |-> <<>>], queryString |-> <<>>,
     headers |-> <<[name |-> "host", value |-> "h"]>>
                   \o [i \in DOMAIN src.rows |-> [name |-> src.rows[i].key, value |-> src.rows[i].value]],
     postData |-> IF src.body.kind = "none" THEN None
                  ELSE [mimeType |-> MimeType(src), params |-> <<>>, text |-> "b"]]]>>]

\* One request, written by Postman, Insomnia, Hoppscotch or a browser, is imported as the
\* same request: headers that are off stay off, the credentials go where they
\* went, and the body keeps its kind.
ImportersAgree ==
  area = "request" =>
    LET p == I!postmanRequest(PostmanFrom(input))
    IN /\ p = I!insomniaRequest(InsomniaFrom(input))
       /\ p = I!hoppscotchRequest(None, HoppFrom(input)).request
       /\ (input.auth = "none" /\ \A i \in DOMAIN input.rows : ~input.rows[i].disabled) =>
            p = I!importHarFile(HarFrom(input)).requests[1].request
       /\ p.bodyMode = CASE input.body.kind = "text" -> "raw" [] OTHER -> input.body.kind
       /\ Len(SelectSeq(p.headers, LAMBDA h : h.enabled)) = Len(SelectSeq(input.rows, LAMBDA r : ~r.disabled))
       /\ (p.auth.type = "none") = (input.auth = "none")

(* ---- commands ---- *)

CommandRows == UpTo([key : {"authorization", "k"}, value : [bearer : BOOLEAN, text : {"1"}], enabled : {TRUE}], 2)
Commands ==
  [kind : {"curl", "grpcurl"}, method : {"GET", "POST"}, rows : CommandRows, body : {"", "b"}, tls : BOOLEAN]

\* The tokens of the snippets of the program itself (generateCurl, generateGrpcurl).
HeaderTokens(flag, rows) == FlattenSeq([i \in DOMAIN rows |-> <<I!Flag(flag), I!Pair(rows[i].key, rows[i].value)>>])
Tokens(c) ==
  IF c.kind = "curl"
  THEN <<I!Word("curl"), I!Flag("-X"), I!Word(c.method), I!Word("u")>> \o HeaderTokens("-H", c.rows)
         \o (IF c.body = "" THEN <<>> ELSE <<I!Flag("--data-raw"), I!Word(c.body)>>)
  ELSE <<I!Word("grpcurl")>> \o (IF c.tls THEN <<>> ELSE <<I!Flag("-plaintext")>>) \o HeaderTokens("-rpc-header", c.rows)
         \o (IF c.body = "" THEN <<>> ELSE <<I!Flag("-d"), I!Word(c.body)>>) \o <<I!Word("a"), I!Pair("s", "m")>>

\* The headers a request is sent with: its own and the one its auth adds.
SentRows(rows, auth) ==
  {<<r.key, r.value>> : r \in Rows(rows)}
    \union IF auth.type = "bearer" THEN {<<"authorization", I!Value(TRUE, auth.token)>>} ELSE {}

\* A command that the program wrote is read back as what it was written for: the
\* same headers are sent, a bearer token once, and the method and the body stay.
\* (A GET with a body is the exception: curl's --data makes it a POST.)
CommandsReadBack ==
  area = "command" =>
    IF input.kind = "curl"
    THEN LET r == I!parseCurl(Tokens(input))
         IN /\ SentRows(r.headers, r.auth) = SentRows(input.rows, [type |-> "none"])
            /\ r.body = input.body /\ r.url = "u"
            /\ input.method = "POST" \/ input.body = "" => r.method = input.method
            /\ r.auth.type = "bearer" => Len(r.headers) = Len(input.rows) - 1
    ELSE LET r == I!parseGrpcurl(Tokens(input))
         IN /\ SentRows(r.metadata, r.auth) = SentRows(input.rows, [type |-> "none"])
            /\ r.body = IF input.body = "" THEN "{}" ELSE input.body
            /\ <<r.address, r.service, r.method, r.tls>> = <<"a", "s", "m", input.tls>>

(* ---- OpenAPI ---- *)

ApiRequest(segments, method, params, headers, body) ==
  [url |-> [segments |-> segments], method |-> method, params |-> params, headers |-> headers,
   bodyMode |-> IF body = None THEN "none" ELSE "json", body |-> body]
ApiRow(key, on) == [key |-> key, value |-> "1", enabled |-> on]
ApiRequests ==
  {[name |-> "n", protocol |-> "rest", folder |-> f, request |-> ApiRequest(s, m, p, h, b)] :
     f \in {None, "t"}, s \in {<<I!Text("a")>>, <<I!Text("a"), I!Var("id")>>}, m \in {"get", "post"},
     p \in {<<>>, <<ApiRow("q", TRUE)>>, <<ApiRow("q", FALSE)>>},
     h \in {<<>>, <<ApiRow("accept", TRUE), ApiRow("k", TRUE)>>}, b \in {None, I!Scalar("string")}}
Apis == {<<a, b>> : a \in ApiRequests, b \in ApiRequests}

KeysOn(rows, skip) == {r.key : r \in {x \in Rows(rows) : x.enabled}} \ skip
Place(r) == <<r.request.url.segments, r.request.method>>

\* An OpenAPI export is imported as the requests it was made of, those that
\* another one with its path and method does not hide: under its folder, with
\* its query and headers, with its path variables after base_url, and with an
\* example of its body.
OpenApiComesBack ==
  (area = "api" /\ Place(input[1]) # Place(input[2])) =>
    LET now == I!importOpenApiSpec(I!exportCollectionAsOpenApi("n", input)).requests
        of(r) == <<r.folder, Place(r), KeysOn(r.request.params, {}), KeysOn(r.request.headers, I!SKIP_HEADERS), r.request.body>>
        back(r) == <<r.folder, <<Tail(r.request.url), r.request.method>>, KeysOn(r.request.params, {}),
                     KeysOn(r.request.headers, {}), r.request.body>>
    IN /\ {back(r) : r \in Rows(now)} = {of(r) : r \in Rows(input)} /\ Len(now) = 2
       /\ \A r \in Rows(now) : Head(r.request.url) = I!BaseUrl

(* ---- schemas ---- *)

Nodes == {"r", "p", "q"}
Schema(type, properties, items, allOf) ==
  [type |-> type, properties |-> properties, items |-> items, allOf |-> allOf, example |-> None]
Schemas ==
  {Schema("string", <<>>, None, <<>>)}
    \union {Schema("object", f, None, <<>>) : f \in UNION {[D -> Nodes] : D \in SUBSET {"x", "y"}}}
    \union {Schema("array", <<>>, n, <<>>) : n \in Nodes}
    \union {Schema(None, f, None, a) : f \in {<<>>, [k \in {"x"} |-> "q"]}, a \in {<<"p">>, <<"q", "p">>}}
Graphs == [Nodes -> Schemas]

\* A key that two schemas of one object give is an object in both or in neither.
KeysAgree(g) ==
  \A n, m \in Nodes : \A k \in DOMAIN g[n].properties \intersect DOMAIN g[m].properties :
    I!TypeOf(g[g[n].properties[k]]) = I!TypeOf(g[g[m].properties[k]])

RECURSIVE Fits(_, _, _, _)
\* v has all that schema n asks for; a schema below itself asks for nothing.
Fits(g, v, n, above) ==
  LET s == g[n]
      down(w, m) == Fits(g, w, m, above \union {n})
  IN \/ n \in above
     \/ I!TypeOf(s) \in {"string"} /\ v = I!Scalar("string")
     \/ I!TypeOf(s) = "array" /\ v.kind = "array" /\ down(v.of[1], s.items)
     \/ /\ I!TypeOf(s) = "object" /\ v.kind = "object"
        /\ \A k \in DOMAIN s.properties : k \in DOMAIN v.of /\ down(v.of[k], s.properties[k])
        /\ \A i \in DOMAIN s.allOf : I!TypeOf(g[s.allOf[i]]) = "object" => down(v, s.allOf[i])

\* The example body of an operation has everything that its schema asks for,
\* through references, arrays and allOf, although schemas may refer to
\* themselves and the same schema may be met many times.
ExamplesAreComplete ==
  (area = "schema" /\ KeysAgree(input)) => Fits(input, I!exampleFromSchema(input, "r", {}), "r", {})

(* ---- stored data of an older version ---- *)

Options == {NoOptions} \union UNION {[D -> {1}] : D \in SUBSET {"proxy", "cookies"}}
OldRequest(o) == [type |-> "request", request |-> [url |-> "u", options |-> o]]
OldSteps == {OldRequest(o) : o \in Options} \union {[type |-> "delay", delayMs |-> 1]}
OldNested ==
  {[type |-> "condition", thenSteps |-> <<a>>, elseSteps |-> <<b>>] : a \in OldSteps, b \in OldSteps}
    \union {[type |-> "condition", thenSteps |-> <<>>] : a \in {1}}
    \union {[type |-> "loop", steps |-> <<a, [type |-> "loop", steps |-> <<b>>]>>] : a \in OldSteps, b \in OldSteps}
OldTables ==
  {[requests |-> {[id |-> "r", request |-> [url |-> "u", options |-> o]]},
    history |-> {[id |-> "h", request |-> [url |-> "u", options |-> o]]},
    flows |-> {[id |-> "f", steps |-> <<s, t>>]}] :
     o \in Options, s \in OldSteps, t \in OldSteps \union OldNested}

RECURSIVE RequestsOf(_)
RequestsOf(steps) ==
  FlattenSeq([i \in DOMAIN steps |->
    LET s == steps[i]
        of(f) == IF f \in DOMAIN s THEN RequestsOf(s[f]) ELSE <<>>
    IN IF s.type = "request" THEN <<s.request>> ELSE of("thenSteps") \o of("elseSteps") \o of("steps")])
Everything(tables) ==
  {<<r.id, <<r.request>>>> : r \in tables.requests \union tables.history}
    \union {<<f.id, RequestsOf(f.steps)>> : f \in tables.flows}
Kept(options) == IF options = NoOptions THEN {} ELSE {<<k, options[k]>> : k \in DOMAIN options}

\* The settings' options of a protocol.
Defaults == [k \in NETWORK_OPTION_KEYS |-> 2]

\* After the upgrade every stored request, however deep in a flow, is sent with
\* the options of the settings; every other option it has is kept, and a second upgrade changes
\* nothing.
UpgradedOnce ==
  area = "upgrade" =>
    LET now == I!migrateNetworkOptionsToDefaults(input)
    IN /\ \A e \in Everything(now) : \E old \in Everything(input) :
            /\ e[1] = old[1] /\ Len(e[2]) = Len(old[2])
            /\ \A i \in DOMAIN e[2] :
                 LET sent == I!mergeWithDefaults(e[2][i].options, Defaults)
                 IN /\ Kept(e[2][i].options)
                         = {o \in Kept(old[2][i].options) : o[1] \notin NETWORK_OPTION_KEYS}
                    /\ \A k \in NETWORK_OPTION_KEYS : sent[k] = Defaults[k]
       /\ I!migrateNetworkOptionsToDefaults(now) = now

(* ---- stored data of the first version ---- *)

Some(fields) == UNION {[D -> {"given"}] : D \in SUBSET fields}
LegacyTables ==
  [collections : {{c @@ [id |-> "c"]} : c \in Some({"variables", "sortOrder", "createdAt"})},
   requests : {{r @@ [id |-> "r"]} : r \in Some({"method", "headers", "options", "variables", "createdAt"})
                                     \union {r @@ [request |-> "given"] : r \in Some({"protocol", "folderId", "sortOrder", "createdAt"})}},
   history : {{h @@ [id |-> "h"]} : h \in Some({"protocol"})}]

\* Nothing that was stored is lost on the way from version 1: every field of a
\* request is where the program of today reads it, with the value it had, and
\* nowhere else; every record has the fields that later code relies on, in the
\* order of its creation, and what is upgraded twice is as it was after the first
\* time.
LegacyIsKept ==
  area = "legacy" =>
    LET now == I!upgradeTo2(input, "now")
        Legacy(t, record) == t = "requests" /\ "request" \notin DOMAIN record
    IN /\ I!upgradeTo2(now, "later") = now
       /\ \A t \in {"collections", "requests", "history"} : \A old \in input[t] : \E new \in now[t] :
            /\ new.id = old.id
            /\ \A f \in DOMAIN old :
                 CASE Legacy(t, old) /\ f \in I!LegacyFields -> new.request[f] = old[f]
                   [] OTHER -> new[f] = old[f]
            /\ t # "history" => /\ {"sortOrder", "createdAt"} \intersect DOMAIN old # {} => new.sortOrder = "given"
                                /\ {"sortOrder", "createdAt"} \intersect DOMAIN old = {} => new.sortOrder = "now"
            /\ t = "collections" => "variables" \in DOMAIN new
            /\ t # "collections" => "protocol" \in DOMAIN new
            /\ Legacy(t, old) => /\ I!LegacyFields \subseteq DOMAIN new.request
                                 /\ DOMAIN new \intersect I!LegacyFields = {}

(* ---- the runs ---- *)

Init == area \in {"idle", "graphql"} /\ input = None /\ SchemaInit

Pick(name, inputs) == area = "idle" /\ area' = name /\ input' \in inputs /\ UNCHANGED schemaVars

Next ==
  \/ Pick("flow", Flows)
  \/ Pick("condition", Conditions)
  \/ Pick("collection", Collections)
  \/ Pick("content", Contents)
  \/ Pick("import", Sources)
  \/ Pick("request", SourceRequests)
  \/ Pick("command", Commands)
  \/ Pick("api", Apis)
  \/ Pick("schema", Graphs)
  \/ Pick("upgrade", OldTables)
  \/ Pick("legacy", LegacyTables)
  \/ input # None /\ area' = "idle" /\ input' = None /\ UNCHANGED schemaVars
  \/ area = "graphql" /\ SchemaNext /\ UNCHANGED <<area, input>>

Spec == Init /\ [][Next]_vars

\* A flow that validateFlow accepts runs as it is written: its steps are told
\* apart and its loops bounded, a condition about a response that it does not
\* warn about follows a request, and a condition can turn out either way.
ValidFlowsAreSafe == ValidFlowsRun /\ UnwarnedFollowRequests /\ ValidConditionsAsk

\* What the exporters write and the importers read keeps its tree, but for what
\* a request's file overwrites, and its content, but for two modes of the body;
\* an imported schema gives complete examples, and an upgrade of the database
\* keeps the options of every stored request.
DocumentsComeBack ==
  /\ ExportedTreeComesBack /\ ExportedContentComesBack /\ OpenApiComesBack
  /\ ImportersKeepTheTree /\ SavedAsImported /\ ImportersAgree /\ CommandsReadBack
  /\ ExamplesAreComplete /\ UpgradedOnce /\ LegacyIsKept
=============================================================================
