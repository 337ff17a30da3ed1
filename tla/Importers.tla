----------------------------- MODULE Importers ------------------------------
(***************************************************************************)
(* The importers of other programs' files (packages/core/src/import-export)*)
(* and what the UI does with their results (persistImported of             *)
(* useCollectionImport.ts).  Pure code but for the writes of the latter.   *)
(*                                                                         *)
(* A document is a record with the fields that the importer reads, None    *)
(* where the file has none.  An importer returns folders and requests in   *)
(* the order of the code; ids are made by their position.                  *)
(***************************************************************************)
EXTENDS Naturals, Sequences, SequencesExt, FiniteSetsExt, TLC

CONSTANT None

Id(kind, n) == kind \o ToString(n)
Or(value, default) == IF value = None THEN default ELSE value
Rows(s) == {s[i] : i \in DOMAIN s}
Map(s, Op(_)) == [i \in DOMAIN s |-> Op(s[i])]

Folder(n, parent, name) == [id |-> Id("f", n), parentFolderId |-> parent, name |-> Or(name, "Imported folder")]
Saved(folder, name, protocol, request) ==
  [folderId |-> folder, name |-> name, protocol |-> protocol, request |-> request]

NoAuth == [type |-> "none"]
emptyRequest ==
  [method |-> "GET", url |-> "", params |-> <<>>, headers |-> <<>>, bodyMode |-> "none", body |-> "", auth |-> NoAuth]
emptyGrpcRequest ==
  [address |-> "", service |-> "", method |-> "", metadata |-> <<>>, body |-> "{}", tls |-> TRUE, auth |-> NoAuth,
   timeout |-> "30"]

KeyValue(key, value, enabled) == [key |-> Or(key, ""), value |-> Or(value, ""), enabled |-> enabled]
Body(mode, content) == [bodyMode |-> mode, body |-> content]

Bearer(token) == [type |-> "bearer", token |-> Or(token, "")]
Basic(user, password) == [type |-> "basic", username |-> Or(user, ""), password |-> Or(password, "")]
ApiKey(name, value, in) == [type |-> "api-key", apiKeyName |-> Or(name, ""), apiKeyValue |-> Or(value, ""), apiKeyIn |-> in]

-----------------------------------------------------------------------------
(* Postman.                                                                *)

postmanVars(vars) ==
  Map(vars, LAMBDA v : [key |-> Or(v.key, ""), value |-> Or(v.value, ""), enabled |-> v.enabled,
                        sensitive |-> v.type = "secret"])

\* Rows are kept as rows: their JSON is the body.
postmanBody(body) ==
  IF body = None THEN Body("none", "")
  ELSE CASE body.mode = "raw" -> Body(IF body.language = "json" THEN "json" ELSE "raw", body.raw)
         [] body.mode = "formdata" -> Body("form-data", Map(body.rows, LAMBDA r : KeyValue(r.key, r.value, ~r.disabled)))
         [] body.mode = "urlencoded" -> Body("urlencoded", Map(body.rows, LAMBDA r : KeyValue(r.key, r.value, ~r.disabled)))
         [] body.mode = "graphql" -> Body("json", body.raw)
         [] OTHER -> Body("none", "")

postmanAuth(auth) ==
  IF auth = None THEN NoAuth
  ELSE LET values == auth.values
       IN CASE auth.type = "bearer" -> Bearer(values.token)
            [] auth.type = "basic" -> Basic(values.username, values.password)
            [] auth.type = "apikey" -> ApiKey(values.key, values.value, IF values.in = "query" THEN "query" ELSE "header")
            [] OTHER -> NoAuth

\* The params of a URL come in switched on, even those that were off.
postmanRequest(raw) ==
  [emptyRequest EXCEPT
     !.method = raw.method, !.url = raw.url.raw,
     !.params = Map(raw.url.query, LAMBDA q : KeyValue(q.key, q.value, TRUE)),
     !.headers = Map(raw.header, LAMBDA h : KeyValue(h.key, h.value, ~h.disabled)),
     !.auth = postmanAuth(raw.auth),
     !.bodyMode = postmanBody(raw.body).bodyMode, !.body = postmanBody(raw.body).body]

\* A method is given as service/method.
postmanGrpcItem(item, folder) ==
  LET raw == item.request
  IN Saved(folder, item.name, "grpc",
           [emptyGrpcRequest EXCEPT
              !.address = raw.url.raw, !.service = raw.method[1], !.method = raw.method[2],
              !.metadata = Map(raw.header, LAMBDA h : KeyValue(h.key, h.value, ~h.disabled)),
              !.body = raw.body, !.tls = raw.tls, !.auth = postmanAuth(raw.auth)])

postmanItem(item, folder) ==
  IF item.request.type = "grpc" THEN postmanGrpcItem(item, folder)
  ELSE Saved(folder, item.name, "rest", postmanRequest(item.request))

\* folderId of an item: the folder it is itself, or the one that it is in.
InFolder(item, folder, parent) == IF item.item # None THEN folder.id ELSE parent

RECURSIVE Visit(_, _, _)
\* visit of importPostmanCollection: acc is what was pushed so far.
Visit(items, parent, acc) ==
  FoldLeft(LAMBDA a, item :
             LET folder == Folder(Len(a.folders) + 1, parent, item.name)
                 inside == IF item.item = None THEN a
                           ELSE Visit(item.item, folder.id, [a EXCEPT !.folders = Append(@, folder)])
             IN IF item.request = None THEN inside
                ELSE [inside EXCEPT !.requests =
                        Append(@, postmanItem(item, InFolder(item, folder, parent)))],
           acc, items)

importPostmanCollection(doc) ==
  [name |-> Or(doc.name, "Postman import"), environments |-> <<>>, variables |-> postmanVars(doc.variable)]
    @@ Visit(doc.item, None, [folders |-> <<>>, requests |-> <<>>])

-----------------------------------------------------------------------------
(* Insomnia: a flat list of resources that name their parents.             *)

insomniaBody(body) ==
  IF body = None THEN Body("none", "")
  ELSE IF body.mimeType = None \/ body.text = "" THEN Body("none", "")
  ELSE CASE body.mimeType = "application/json" -> Body("json", body.text)
         [] body.mimeType = "application/x-www-form-urlencoded" -> Body("urlencoded", body.text)
         [] OTHER -> Body("raw", body.text)

insomniaAuth(a) ==
  IF a = None THEN NoAuth
  ELSE CASE a.type = "bearer" -> Bearer(a.token)
         [] a.type = "basic" -> Basic(a.username, a.password)
         [] a.type = "apikey" -> ApiKey(a.key, a.value, IF a.addTo = "queryParams" THEN "query" ELSE "header")
         [] OTHER -> NoAuth

insomniaRequest(item) ==
  [emptyRequest EXCEPT
     !.method = item.method, !.url = item.url,
     !.headers = Map(item.headers, LAMBDA h : KeyValue(h.name, h.value, ~h.disabled)),
     !.auth = insomniaAuth(item.authentication),
     !.bodyMode = insomniaBody(item.body).bodyMode, !.body = insomniaBody(item.body).body]

insomniaGrpcRequest(item) ==
  [emptyGrpcRequest EXCEPT
     !.address = item.url, !.service = item.method[1], !.method = item.method[2],
     !.metadata = Map(item.headers, LAMBDA h : KeyValue(h.name, h.value, ~h.disabled)),
     !.body = Or(item.body, "{}"), !.tls = item.tls, !.auth = insomniaAuth(item.authentication)]

\* Two passes over the groups: their folders first, then their parents.
insomniaFolders(groups) ==
  [i \in DOMAIN groups |->
     LET up == {j \in DOMAIN groups : groups[j].id = groups[i].parentId}
     IN Folder(i, IF up = {} THEN None ELSE Id("f", Max(up)), groups[i].name)]

importInsomniaExport(doc) ==
  LET of(types) == SelectSeq(doc.resources, LAMBDA r : r.type \in types)
      groups == of({"request_group"})
      items == of({"request", "grpc_request"})
      parent(r) == LET up == {j \in DOMAIN groups : groups[j].id = r.parentId}
                   IN IF up = {} THEN None ELSE Id("f", Max(up))
      environments == SelectSeq(of({"environment"}), LAMBDA e : e.name # None /\ DOMAIN e.data # {})
  IN [name |-> doc.name, variables |-> <<>>, folders |-> insomniaFolders(groups),
      requests |-> Map(items, LAMBDA r :
                         IF r.type = "grpc_request" THEN Saved(parent(r), r.name, "grpc", insomniaGrpcRequest(r))
                         ELSE Saved(parent(r), r.name, "rest", insomniaRequest(r))),
      environments |-> Map(environments, LAMBDA e : [name |-> e.name, variables |-> e.data])]

-----------------------------------------------------------------------------
(* Hoppscotch.                                                             *)

Active(row) == row.active
hoppscotchBody(item) ==
  IF item.body = None THEN Body("none", "")
  ELSE IF item.body.body = "" THEN Body("none", "")
  ELSE CASE item.body.contentType = "application/json" -> Body("json", item.body.body)
         [] item.body.contentType = "application/x-www-form-urlencoded" -> Body("urlencoded", item.body.body)
         [] OTHER -> Body("raw", item.body.body)

hoppscotchAuth(a) ==
  IF a = None THEN NoAuth
  ELSE CASE a.authType = "bearer" -> Bearer(a.token)
         [] a.authType = "basic" -> Basic(a.username, a.password)
         [] a.authType = "api-key" -> ApiKey(a.key, a.value, IF a.addTo = "queryParams" THEN "query" ELSE "header")
         [] OTHER -> NoAuth

hoppscotchRequest(folder, item) ==
  Saved(folder, item.name, "rest",
        [emptyRequest EXCEPT
           !.method = item.method, !.url = item.endpoint,
           !.params = Map(item.params, LAMBDA p : KeyValue(p.key, p.value, Active(p))),
           !.headers = Map(item.headers, LAMBDA h : KeyValue(h.key, h.value, Active(h))),
           !.auth = hoppscotchAuth(item.auth),
           !.bodyMode = hoppscotchBody(item).bodyMode, !.body = hoppscotchBody(item).body])

RECURSIVE VisitFolder(_, _, _)
VisitFolder(node, parent, acc) ==
  LET folder == Folder(Len(acc.folders) + 1, parent, node.name)
      own == [folders |-> Append(acc.folders, folder),
              requests |-> acc.requests \o Map(node.requests, LAMBDA r : hoppscotchRequest(folder.id, r))]
  IN FoldLeft(LAMBDA a, child : VisitFolder(child, folder.id, a), own, node.folders)

hoppscotchVariables(env) == Map(env.variables, LAMBDA v : KeyValue(v.key, v.value, Active(v)))

\* Of several collections in a file only the first is imported.
importHoppscotchCollection(doc) ==
  LET root == doc.collections[1]
      start == [folders |-> <<>>, requests |-> Map(root.requests, LAMBDA r : hoppscotchRequest(None, r))]
      named == SelectSeq(doc.environments, LAMBDA e : e.name # None)
  IN [name |-> Or(root.name, "Hoppscotch import"), variables |-> <<>>,
      environments |-> Map(named, LAMBDA e : [name |-> e.name, variables |-> hoppscotchVariables(e)])]
       @@ FoldLeft(LAMBDA a, f : VisitFolder(f, None, a), start, root.folders)

-----------------------------------------------------------------------------
(* HAR: requests without folders.  A url is [base, query].                 *)

skipHeaders ==
  {"host", "content-length", "transfer-encoding", ":authority", ":method", ":path", ":scheme", ":status"}

harPostData(postData) ==
  IF postData = None THEN Body("none", "")
  ELSE LET rows == Map(postData.params, LAMBDA p : KeyValue(p.name, p.value, TRUE))
           content == IF rows # <<>> THEN rows ELSE postData.text
       IN CASE postData.mimeType = "application/json" -> Body("json", postData.text)
            [] postData.mimeType = "application/x-www-form-urlencoded" -> Body("urlencoded", content)
            [] postData.mimeType = "multipart/form-data" -> Body("form-data", content)
            [] OTHER -> Body(IF postData.text = "" THEN "none" ELSE "raw", postData.text)

\* The query that the browser listed, or else that of the URL.
harParams(req) ==
  Map(IF req.queryString # <<>> THEN req.queryString ELSE req.url.query, LAMBDA q : KeyValue(q.name, q.value, TRUE))

importHarEntry(entry) ==
  LET req == entry.request
      kept == SelectSeq(req.headers, LAMBDA h : h.name # "" /\ h.name \notin skipHeaders)
  IN Saved(None, <<req.method, req.url.base>>, "rest",
           [emptyRequest EXCEPT
              !.method = req.method, !.url = req.url.base, !.params = harParams(req),
              !.headers = Map(kept, LAMBDA h : KeyValue(h.name, h.value, TRUE)),
              !.bodyMode = harPostData(req.postData).bodyMode, !.body = harPostData(req.postData).body])

importHarFile(doc) ==
  [name |-> doc.name, variables |-> <<>>, folders |-> <<>>, environments |-> <<>>,
   requests |-> Map(doc.entries, importHarEntry)]

-----------------------------------------------------------------------------
(* Commands.  A token is [flag, text, parts]: what a colon splits it into. *)

Word(t) == [flag |-> FALSE, text |-> t, parts |-> <<t>>]
Flag(t) == [flag |-> TRUE, text |-> t, parts |-> <<t>>]
Pair(k, v) == [flag |-> FALSE, text |-> <<k, v>>, parts |-> <<k, v>>]
\* A value: bearer says that it starts with "bearer ", text is what follows.
Value(bearer, t) == [bearer |-> bearer, text |-> t]

VALUE_FLAGS == {"-o", "-A", "-e", "-m", "-F", "-x", "-c", "--cert", "--data-urlencode"}
DataFlags == {"-d", "--data", "--data-raw", "--data-binary"}

RECURSIVE CurlTokens(_, _)
CurlTokens(tokens, r) ==
  IF tokens = <<>> THEN r
  ELSE LET t == tokens[1].text
           next == IF Len(tokens) > 1 THEN tokens[2] ELSE Word("")
           skip(n) == SubSeq(tokens, n + 1, Len(tokens))
       IN IF ~tokens[1].flag THEN CurlTokens(skip(1), [r EXCEPT !.url = t])
          ELSE CASE t \in {"-X", "--request"} -> CurlTokens(skip(2), [r EXCEPT !.method = next.text])
                 [] t \in {"-H", "--header"} ->
                      CurlTokens(skip(2), IF Len(next.parts) = 1 THEN r
                                          ELSE [r EXCEPT !.headers = Append(@, KeyValue(next.parts[1], next.parts[2], TRUE))])
                 [] t \in DataFlags ->
                      CurlTokens(skip(2), [r EXCEPT !.method = IF @ = "GET" THEN "POST" ELSE @,
                                                    !.bodyMode = "raw", !.body = next.text])
                 [] t \in {"-u", "--user"} ->
                      CurlTokens(skip(2), [r EXCEPT !.auth = Basic(next.parts[1], IF Len(next.parts) = 1 THEN "" ELSE next.parts[2])])
                 [] t \in VALUE_FLAGS -> CurlTokens(skip(2), r)
                 [] OTHER -> CurlTokens(skip(1), r)

\* A bearer token in the first Authorization header becomes the auth of the request.
BearerOf(rows) == SelectInSeq(rows, LAMBDA h : h.key = "authorization")

WithBearer(r, rows) ==
  LET at == BearerOf(rows)
  IN IF at = 0 THEN <<r, rows>>
     ELSE IF ~rows[at].value.bearer THEN <<r, rows>>
     ELSE <<[r EXCEPT !.auth = Bearer(rows[at].value.text)], RemoveAt(rows, at)>>

parseCurl(tokens) ==
  IF tokens = <<>> THEN None
  ELSE IF tokens[1].text # "curl" THEN None
  ELSE LET r == CurlTokens(Tail(tokens), emptyRequest)
           w == WithBearer(r, r.headers)
       IN [w[1] EXCEPT !.headers = w[2]]

Header(token) == KeyValue(token.parts[1], IF Len(token.parts) = 1 THEN Value(FALSE, "") ELSE token.parts[2], TRUE)

RECURSIVE GrpcurlTokens(_, _)
\* The first word is the address, a later one service/method.
GrpcurlTokens(tokens, r) ==
  IF tokens = <<>> THEN r
  ELSE LET t == tokens[1].text
           next == IF Len(tokens) > 1 THEN tokens[2] ELSE Word("")
           skip(n) == SubSeq(tokens, n + 1, Len(tokens))
       IN IF ~tokens[1].flag
          THEN GrpcurlTokens(skip(1), IF r.address = "" THEN [r EXCEPT !.address = t]
                                      ELSE [r EXCEPT !.service = tokens[1].parts[1], !.method = tokens[1].parts[2]])
          ELSE CASE t = "-plaintext" -> GrpcurlTokens(skip(1), [r EXCEPT !.tls = FALSE])
                 [] t \in {"-d", "--data", "-data"} -> GrpcurlTokens(skip(2), [r EXCEPT !.body = next.text])
                 [] t \in {"-rpc-header", "-H"} ->
                      GrpcurlTokens(skip(2), IF next.parts[1] = "" THEN r ELSE [r EXCEPT !.metadata = Append(@, Header(next))])
                 [] t = "-authority" ->
                      GrpcurlTokens(skip(2), [r EXCEPT !.metadata = Append(@, KeyValue(":authority", Value(FALSE, next.text), TRUE))])
                 [] t \in {"-connect-timeout", "-max-time"} -> GrpcurlTokens(skip(2), [r EXCEPT !.timeout = next.text])
                 [] t \in {"-import-path", "-proto", "-protoset"} -> GrpcurlTokens(skip(2), r)
                 [] OTHER -> GrpcurlTokens(skip(1), r)

parseGrpcurl(tokens) ==
  IF tokens = <<>> THEN None
  ELSE IF tokens[1].text # "grpcurl" THEN None
  ELSE LET r == GrpcurlTokens(Tail(tokens), emptyGrpcRequest)
           w == WithBearer(r, r.metadata)
       IN [w[1] EXCEPT !.metadata = w[2]]

-----------------------------------------------------------------------------
(* The UI: an import is written to the store, folder by folder.            *)

\* A folder's parent must have been written before it: else it goes to the root.
\* The environments of an import are not written.
persistImported(imported) ==
  LET at(id, n) == {j \in 1..n : imported.folders[j].id = id}
      saved(id, n) == IF at(id, n) = {} THEN None ELSE Id("saved", Max(at(id, n)))
  IN [folders |-> [i \in DOMAIN imported.folders |->
                     [id |-> Id("saved", i), name |-> imported.folders[i].name,
                      parentFolderId |-> saved(imported.folders[i].parentFolderId, i - 1)]],
      requests |-> Map(imported.requests, LAMBDA r :
                         [r EXCEPT !.folderId = saved(r.folderId, Len(imported.folders))])]

-----------------------------------------------------------------------------
(***************************************************************************)
(* Import and export of OpenAPI documents (packages/core/src/import-export/*)
(* openapi.ts).  SwaggerParser.dereference is external: after it a schema  *)
(* is an object graph, here a function from nodes to what they say, which  *)
(* may have cycles.                                                        *)
(*                                                                         *)
(* A path or URL is a sequence of segments: Text(t), or Var(t) for a       *)
(* {{variable}} of a URL and a {parameter} of a path.                      *)
(***************************************************************************)
Text(t) == [kind |-> "text", name |-> t]
Var(t) == [kind |-> "var", name |-> t]
BaseUrl == Var("base_url")
Elements(s) == {s[i] : i \in DOMAIN s}

-----------------------------------------------------------------------------
(* Examples.  A value is [kind, of]: "object" by key, "array" of one value,*)
(* or a scalar.                                                            *)

Scalar(k) == [kind |-> k, of |-> <<>>]
Object(of) == [kind |-> "object", of |-> of]
EmptyObject == Object(<<>>)

RECURSIVE mergeExampleObjects(_)
\* Objects are merged key by key, a later value winning over one that is no object.
mergeExampleObjects(values) ==
  LET objects == SelectSeq(values, LAMBDA v : v.kind = "object")
      keys == UNION {DOMAIN o.of : o \in Elements(objects)}
      of(k) == LET with == SelectSeq(objects, LAMBDA o : k \in DOMAIN o.of)
               IN FoldLeft(LAMBDA acc, v : IF acc.kind = "object" /\ v.kind = "object"
                                           THEN mergeExampleObjects(<<acc, v>>) ELSE v,
                           with[1].of[k], [i \in 1..(Len(with) - 1) |-> with[i + 1].of[k]])
  IN Object([k \in keys |-> of(k)])

\* What a schema that says no type is taken for.
TypeOf(s) ==
  IF s.type # None THEN s.type
  ELSE IF DOMAIN s.properties # {} \/ s.allOf # <<>> THEN "object" ELSE None

RECURSIVE exampleFromSchema(_, _, _)
\* stack: the schemas whose examples are being made.  One that is met again
\* below itself stands for an empty object.
exampleFromSchema(schema, n, stack) ==
  IF n = None THEN EmptyObject
  ELSE IF n \in stack THEN EmptyObject
  ELSE LET s == schema[n]
           down(m) == exampleFromSchema(schema, m, stack \union {n})
       IN IF s.example # None THEN s.example
          ELSE CASE TypeOf(s) = "object" ->
                      mergeExampleObjects([i \in DOMAIN s.allOf |-> down(s.allOf[i])]
                                            \o <<Object([k \in DOMAIN s.properties |-> down(s.properties[k])])>>)
                 [] TypeOf(s) = "array" -> [kind |-> "array", of |-> <<down(s.items)>>]
                 [] TypeOf(s) \in {"number", "boolean", "string"} -> Scalar(TypeOf(s))
                 [] OTHER -> EmptyObject

\* The example of the JSON content, or of the first content that there is.
exampleFromRequestBody(schema, body) ==
  IF body.example # None THEN body.example ELSE exampleFromSchema(schema, body.schema, {})

-----------------------------------------------------------------------------
(* Import.  A document: [openapi3, title, servers, paths, schema, external]*)

\* assertOpenApiDocument and assertNoExternalRefs, for the whole document.
assertOpenApiDocument(doc) == doc.openapi3 /\ doc.title # None /\ doc.paths # None
assertNoExternalRefs(doc) == ~doc.external

environmentsFromServers(doc) ==
  LET named == SelectSeq(doc.servers, LAMBDA s : s # "")
  IN [i \in DOMAIN named |-> [variables |-> <<[key |-> "base_url", value |-> named[i]]>>]]

\* With or without servers a URL starts with the variable base_url.
ServerUrl(doc) == <<BaseUrl>>

Operations(doc) ==
  LET methods == {"get", "post", "put", "patch", "delete", "head", "options"}
      paths == SetToSeq(DOMAIN doc.paths)
      of(p) == LET ms == SetToSeq(DOMAIN doc.paths[p].operations \intersect methods)
               IN [i \in DOMAIN ms |-> [path |-> p, method |-> ms[i], op |-> doc.paths[p].operations[ms[i]]]]
  IN FlattenSeq([i \in DOMAIN paths |-> of(paths[i])])

ParametersOf(doc, o) == doc.paths[o.path].parameters \o o.op.parameters

\* One folder for each tag that is the first of some operation.
Tags(ops) ==
  LET firsts == [i \in DOMAIN ops |-> IF ops[i].op.tags = <<>> THEN "" ELSE ops[i].op.tags[1]]
      new == SelectSeq([i \in DOMAIN firsts |-> i],
                       LAMBDA i : firsts[i] # "" /\ \A j \in 1..(i - 1) : firsts[j] # firsts[i])
  IN [k \in DOMAIN new |-> firsts[new[k]]]

importOpenApiSpec(doc) ==
  IF ~assertOpenApiDocument(doc) \/ ~assertNoExternalRefs(doc) THEN None
  ELSE LET ops == Operations(doc)
           inPlace(o, place) == SelectSeq(ParametersOf(doc, o), LAMBDA p : p.in = place)
           rows(ps) == [i \in DOMAIN ps |-> [key |-> ps[i].name, value |-> Var(ps[i].name), enabled |-> TRUE]]
           request(o) ==
             [method |-> o.method, url |-> ServerUrl(doc) \o o.path,
              params |-> rows(inPlace(o, "query")), headers |-> rows(inPlace(o, "header")),
              bodyMode |-> IF o.op.requestBody = None THEN "none" ELSE "json",
              body |-> IF o.op.requestBody = None THEN None
                       ELSE exampleFromRequestBody(doc.schema, o.op.requestBody)]
       IN [name |-> doc.title, folders |-> Tags(ops), environments |-> environmentsFromServers(doc),
           requests |-> [i \in DOMAIN ops |->
                           [name |-> ops[i].op.operationId, request |-> request(ops[i]),
                            folder |-> IF ops[i].op.tags = <<>> THEN None ELSE ops[i].op.tags[1]]]]

-----------------------------------------------------------------------------
(* Export.  A saved request: [name, folder, request]; its URL is absolute  *)
(* ([absolute |-> TRUE], without its origin) or starts with a variable.    *)

SKIP_HEADERS == {"content-type", "accept", "authorization", "content-length"}

pathParameterNames(path) == {s.name : s \in {t \in Elements(path) : t.kind = "var"}}

\* The pathname of an absolute URL; any other URL as it is, its variables included.
PathOf(req) == req.url.segments

HeaderParameters(req) ==
  SelectSeq(req.headers, LAMBDA h : h.enabled /\ h.key # "" /\ h.key \notin SKIP_HEADERS)

openApiBodyExample(req) == req.body

\* Two requests with one path and one method are one operation: the later one.
exportCollectionAsOpenApi(name, requests) ==
  LET rest == SelectSeq(requests, LAMBDA r : r.protocol = "rest" /\ r.request.url.segments # <<>>)
      parameter(row, place) == [name |-> row.key, in |-> place]
      operation(r) ==
        LET req == r.request
            on == SelectSeq(req.params, LAMBDA p : p.enabled /\ p.key # "")
            kept == HeaderParameters(req)
            path == SetToSeq(pathParameterNames(PathOf(req)))
        IN [operationId |-> r.name, tags |-> IF r.folder = None THEN <<>> ELSE <<r.folder>>,
            parameters |-> [i \in DOMAIN path |-> [name |-> path[i], in |-> "path"]]
                             \o [i \in DOMAIN on |-> parameter(on[i], "query")]
                             \o [i \in DOMAIN kept |-> parameter(kept[i], "header")],
            requestBody |-> IF req.bodyMode = "none" \/ req.body = None THEN None
                            ELSE [example |-> openApiBodyExample(req), schema |-> None]]
      paths == {PathOf(r.request) : r \in Elements(rest)}
      last(p, m) == rest[Max({i \in DOMAIN rest : PathOf(rest[i].request) = p /\ rest[i].request.method = m})]
      methods(p) == {r.request.method : r \in {q \in Elements(rest) : PathOf(q.request) = p}}
  IN [openapi3 |-> TRUE, title |-> name, servers |-> <<>>, external |-> FALSE, schema |-> <<>>,
      paths |-> [p \in paths |-> [parameters |-> <<>>, operations |-> [m \in methods(p) |-> operation(last(p, m))]]]]

-----------------------------------------------------------------------------
(***************************************************************************)
(* The upgrade of a version 1 database (packages/core/src/storage/db.ts):  *)
(* requests that were stored field by field become records with a request  *)
(* of their own.  A record has only the fields that it was stored with.    *)
(***************************************************************************)

LegacyDefaults ==
  [method |-> "GET", url |-> "", params |-> "[]", headers |-> "[]", bodyMode |-> "none", body |-> "",
   auth |-> "none", timeoutMs |-> "30000", variables |-> "[]", options |-> "undefined"]
LegacyFields == DOMAIN LegacyDefaults

\* What a request has besides the fields it is given.
toRequestConfig(draft) ==
  draft @@ [pathVariables |-> "[]", assertions |-> "[]", extractionRules |-> "[]", scripts |-> "none"]

CreatedAt(record, now) == IF "createdAt" \in DOMAIN record THEN record.createdAt ELSE now

upgradeRequestTo2(stored, now) ==
  LET given == [f \in LegacyFields \intersect DOMAIN stored |-> stored[f]]
      rest == [f \in DOMAIN stored \ LegacyFields |-> stored[f]]
      placed == [protocol |-> "rest", folderId |-> "null", sortOrder |-> CreatedAt(stored, now)]
  IN IF "request" \in DOMAIN stored THEN stored @@ placed
     ELSE [request |-> toRequestConfig(given @@ LegacyDefaults)] @@ placed @@ rest

upgradeTo2(tables, now) ==
  [collections |-> {c @@ [variables |-> "[]", sortOrder |-> CreatedAt(c, now)] : c \in tables.collections},
   requests |-> {upgradeRequestTo2(r, now) : r \in tables.requests},
   history |-> {e @@ [protocol |-> "rest"] : e \in tables.history}]

-----------------------------------------------------------------------------
(***************************************************************************)
(* The upgrade of stored data to schema 6 (packages/core/src/storage/      *)
(* migrations.ts): network options moved from each request to the          *)
(* settings, so they are taken out of saved requests, history and the      *)
(* request steps of flows, at every depth, and read when one is sent.      *)
(***************************************************************************)
CONSTANTS
  NETWORK_OPTION_KEYS,
  NoOptions   \* a request without options

hasMovedNetworkOptions(options) ==
  options # NoOptions /\ DOMAIN options \intersect NETWORK_OPTION_KEYS # {}

stripNetworkOptions(options) == [k \in DOMAIN options \ NETWORK_OPTION_KEYS |-> options[k]]

\* What a request is sent with: an option of its own wins over the settings.
\* The texts of tlsClientConfig are options one by one.
mergeWithDefaults(options, defaults) ==
  (IF options = NoOptions THEN <<>> ELSE options) @@ defaults

stripRequestNetworkOptions(request) ==
  IF hasMovedNetworkOptions(request.options)
  THEN [request EXCEPT !.options = stripNetworkOptions(@)] ELSE request

\* The fields of a step that hold steps.
Nested(step) == {"thenSteps", "elseSteps", "steps"} \intersect DOMAIN step

RECURSIVE stripNetworkOptionsFromFlowStep(_)
stripNetworkOptionsFromFlowStep(step) ==
  IF step.type = "request" THEN [step EXCEPT !.request = stripRequestNetworkOptions(@)]
  ELSE [f \in DOMAIN step |->
          IF f \in Nested(step)
          THEN [i \in DOMAIN step[f] |-> stripNetworkOptionsFromFlowStep(step[f][i])] ELSE step[f]]

stripNetworkOptionsFromFlow(flow) ==
  [flow EXCEPT !.steps = [i \in DOMAIN @ |-> stripNetworkOptionsFromFlowStep(@[i])]]

\* In one transaction: either all of it is stored, or nothing.
migrateNetworkOptionsToDefaults(tables) ==
  LET stripped(records) == {[r EXCEPT !.request = stripRequestNetworkOptions(@)] : r \in records}
  IN [requests |-> stripped(tables.requests), history |-> stripped(tables.history),
      flows |-> {stripNetworkOptionsFromFlow(f) : f \in tables.flows}, schemaVersion |-> 6]
=============================================================================
