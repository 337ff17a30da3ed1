-------------------------- MODULE RequestResolution --------------------------
(***************************************************************************)
(* What becomes of a request between the editor and the wire: variables    *)
(* from several scopes and the fields that complete them, templates, path  *)
(* variables, the query string, authorization, OAuth2 tokens, the AWS and  *)
(* digest signatures, GraphQL documents and schemas, body modes            *)
(* (packages/core and the editors of packages/ui).  Pure code: an operator *)
(* per function.                                                           *)
(*                                                                         *)
(* A text is a sequence of tokens.  A token is a literal, a reference      *)
(* {{name}}, a dynamic variable {{$name}}, a path variable :name, or the   *)
(* URI encoding of a token.  Blanks around a name are not modelled; an     *)
(* empty text stands for one that trims to nothing.                        *)
(***************************************************************************)
EXTENDS Naturals, FiniteSets, Sequences, SequencesExt

CONSTANTS
  MaxDepth,         \* nested references that are followed: 8 in the code
  KnownDynamic      \* dynamic variables the program knows

Lit(x) == [kind |-> "lit", name |-> x]
Ref(n) == [kind |-> "ref", name |-> n]
Dyn(n) == [kind |-> "dyn", name |-> n]
Path(n) == [kind |-> "path", name |-> n]
Enc(t) == [kind |-> "enc", name |-> t]

\* A row of a table of the editor, switched on.
Row(k, v) == [key |-> k, value |-> v, enabled |-> TRUE]

(* ---- variables ---- *)

Enabled(rows) == SelectSeq(rows, LAMBDA r : r.enabled /\ r.key # <<>>)

\* Object.fromEntries: of rows with one name, the last.
LastByKey(rows) ==
  [k \in {rows[i].key : i \in DOMAIN rows} |->
     rows[Max({i \in DOMAIN rows : rows[i].key = k})].value]

variablesFromKeyValues(rows) == LastByKey(Enabled(rows))

variablesFromScopes(scopes) ==
  FoldLeft(LAMBDA merged, s : variablesFromKeyValues(s) @@ merged, <<>>, scopes)

dynamicVariable(n) == IF n \in KnownDynamic THEN Lit(<<"value of", n>>) ELSE Dyn(n)

\* The text a template stands for, and the names it refers to that no scope
\* has: at most MaxDepth references are followed one inside the other.
RECURSIVE resolveOne(_, _, _)
resolveOne(text, vars, depth) ==
  IF depth > MaxDepth THEN [value |-> text, unresolved |-> {}]
  ELSE LET Of(t) ==
             CASE t.kind = "ref" /\ <<Lit(t.name)>> \in DOMAIN vars ->
                    resolveOne(vars[<<Lit(t.name)>>], vars, depth + 1)
               [] t.kind = "ref" /\ <<Lit(t.name)>> \notin DOMAIN vars ->
                    [value |-> <<t>>, unresolved |-> {t.name}]
               [] t.kind = "dyn" ->
                    [value |-> <<dynamicVariable(t.name)>>, unresolved |-> {}]
               [] OTHER -> [value |-> <<t>>, unresolved |-> {}]
       IN [value |-> FlattenSeq([i \in DOMAIN text |-> Of(text[i]).value]),
           unresolved |-> UNION {Of(text[i]).unresolved : i \in DOMAIN text}]

resolveTemplate(text, vars) == resolveOne(text, vars, 0)

(* ---- the URL: a base and a list of query parameters ---- *)

resolvePathVariables(base, rows) ==
  LET on == LastByKey(SelectSeq(rows, LAMBDA r :
                        r.enabled /\ r.key # <<>> /\ r.value # <<>>))
      Of(t) == IF t.kind = "path" /\ <<Lit(t.name)>> \in DOMAIN on
               THEN LET v == on[<<Lit(t.name)>>] IN [i \in DOMAIN v |-> Enc(v[i])]
               ELSE <<t>>
  IN FlattenSeq([i \in DOMAIN base |-> Of(base[i])])

stripQueryString(url) == [url EXCEPT !.query = <<>>]

buildUrl(url, rows) ==
  LET on == Enabled(rows)
  IN [url EXCEPT !.query = @ \o [i \in DOMAIN on |-> <<on[i].key, on[i].value>>]]

(* ---- authorization ---- *)

Authorization == <<Lit("Authorization")>>
Basic(user, password) == <<Lit("Basic")>> \o user \o <<Lit(":")>> \o password
Bearer(token) == <<Lit("Bearer")>> \o token

applyAuth(request) ==
  LET a == request.auth
      header == CASE a.type = "basic" -> <<Row(Authorization, Basic(a.username, a.password))>>
                  [] a.type \in {"bearer", "oauth2"} /\ a.token # <<>> ->
                       <<Row(Authorization, Bearer(a.token))>>
                  [] OTHER -> <<>>
      key == IF a.type = "api-key" /\ a.apiKeyName # <<>> /\ a.apiKeyValue # <<>>
             THEN <<Row(a.apiKeyName, a.apiKeyValue)>> ELSE <<>>
  IN [request EXCEPT
        !.headers = @ \o header \o (IF a.apiKeyIn = "query" THEN <<>> ELSE key),
        !.params = @ \o (IF a.apiKeyIn = "query" THEN key ELSE <<>>)]

\* The texts of the proxy and of the client certificate.
resolveOptions(options, vars) == [f \in DOMAIN options |-> resolveTemplate(options[f], vars).value]

AuthTexts == {"username", "password", "token", "apiKeyName", "apiKeyValue"}

\* A request with every text replaced.  Path variables are put in afterwards,
\* as they stand: a template inside one is not resolved.
Replaced(request, vars) ==
  LET R(text) == resolveTemplate(text, vars).value
      Rows(rows) == [i \in DOMAIN rows |->
                       [rows[i] EXCEPT !.key = R(@), !.value = R(@)]]
  IN [request EXCEPT
        !.url.base = resolvePathVariables(R(@), request.pathVariables),
        !.params = Rows(@), !.headers = Rows(@), !.body = R(@),
        !.auth = [f \in DOMAIN @ |-> IF f \in AuthTexts THEN R(@[f]) ELSE @[f]],
        !.options = resolveOptions(@, vars)]

\* All texts of a request, to collect the names that are not resolved.
Texts(request) ==
  LET Of(rows) == UNION {{rows[i].key, rows[i].value} : i \in DOMAIN rows}
  IN {request.url.base, request.body} \union Of(request.params) \union Of(request.headers)
       \union {request.auth[f] : f \in AuthTexts \intersect DOMAIN request.auth}
       \union {request.options[f] : f \in DOMAIN request.options}

resolveRequest(request, environment, session) ==
  LET vars == variablesFromScopes(<<environment, request.variables, session>>)
      withAuth == applyAuth(Replaced(request, vars))
  IN [request |-> [withAuth EXCEPT !.url = buildUrl(stripQueryString(@), withAuth.params)],
      unresolved |-> UNION {resolveTemplate(t, vars).unresolved : t \in Texts(request)}]

(* ---- the other protocols: a record with the fields each one sends ---- *)

\* resolve over some fields of a request, its rows and its authorization.
ReplacedFields(request, texts, rows, vars) ==
  LET R(text) == resolveTemplate(text, vars).value
  IN [f \in DOMAIN request |->
        CASE f \in texts -> R(request[f])
          [] f = rows -> [i \in DOMAIN request[f] |->
                            [request[f][i] EXCEPT !.key = R(@), !.value = R(@)]]
          [] f = "options" -> resolveOptions(request[f], vars)
          [] f = "auth" -> [g \in DOMAIN request[f] |->
                              IF g \in AuthTexts THEN R(request[f][g]) ELSE request[f][g]]
          [] OTHER -> request[f]]

\* The request has no variables of its own: its field of that name is the
\* JSON text of the operation's.  Authorization is left to the HTTP request.
resolveGraphQLRequest(request, environment, session) ==
  ReplacedFields(request, {"url", "query", "variables", "operationName"}, "headers",
                 variablesFromScopes(<<environment, session>>))

\* The query of the URL is kept and a key for it is appended.
resolveWebSocketRequest(request, environment, session) ==
  LET vars == variablesFromScopes(<<environment, request.variables, session>>)
      r == ReplacedFields(request, {"protocols", "message"}, "headers", vars)
      withAuth == applyAuth([headers |-> r.headers, params |-> <<>>, auth |-> r.auth])
  IN [r EXCEPT !.url = buildUrl([@ EXCEPT !.base = resolveTemplate(@, vars).value], withAuth.params),
               !.headers = withAuth.headers]

\* Neither resolves nor applies the authorization.
resolveGrpcRequest(request, environment, session) ==
  LET vars == variablesFromScopes(<<environment, request.variables, session>>)
      sent == {"address", "service", "method", "body"}
      r == ReplacedFields([f \in DOMAIN request \ {"auth"} |-> request[f]], sent, "metadata", vars)
  IN r @@ [auth |-> request.auth]

(* ---- a GraphQL operation as an HTTP request ---- *)

\* The text of the variables: what JSON.parse makes of it, an object by name.
JsonText(kind, of) == [kind |-> kind, of |-> of]
EmptyObject == JsonText("object", <<>>)

\* An array, which stands for one with elements, passes for an object.
parseGraphQLVariables(text) == IF text.kind \in {"object", "array"} THEN text ELSE EmptyObject

AddedContentType(request) ==
  IF \E i \in DOMAIN request.headers :
       request.headers[i].enabled /\ request.headers[i].key[1] = "content-type"
  THEN <<>> ELSE <<Row(<<"content-type", "Content-Type">>, request.contentType)>>

graphQLToRequestConfig(request) ==
  LET variables == parseGraphQLVariables(request.variables)
      operation == [query |-> request.query, variables |-> variables, operationName |-> request.operationName]
  IN IF request.httpMethod = "GET"
     THEN [method |-> "GET", headers |-> request.headers,
           params |-> {f \in DOMAIN operation :
                         \/ f = "query"
                         \/ f = "variables" /\ variables # EmptyObject
                         \/ f = "operationName" /\ request.operationName # ""},
           operation |-> operation]
     ELSE [method |-> "POST",
           headers |-> request.headers \o AddedContentType(request),
           params |-> {}, operation |-> operation]

(* ---- a GraphQL document in the editor: blank, broken or its definitions ---- *)

OperationsIn(doc) == SelectSeq(doc.defs, LAMBDA d : d.kind = "operation")

extractOperations(doc) ==
  [i \in DOMAIN OperationsIn(doc) |-> [name |-> OperationsIn(doc)[i].name, kind |-> OperationsIn(doc)[i].operation]]

VariablesIn(doc) == FlattenSeq([i \in DOMAIN OperationsIn(doc) |-> OperationsIn(doc)[i].vars])
VarNames(vs) == [i \in DOMAIN vs |-> vs[i].name]
extractQueryVarDefs(doc) == VarNames(VariablesIn(doc))
extractRequiredVarNames(doc) == VarNames(SelectSeq(VariablesIn(doc), LAMBDA v : v.required))

Thrown == JsonText("thrown", <<>>)

\* A name that is missing is added with null: to an empty object when the
\* text cannot be read, to nothing that stays when it is an array; `in` throws
\* for null and for what is no object.
scaffoldVariables(text, names) ==
  LET read == IF text.kind \in {"blank", "invalid"} THEN EmptyObject ELSE text
      missing == ToSet(names) \ DOMAIN read.of
  IN CASE names # <<>> /\ read.kind \in {"null", "scalar"} -> Thrown
       [] read.kind = "object" /\ missing # {} ->
            JsonText("object", read.of @@ [n \in missing |-> "null"])
       [] OTHER -> text

\* The two effects of the editor, until nothing changes.
EditorEffects(request) ==
  LET names == extractQueryVarDefs(request.query)
      ops == extractOperations(request.query)
      single == Len(ops) = 1 /\ ops[1].name # ""
      none == \A i \in DOMAIN ops : ops[i].name = ""
  IN [request EXCEPT
        !.variables = IF names = <<>> THEN @ ELSE scaffoldVariables(@, names),
        !.operationName = CASE single -> ops[1].name [] none -> "" [] OTHER -> @]

\* parseGraphQLVariables of the sender: what it reads, or that it cannot.
SentVariables(text) == IF text.kind = "blank" THEN EmptyObject ELSE text

\* Each file takes the place of a variable, which is sent as null; the
\* variables of an array are not in its text.
applyGraphQLFileUploads(body, uploads) ==
  [operations |-> IF body.variables.kind = "array" THEN body
                  ELSE [body EXCEPT !.variables.of = [n \in ToSet(uploads) |-> "null"] @@ @],
   map |-> uploads]

\* One entry for each operation, printed by itself, with all variables.
BatchOf(body) ==
  LET ops == OperationsIn(body.query)
  IN IF body.query.kind # "parsed" THEN body
     ELSE IF Len(ops) <= 1 THEN <<body>>
     ELSE [i \in DOMAIN ops |->
             [query |-> [body.query EXCEPT !.defs = <<ops[i]>>],
              variables |-> body.variables, operationName |-> ops[i].name]]

\* The panel of the variables says whether their text can be read; a file that
\* is added takes the place that was typed, or that of its name.
handleVariablesChange(request, text) == [request |-> [request EXCEPT !.variables = text], jsonError |-> text.kind = "invalid"]
addFile(uploads, pendingVarPath, name) == Append(uploads, IF pendingVarPath = "" THEN name ELSE pendingVarPath)
removeFile(uploads, i) == RemoveAt(uploads, i)
updateVarPath(uploads, i, varPath) == [uploads EXCEPT ![i] = varPath]

Refused(tab) == [outcome |-> "refused", tab |-> tab]

\* A request with GET has no body, so it has neither files nor a batch.
buildGraphQLExecutionRequest(request, uploads) ==
  LET required == extractRequiredVarNames(request.query)
      given == SentVariables(request.variables)
      missing == {n \in ToSet(required) : n \notin DOMAIN given.of \/ given.of[n] = "null"}
      config == graphQLToRequestConfig(request)
      post == request.httpMethod # "GET"
  IN CASE request.query.kind = "blank" -> Refused("graphql")
       [] request.query.kind # "blank" /\ given.kind = "invalid" -> Refused("graphqlVariables")
       [] OTHER ->
            IF required # <<>> /\ given.kind \in {"null", "scalar"} THEN [outcome |-> "thrown"]
            ELSE IF missing # {} THEN Refused("graphqlVariables")
            ELSE CASE post /\ uploads # <<>> ->
                        [outcome |-> "files", body |-> applyGraphQLFileUploads(config.operation, uploads)]
                   [] post /\ uploads = <<>> /\ request.batchMode ->
                        [outcome |-> "batch", body |-> BatchOf(config.operation)]
                   [] OTHER -> [outcome |-> "sent", body |-> config.operation]

(* ---- OAuth2: a token is a string, "" for none, and a time is a minute, 0 for none ---- *)

TokenFields == {"accessToken", "refreshToken", "tokenExpiresAt"}
ShownFields(auth) ==
  {"flow", "tokenUrl", "clientId", "clientSecret", "scope"}
    \union (IF auth.flow = "authorization_code" THEN {"authUrl", "pkce", "redirectUri"} ELSE {})
MayAuthorize(auth) == auth.flow = "authorization_code" /\ \A f \in {"authUrl", "tokenUrl", "clientId"} : auth[f] # ""

\* The challenge is a hash of the verifier; without PKCE there is neither.
makePkceChallenge(raw) == [codeVerifier |-> raw, codeChallenge |-> <<"S256", raw>>]
NoChallenge == [codeVerifier |-> "", codeChallenge |-> <<>>]

\* What the button sends to the server, which puts the challenge into the URL
\* and keeps the verifier.
startAuthorization(auth, raw) ==
  LET pkce == IF auth.pkce THEN makePkceChallenge(raw) ELSE NoChallenge
  IN [url |-> [clientId |-> auth.clientId, scope |-> auth.scope,
               challenge |-> IF auth.pkce THEN pkce.codeChallenge ELSE <<>>],
      kept |-> [tokenUrl |-> auth.tokenUrl, codeVerifier |-> IF auth.pkce THEN pkce.codeVerifier ELSE ""]]

ExpiresAt(grant, now) == IF grant.expiresIn = 0 THEN 0 ELSE now + grant.expiresIn

\* The panel polls until the flow has ended, and stores the tokens with the
\* authorization that is in the editor by then.
PollAgain(status) == status \in {"", "pending"}
oauthResult(auth, result, now) ==
  IF result.status = "done" /\ result.accessToken # ""
  THEN [auth EXCEPT !.accessToken = result.accessToken, !.refreshToken = result.refreshToken,
                    !.tokenExpiresAt = ExpiresAt(result, now)]
  ELSE auth

\* The server's forms for the token endpoint, and its answer to the panel: the
\* provider's, unless that is an error or cannot be read.
BasicPair(auth) == IF auth.clientId = "" /\ auth.clientSecret = "" THEN <<>> ELSE <<auth.clientId, auth.clientSecret>>
clientCredentials(auth) == [grant |-> "client_credentials", scope |-> auth.scope, basic |-> BasicPair(auth)]
refreshToken(auth) ==
  [grant |-> "refresh_token", refreshToken |-> auth.refreshToken, basic |-> BasicPair(auth)]
Granted(answer) == answer.status = "ok"

\* The token is asked for before the request is sent, in place of what is
\* about to expire; a provider that rotates no refresh token leaves the old one.
applyOAuth2Token(auth, answer, now) ==
  LET stays == [auth |-> auth, saved |-> auth, warned |-> FALSE, asked |-> <<>>]
      As(token) == [type |-> "bearer", token |-> token] @@ auth
      code == auth.flow = "authorization_code"
      isExpiring == auth.tokenExpiresAt # 0 /\ auth.tokenExpiresAt < now + 1
      refreshes == isExpiring /\ auth.refreshToken # ""
      got == Granted(answer) /\ answer.accessToken # ""
      fresh == [auth EXCEPT !.accessToken = answer.accessToken,
                            !.refreshToken = IF answer.refreshToken # "" THEN answer.refreshToken ELSE @,
                            !.tokenExpiresAt = ExpiresAt(answer, now)]
  IN CASE auth.type # "oauth2" \/ (code /\ auth.accessToken = "") -> stays
       [] auth.type = "oauth2" /\ code /\ auth.accessToken # "" ->
            IF refreshes /\ got
            THEN [auth |-> [type |-> "bearer", token |-> answer.accessToken] @@ fresh, saved |-> fresh,
                  warned |-> FALSE, asked |-> <<refreshToken(auth)>>]
            ELSE [stays EXCEPT !.auth = As(auth.accessToken),
                               !.warned = isExpiring /\ (refreshes => ~Granted(answer)),
                               !.asked = IF refreshes THEN <<refreshToken(auth)>> ELSE <<>>]
       [] OTHER -> [stays EXCEPT !.auth = IF got THEN As(answer.accessToken) ELSE @,
                                 !.warned = ~Granted(answer),
                                 !.asked = <<clientCredentials(auth)>>]

(* ---- the scopes of an execution ---- *)

Found(rows, id) == SelectSeq(rows, LAMBDA r : r.id = id)
VariablesOf(rows, id) == IF Found(rows, id) = <<>> THEN <<>> ELSE Found(rows, id)[1].variables

\* The collection and the folder the request was saved in count, before the
\* ones the editor has; a folder it is in no longer counts as long as the
\* editor has it, as the saved request names none.
buildExecutionScopeContext(request, saved, collections, folders, environment, session) ==
  LET own == Found(saved, request.id)
      In(f) == IF own # <<>> /\ own[1][f] # "" THEN own[1][f] ELSE request[f]
  IN <<environment, VariablesOf(collections, In("collectionId")), VariablesOf(folders, In("folderId")),
       request.variables, session>>

(* ---- a field that completes variables: its text may have an open reference ---- *)

Open == [kind |-> "open", name |-> "{{"]
KeyOf(t) == IF t.kind = "ref" THEN <<Lit(t.name)>> ELSE <<t>>
TokenOf(k) == IF k[1].kind = "dyn" THEN k[1] ELSE Ref(k[1].name)

Shown(rows, source, isSensitive) ==
  variablesFromKeyValues([i \in DOMAIN rows |->
    [rows[i] EXCEPT !.value = [source |-> source, value |-> @,
                               sensitive |-> rows[i].sensitive \/ rows[i].key \in isSensitive]]])

\* Of the environment and the session only: no collection, folder or request.
allVars(environment, session, isSensitive) ==
  [k \in {<<Dyn(n)>> : n \in KnownDynamic} |-> [source |-> "dynamic", value |-> <<>>, sensitive |-> FALSE]]
    @@ Shown(session, "session", isSensitive) @@ Shown(environment, "environment", isSensitive)

maskedValue(text) == IF text = <<>> THEN <<>> ELSE <<Lit("***")>>

\* The tooltip: a line per variable of the text.
variableTitle(text, vars) ==
  LET Line(k) == CASE k \notin DOMAIN vars -> [source |-> "unresolved", value |-> <<>>]
                   [] OTHER -> [source |-> vars[k].source,
                                value |-> IF vars[k].sensitive THEN maskedValue(vars[k].value) ELSE vars[k].value]
  IN [k \in {KeyOf(t) : t \in {u \in ToSet(text) : u.kind \in {"ref", "dyn"}}} |-> Line(k)]

\* The text in front of the cursor: the reference that is open at its end.
detectTrigger(before) ==
  LET marks == {i \in DOMAIN before : before[i].kind \in {"open", "ref", "dyn"}}
      last == Max({0} \union marks)
  IN IF marks = {} \/ before[last].kind # "open" THEN [start |-> 0, partial |-> <<>>]
     ELSE [start |-> last, partial |-> SubSeq(before, last + 1, Len(before))]

\* What is typed of a name is nothing yet, or all of it.
Suggestions(before, vars) ==
  LET trigger == detectTrigger(before)
  IN {k \in DOMAIN vars : trigger.start # 0 /\ trigger.partial \in {<<>>, <<Lit(k[1].name)>>}}

\* It takes the place of the text from the open reference to the cursor.
applySuggestion(value, start, cursor, k) ==
  IF start = 0 THEN value
  ELSE SubSeq(value, 1, start - 1) \o <<TokenOf(k)>> \o SubSeq(value, cursor + 1, Len(value))

\* The list goes round; the first suggestion is number 0.
handleKeyDown(count, selected, key) ==
  CASE key = "ArrowDown" -> (selected + 1) % count
    [] key = "ArrowUp" -> (selected - 1 + count) % count
    [] OTHER -> selected

(* ---- the GraphQL schema: a type by wrappers, outermost first, and a name ---- *)

\* The introspection query asks for four levels of a type.
Introspected(type) ==
  IF Len(type.wrappers) < 4 THEN type ELSE [wrappers |-> SubSeq(type.wrappers, 1, 4), name |-> ""]

\* The notation of the schema language, from the inside out; a type that goes
\* deeper ends in the kind of its fourth level.
formatGraphQLTypeRef(type) ==
  LET cut == type.name = ""
      outer == IF cut THEN SubSeq(type.wrappers, 1, Len(type.wrappers) - 1) ELSE type.wrappers
      Wrap(w, inner) == IF w = "LIST" THEN <<"[">> \o inner \o <<"]">> ELSE Append(inner, "!")
  IN FoldRight(Wrap, outer, <<IF cut THEN type.wrappers[Len(type.wrappers)] ELSE type.name>>)

namedGraphQLType(type) == type.name

\* By what the name contains: a Point contains int.
placeholderForType(type) ==
  CASE namedGraphQLType(type) \in {"Int", "Float", "Point"} -> "0"
    [] namedGraphQLType(type) = "Boolean" -> "false"
    [] OTHER -> "quotes"

typeByName(schema, name) == SelectSeq(schema.types, LAMBDA t : t.name = name)

rootGraphQLTypes(schema) ==
  FlattenSeq([i \in 1..3 |->
    LET root == schema.roots[i]
    IN IF root = "" \/ typeByName(schema, root) = <<>> THEN <<>>
       ELSE <<[label |-> <<"Query", "Mutation", "Subscription">>[i], type |-> typeByName(schema, root)[1]]>>])

\* An argument with a default value is left to it.
graphQLFieldSnippet(field) ==
  LET given == SelectSeq(field.args, LAMBDA a : ~a.hasDefault)
  IN [name |-> field.name,
      args |-> [i \in DOMAIN given |-> <<given[i].name, placeholderForType(Introspected(given[i].type))>>]]

graphQLAutocompleteFields(schema, typeName) ==
  LET of == typeByName(schema, typeName)
      fields == IF of = <<>> THEN <<>> ELSE of[1].fields
  IN [i \in DOMAIN fields |-> [label |-> fields[i].name, detail |-> formatGraphQLTypeRef(Introspected(fields[i].type)),
                               snippet |-> graphQLFieldSnippet(fields[i])]]

\* What the editor offers: the fields of every root type, wherever the cursor is.
Completions(schema) ==
  FlattenSeq([i \in DOMAIN rootGraphQLTypes(schema) |->
                graphQLAutocompleteFields(schema, rootGraphQLTypes(schema)[i].type.name)])

(* ---- the body of the editor: the text of an object, of rows, or any other ---- *)

BodyText(kind, of) == [kind |-> kind, of |-> of]
IsRows(body) == body.kind \in {"empty", "rows"}

\* A value that is no string becomes its JSON text.
jsonToRowsPatch(body) ==
  IF body.kind \notin {"empty", "object"} THEN body
  ELSE BodyText("rows", [i \in DOMAIN body.of |->
         [key |-> body.of[i].key, value |-> [body.of[i].value EXCEPT !.string = TRUE], enabled |-> TRUE, type |-> "text"]])

\* Object.fromEntries: a key stands where it was first, with the value it had last.
ObjectOf(rows) ==
  LET first == {i \in DOMAIN rows : \A j \in 1..(i - 1) : rows[j].key # rows[i].key}
      at == SetToSortSeq(first, LAMBDA i, j : i < j)
  IN [n \in DOMAIN at |-> [key |-> rows[at[n]].key, value |-> LastByKey(rows)[rows[at[n]].key]]]

rowsToJsonPatch(body) ==
  IF ~IsRows(body) THEN body
  ELSE BodyText("object", ObjectOf(SelectSeq(body.of, LAMBDA r : r.enabled /\ r.type # "file")))

formDataToUrlEncodedPatch(body) ==
  IF ~IsRows(body) THEN body
  ELSE BodyText("rows", [i \in DOMAIN body.of |->
         IF body.of[i].type = "file"
         THEN [body.of[i] EXCEPT !.type = "text", !.value = [text |-> "", string |-> TRUE]] ELSE body.of[i]])

\* What the mode does not tell, the text does: an empty array passes for rows,
\* whatever mode it was typed in.
buildBodyModePatch(body, mode, next) ==
  LET Rows(m) == m \in {"form-data", "urlencoded"}
      Json(m) == m \in {"json", "raw"}
  IN CASE "file" \in {mode, next} -> BodyText("empty", <<>>)
       [] "file" \notin {mode, next} /\ Rows(next) /\ (Json(mode) \/ body.kind = "object") -> jsonToRowsPatch(body)
       [] "file" \notin {mode, next} /\ Json(next) /\ (Rows(mode) \/ body.kind = "rows") -> rowsToJsonPatch(body)
       [] OTHER -> IF mode = "form-data" /\ next = "urlencoded" THEN formDataToUrlEncodedPatch(body) ELSE body

parseKeyValueBody(body) == IF body.kind = "rows" THEN body.of ELSE <<>>

(* ---- the protocol of a request: from its fields where it does not say ---- *)

isGraphQLRequestConfig(fields, protocol) ==
  protocol = "graphql" \/ ({"query", "variables"} \subseteq fields /\ "method" \notin fields)
isWebSocketRequestConfig(fields) == {"messageMode", "message"} \subseteq fields /\ "method" \notin fields
isGrpcRequestConfig(fields) == {"address", "service", "method"} \subseteq fields

inferProtocol(fields, protocol, fallback) ==
  CASE protocol # "" -> protocol
    [] protocol = "" /\ isGraphQLRequestConfig(fields, protocol) -> "graphql"
    [] protocol = "" /\ ~isGraphQLRequestConfig(fields, protocol)
         /\ isWebSocketRequestConfig(fields) -> "websocket"
    [] OTHER -> IF isGrpcRequestConfig(fields) THEN "grpc" ELSE fallback

(* ---- .env files: a value is a sequence of characters, a blank or # is " " ---- *)

Plain(value) == value # <<>> /\ \A i \in DOMAIN value : value[i] \notin {" ", "\\", "newline", "quote"}

\* JSON.stringify of a value that cannot stand as it is.
formatEnvValue(value) ==
  IF Plain(value) THEN value
  ELSE <<"quote">> \o FlattenSeq([i \in DOMAIN value |->
         CASE value[i] = "newline" -> <<"\\", "n">>
           [] value[i] \in {"\\", "quote"} -> <<"\\", value[i]>>
           [] OTHER -> <<value[i]>>]) \o <<"quote">>

\* One pass of String.replace: every occurrence of two characters by one.
RECURSIVE Unescape(_, _, _)
Unescape(text, second, by) ==
  IF Len(text) < 2 THEN text
  ELSE IF text[1] = "\\" /\ text[2] = second
       THEN <<by>> \o Unescape(SubSeq(text, 3, Len(text)), second, by)
       ELSE <<text[1]>> \o Unescape(Tail(text), second, by)

parseEnvValue(raw) ==
  IF raw # <<>> /\ raw[1] = "quote" /\ raw[Len(raw)] = "quote"
  THEN Unescape(Unescape(Unescape(SubSeq(raw, 2, Len(raw) - 1), "n", "newline"),
                         "quote", "quote"), "\\", "\\")
  ELSE raw

exportEnvText(rows, includeSensitive) ==
  LET out == SelectSeq(rows, LAMBDA r : r.enabled /\ r.key # "" /\ (includeSensitive \/ ~r.sensitive))
  IN [i \in DOMAIN out |-> <<out[i].key, formatEnvValue(out[i].value)>>]

parseEnvText(lines, isSensitive) ==
  [i \in DOMAIN lines |-> [key |-> lines[i][1], value |-> parseEnvValue(lines[i][2]),
                           enabled |-> TRUE, sensitive |-> lines[i][1] \in isSensitive]]

(* ---- the AWS signature: a header key is <<lower case name, as written>> ---- *)

Reserved == {"host", "x-amz-date", "x-amz-security-token"}

ToSign(headers) ==
  SelectSeq(headers, LAMBDA h : h.enabled /\ h.key[1] # "" /\ h.key[1] # "authorization")

\* The canonical headers: name to list of values, as the signature has them.
CanonicalHeaders(kept, hasToken) ==
  LET own == {"host", "x-amz-date"}
               \union (IF hasToken THEN {"x-amz-security-token"} ELSE {})
      Values(n) == LET of == SelectSeq(kept, LAMBDA h : h.key[1] = n)
                   IN [i \in DOMAIN of |-> of[i].value]
  IN [n \in own \union {kept[i].key[1] : i \in DOMAIN kept} |->
        IF n \in own THEN <<n>> ELSE Values(n)]

SignedRequest_KeepsReserved(kept, hasToken) ==
  kept \o <<Row(<<"x-amz-date", "X-Amz-Date">>, "x-amz-date")>>

SignedRequest(kept, hasToken) ==
  SelectSeq(kept, LAMBDA h : h.key[1] \notin Reserved)
  \o <<Row(<<"x-amz-date", "X-Amz-Date">>, "x-amz-date")>>
  \o (IF hasToken
      THEN <<Row(<<"x-amz-security-token", "X-Amz-Security-Token">>, "x-amz-security-token")>>
      ELSE <<>>)

\* A part of the path is decoded before it is encoded, so that none is twice:
\* a part is a name and how often it is encoded, where it can be decoded.
awsEncode(part) == [part EXCEPT !.times = @ + 1]
safeDecodeURIComponent(part) == [part EXCEPT !.times = IF @ = 0 THEN 0 ELSE @ - 1]
canonicalAwsPath(path) == [i \in DOMAIN path |-> awsEncode(safeDecodeURIComponent(path[i]))]

\* Sorted as the locale has it: a name is known by its places in the order of
\* the locale and in that of the code points.
canonicalAwsQuery(query) ==
  LET Before(p, q) == \/ p.key.locale < q.key.locale
                      \/ p.key.locale = q.key.locale /\ p.value < q.value
  IN SortSeq(query, Before)

\* The key is made for a day, a region and a service.
awsSigningKey(secret, scope) == FoldLeft(LAMBDA key, part : <<"hmac", key, part>>, <<"AWS4", secret>>,
                                         Append(scope, "aws4_request"))

signAwsSigV4Request(headers, hasToken, path, query, auth) ==
  LET kept == ToSign(headers)
  IN [headers |-> SignedRequest(kept, hasToken)
                  \o <<Row(<<"authorization", "Authorization">>, "signature")>>,
      scope |-> auth.scope, key |-> awsSigningKey(auth.secret, auth.scope),
      path |-> canonicalAwsPath(path), query |-> canonicalAwsQuery(query),
      signature |-> CanonicalHeaders(kept, hasToken)]

(* ---- digest: a quoted text is a sequence of characters ---- *)

escapeDigestValue(text) ==
  FlattenSeq([i \in DOMAIN text |-> IF text[i] \in {"\\", "quote"} THEN <<"\\", text[i]>> ELSE <<text[i]>>])

\* Of a quoted value only the quotes are unescaped.
parseDigestChallenge(challenge) ==
  [f \in DOMAIN challenge |->
     IF f \in {"realm", "nonce", "opaque"} THEN Unescape(challenge[f], "quote", "quote") ELSE challenge[f]]

\* The path and the query of the URL; the fragment stays here.
digestUri(url) == <<url.path, url.query>>

\* Any algorithm but SHA-256 is taken for MD5, and is named as the server did.
digestAuthorizationHeader(auth, method, url, challenge, cnonce) ==
  LET values == parseDigestChallenge(challenge)
      qop == IF "auth" \in values.qop THEN "auth" ELSE ""
      Hash(parts) == <<IF values.algorithm = "SHA-256" THEN "sha256" ELSE "md5", parts>>
      ha1 == Hash(<<auth.username, values.realm, auth.password>>)
      ha2 == Hash(<<method, digestUri(url)>>)
  IN [username |-> escapeDigestValue(auth.username), realm |-> escapeDigestValue(values.realm),
      nonce |-> escapeDigestValue(values.nonce), opaque |-> escapeDigestValue(values.opaque),
      uri |-> digestUri(url), algorithm |-> values.algorithm,
      qop |-> qop, nc |-> IF qop = "" THEN 0 ELSE 1, cnonce |-> IF qop = "" THEN "" ELSE cnonce,
      response |-> Hash(IF qop = "" THEN <<ha1, values.nonce, ha2>>
                        ELSE <<ha1, values.nonce, 1, cnonce, qop, ha2>>)]
=============================================================================
