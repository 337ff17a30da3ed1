-------------------------------- MODULE MCCore --------------------------------
(***************************************************************************)
(* The pure functions around one request and its response, of packages/    *)
(* core and of the editors, over all inputs of a small grammar.  A         *)
(* behaviour picks an input of one area, and the invariants compare what   *)
(* the functions say with each other or with a reference.  One area takes  *)
(* steps: the timings of a request, whose redirects use the connection     *)
(* that is open.                                                           *)
(***************************************************************************)
EXTENDS CodeGen, ResponseChecks

VARIABLES area, input

vars == <<area, input, timed>>

X == Lit("x")
Y == Lit("y")
Key(n) == <<Lit(n)>>
Var(n, text, on) == [key |-> Key(n), value |-> text, enabled |-> on]
UpTo(S, n) == UNION {[1..k -> S] : k \in 0..n}

(* ---- templates ---- *)

Names == {"a", "b", "c", "d"}
Values == {<<X>>, <<Ref("b")>>, <<Ref("c")>>, <<Ref("d"), Ref("a")>>, <<Ref("d")>>,
           <<Dyn("known")>>, <<Dyn("other")>>}
Templates ==
  [text : {<<Ref("a")>>, <<X, Ref("b"), Ref("c")>>},
   vars : UNION {[{Key(n) : n \in D} -> Values] : D \in SUBSET Names}]

RefsIn(text) == {text[i].name : i \in {j \in DOMAIN text : text[j].kind = "ref"}}
RECURSIVE RefsAt(_, _, _)
\* The names referred to by the texts k references below a template.
RefsAt(text, vs, k) ==
  IF k = 0 THEN RefsIn(text)
  ELSE UNION {RefsIn(vs[Key(n)]) : n \in {m \in RefsAt(text, vs, k - 1) : Key(m) \in DOMAIN vs}}

\* resolveTemplate replaces what can be replaced and reports the rest: for a
\* template whose references end within the depth that is followed, the names
\* left in the text are the ones reported, and they are the undefined ones.
TemplatesResolved ==
  area = "template" =>
    LET r == resolveTemplate(input.text, input.vars)
        all == UNION {RefsAt(input.text, input.vars, k) : k \in 0..MaxDepth}
        missing == {n \in all : Key(n) \notin DOMAIN input.vars}
    IN /\ r.unresolved = missing
       /\ RefsAt(input.text, input.vars, MaxDepth + 1) = {} =>
            RefsIn(r.value) \subseteq missing

(* ---- requests ---- *)

Auths ==
  {[type |-> t, username |-> <<>>, password |-> <<>>, token |-> tok, apiKeyName |-> Key("k"),
    apiKeyValue |-> tok, apiKeyIn |-> in] :
     t \in {"none", "basic", "bearer", "api-key"}, tok \in {<<>>, <<Ref("a")>>},
     in \in {"header", "query"}}
Scopes == {<<>>, <<Var("a", <<X>>, TRUE)>>, <<Var("a", <<X>>, FALSE)>>}
Requests ==
  [request : [url : [base : {<<Lit("u")>>, <<Lit("u"), Path("p")>>}, query : {<<>>, <<<<Key("q"), <<X>>>>>>}],
              params : UpTo([key : {Key("k"), <<>>}, value : {<<Ref("a")>>}, enabled : BOOLEAN], 1),
              headers : {<<>>, <<Row(Authorization, <<Y>>)>>},
              body : {<<Ref("a")>>}, auth : Auths,
              variables : {<<>>, <<Var("a", <<Y>>, TRUE)>>},
              pathVariables : {<<>>, <<Var("p", <<Ref("a")>>, TRUE)>>},
              options : {<<>>, [proxyUrl |-> <<Ref("b")>>]}],
   environment : Scopes, session : {<<>>, <<Var("a", <<Lit("z")>>, TRUE)>>}]

\* resolveRequest sends what the editor shows: a name gets the value of the
\* last scope that has it (environment, request, session), a query string
\* typed into the URL gives way to the enabled parameters and the key of the
\* authorization, and a request with nothing unresolved carries no template,
\* except in a path variable, which is encoded as it stands.
RequestSentAsShown ==
  area = "request" =>
    LET r == resolveRequest(input.request, input.environment, input.session)
        sent == r.request
        On(rows) == \E i \in DOMAIN rows : rows[i].enabled
        a == CASE On(input.session) -> <<Lit("z")>>
               [] ~On(input.session) /\ On(input.request.variables) -> <<Y>>
               [] OTHER -> IF On(input.environment) THEN <<X>> ELSE <<Ref("a")>>
        shown == SelectSeq(input.request.params, LAMBDA p : p.enabled /\ p.key # <<>>)
        auth == input.request.auth
    IN /\ sent.body = a
       /\ r.unresolved = {} => RefsIn(sent.body) = {} /\ \A t \in Texts(sent) : RefsIn(t) = {}
       /\ [i \in 1..Len(shown) |-> sent.url.query[i]]
            = [i \in 1..Len(shown) |-> <<shown[i].key, a>>]
       /\ Len(sent.url.query) - Len(shown)
            = IF auth.type = "api-key" /\ auth.apiKeyIn = "query" /\ auth.token # <<>>
              THEN 1 ELSE 0

(* ---- the other protocols ---- *)

Text == <<Ref("a")>>
OneRow == <<Row(Key("h"), Text)>>
FieldsOf == [rest |-> {"method", "url", "params", "headers", "bodyMode", "body", "auth", "variables"},
             graphql |-> {"url", "headers", "auth", "query", "variables", "operationName"},
             websocket |-> {"url", "protocols", "headers", "auth", "messageMode", "message"},
             grpc |-> {"address", "service", "method", "metadata", "body", "auth"}]
Protocols ==
  [auth : {a \in Auths : a.type # "basic"}, variables : {<<>>, <<Var("a", <<Y>>, TRUE)>>},
   environment : Scopes, session : {<<>>, <<Var("a", <<Lit("z")>>, TRUE)>>},
   httpMethod : {"GET", "POST"}, gqlVariables : {JsonText("blank", <<>>), JsonText("array", <<>>), EmptyObject, JsonText("object", "v" :> "value")}, operationName : {"", "Op"},
   typed : BOOLEAN]

\* The four kinds of request give one text one value, and one authorization
\* the same headers over HTTP and over a WebSocket.  GraphQL has no scope of
\* the request, and gRPC leaves the authorization alone.  A request of each
\* kind is recognised by its fields, and a GraphQL operation sent as GET or
\* as POST is the same operation, with one content type when it has a body.
ProtocolsAgree ==
  area = "protocol" =>
    LET e == input.environment
        s == input.session
        url == [base |-> Text, query |-> <<>>]
        proxied == [proxyUrl |-> Text]
        rest == resolveRequest([url |-> url, params |-> <<>>, headers |-> OneRow, body |-> Text,
                                auth |-> input.auth, variables |-> input.variables,
                                pathVariables |-> <<>>, options |-> proxied], e, s).request
        ws == resolveWebSocketRequest([url |-> url, protocols |-> <<>>, headers |-> OneRow,
                                       message |-> Text, auth |-> input.auth,
                                       variables |-> input.variables, options |-> proxied], e, s)
        grpc == resolveGrpcRequest([address |-> Text, service |-> <<>>, method |-> <<>>,
                                    metadata |-> OneRow, body |-> Text, auth |-> input.auth,
                                    variables |-> input.variables, options |-> proxied], e, s)
        gql == resolveGraphQLRequest([url |-> Text, headers |-> OneRow, query |-> Text,
                                      variables |-> Text, operationName |-> <<>>,
                                      auth |-> input.auth, options |-> proxied], e, s)
        Http(m) == graphQLToRequestConfig(
                     [httpMethod |-> m, query |-> "q", variables |-> input.gqlVariables,
                      operationName |-> input.operationName, contentType |-> "application/json",
                      headers |-> IF input.typed
                                  THEN <<Row(<<"content-type", "content-type">>, "own")>> ELSE <<>>])
    IN /\ ws.url = rest.url /\ ws.headers = rest.headers
       /\ ws.message = rest.body /\ grpc.body = rest.body
       /\ grpc.metadata[1] = rest.headers[1]
       /\ rest.options.proxyUrl = rest.body /\ ws.options = rest.options /\ grpc.options = rest.options
       /\ input.variables = <<>> =>
            gql.query = rest.body /\ gql.headers[1] = rest.headers[1] /\ gql.options = rest.options
       /\ \A p \in DOMAIN FieldsOf : inferProtocol(FieldsOf[p], "", "rest") = p
       /\ Http("GET").operation = Http("POST").operation
       /\ "variables" \notin Http("GET").params => Http("POST").operation.variables = EmptyObject
       /\ "operationName" \notin Http("GET").params => Http("POST").operation.operationName = ""
       /\ Len(SelectSeq(Http("POST").headers, LAMBDA h : h.key[1] = "content-type")) = 1

(* ---- a GraphQL operation from the editor ---- *)

Definitions == [kind : {"operation"}, operation : {"query"}, name : {"", "A", "B"},
                vars : UpTo([name : {"v"}, required : BOOLEAN], 1)]
                 \union {[kind |-> "fragment", name |-> "F"]}
JsonTexts == {JsonText(k, <<>>) : k \in {"blank", "invalid", "null", "array"}}
               \union {JsonText("object", f) : f \in {<<>>, "w" :> "value"} \union [{"v"} -> {"null", "value"}]}
GraphQLRequests ==
  [query : [kind : {"blank", "broken"}, defs : {<<>>}] \union [kind : {"parsed"}, defs : UpTo(Definitions, 2) \ {<<>>}],
   variables : JsonTexts, operationName : {"", "A", "old"}, httpMethod : {"GET", "POST"}, batchMode : BOOLEAN,
   uploads : {<<>>, <<"f">>, <<"v", "f">>}, contentType : {"application/json"}, headers : {<<>>}]

\* What the GraphQL editor sends is what it shows.  Its effects settle at once,
\* give every declared variable an entry without touching one that is there,
\* and throw only for a text that is null; a request is held back only for a
\* blank document, variables that cannot be read, as their panel says unless the
\* effects replace them, or a required one that is missing or null.  A batch has every operation once under its name, and
\* a file is mapped to a variable that is sent as null; a request with GET
\* has neither, and several operations in one body keep the name that was set.
GraphQLSentAsShown ==
  area = "graphql" =>
    LET settled == EditorEffects(input)
        shown == settled.variables
        declared == ToSet(extractQueryVarDefs(input.query))
        ops == OperationsIn(input.query)
        r == buildGraphQLExecutionRequest(settled, input.uploads)
        NeedsV == \E i \in DOMAIN ops : \E j \in DOMAIN ops[i].vars : ops[i].vars[j].required
        Entries(text) == IF text.kind = "array" THEN <<>> ELSE text.of
        typed == handleVariablesChange(input, input.variables)
        more == addFile(addFile(<<>>, "g", "picture"), "", "f")
        files == buildGraphQLExecutionRequest(settled, updateVarPath(more, 1, "v"))
    IN /\ typed.request = input
       /\ typed.jsonError <=> input.variables.kind = "invalid"
       /\ typed.jsonError => r.outcome = "refused" \/ shown.kind = "object"
       /\ removeFile(more, 1) = <<"f">> /\ removeFile(more, 2) = <<"g">>
       /\ files.outcome = "files" => files.body.map = <<"v", "f">>
       /\ shown = Thrown <=> input.variables.kind = "null" /\ declared # {}
       /\ shown # Thrown =>
            /\ EditorEffects(settled) = settled
            /\ shown.kind = "object" => declared \subseteq DOMAIN shown.of
            /\ \A n \in DOMAIN input.variables.of : shown.of[n] = input.variables.of[n]
            /\ r.outcome = "refused" <=>
                 \/ input.query.kind = "blank"
                 \/ input.variables.kind = "invalid" /\ declared = {}
                 \/ NeedsV /\ ("v" \notin DOMAIN input.variables.of \/ input.variables.of["v"] = "null")
            /\ r.outcome = "files" =>
                 /\ r.body.map = input.uploads
                 /\ \A n \in DOMAIN Entries(shown) \ ToSet(input.uploads) :
                      r.body.operations.variables.of[n] = shown.of[n]
                 /\ shown.kind # "array" =>
                      \A n \in ToSet(input.uploads) : r.body.operations.variables.of[n] = "null"
            /\ r.outcome = "batch" /\ Len(ops) > 1 =>
                 /\ [i \in DOMAIN r.body |-> r.body[i].operationName] = [i \in DOMAIN ops |-> ops[i].name]
                 /\ \A i \in DOMAIN r.body : r.body[i].query.defs = <<ops[i]>> /\ Entries(r.body[i].variables) = Entries(shown)
            /\ r.outcome = "sent" =>
                 /\ r.body.query = input.query /\ Entries(r.body.variables) = Entries(shown)
                 /\ Len(ops) = 1 => r.body.operationName = ops[1].name
                 /\ input.httpMethod = "POST" => input.uploads = <<>> /\ ~input.batchMode

(* ---- OAuth2 ---- *)

TokenAnswers == {[g EXCEPT !.status = s] : g \in [status : {"ok"}, accessToken : {"", "t3"}, refreshToken : {"", "r3"},
                                                  expiresIn : {0, 1, 3}], s \in {"ok", "refused", "unreadable"}}
OAuth2Inputs ==
  [auth : [type : {"oauth2"}, flow : {"client_credentials", "authorization_code"}, authUrl : {"", "a"}, tokenUrl : {"u"},
           clientId : {"", "c"}, clientSecret : {"", "s"}, scope : {"", "o"}, pkce : BOOLEAN, accessToken : {""},
           refreshToken : {""}, tokenExpiresAt : {0}],
   result : [status : {"done"}, accessToken : {"", "t2"}, refreshToken : {"", "r2"}, expiresIn : {0, 1, 3}]
              \union [status : {"pending", "unknown"}, accessToken : {""}, refreshToken : {""}, expiresIn : {0}],
   answer : TokenAnswers, at : {3, 5}]

\* A request of the OAuth2 kind is sent with the newest token there is: the one
\* the panel was given in minute 2, unless it is about to expire and can be
\* renewed, or the one the provider grants for it.  The renewed token is what is
\* saved, and renews itself no sooner than it expires; the provider is asked once
\* at most, with the refresh token it gave last.  Nobody is told when an answer
\* in order names no token; else a request goes without one only after a warning
\* or for want of an authorization.  The verifier that the server keeps answers
\* the challenge in the URL.
TokensAreCurrent ==
  area = "oauth2" =>
    LET started == startAuthorization(input.auth, "raw")
        stored == IF MayAuthorize(input.auth) THEN oauthResult(input.auth, input.result, 2) ELSE input.auth
        r == applyOAuth2Token(stored, input.answer, input.at)
        again == applyOAuth2Token(r.saved, input.answer, input.at)
        code == input.auth.flow = "authorization_code"
        old == stored.tokenExpiresAt # 0 /\ stored.tokenExpiresAt <= input.at
        asks == IF code THEN old /\ stored.refreshToken # "" ELSE TRUE
        got == asks /\ input.answer.status = "ok" /\ input.answer.accessToken # ""
    IN /\ PollAgain(input.result.status) => stored = input.auth
       /\ started.url.challenge = <<>> <=> started.kept.codeVerifier = ""
       /\ started.url.challenge # <<>> => started.url.challenge = <<"S256", started.kept.codeVerifier>>
       /\ {f \in DOMAIN stored : stored[f] # input.auth[f]} \subseteq TokenFields
       /\ MayAuthorize(input.auth) => {"authUrl", "tokenUrl", "clientId", "pkce"} \subseteq ShownFields(input.auth)
       /\ Len(r.asked) = (IF asks THEN 1 ELSE 0)
       /\ IF got THEN r.auth.type = "bearer" /\ r.auth.token = input.answer.accessToken
          ELSE IF stored.accessToken # "" THEN r.auth.type = "bearer" /\ r.auth.token = stored.accessToken
          ELSE r.auth = input.auth
       /\ asks /\ ~got => r.warned \/ input.answer.status = "ok"
       /\ code /\ r.auth.type = "bearer" => r.saved.accessToken = r.auth.token /\ r.saved.refreshToken \in {stored.refreshToken, input.answer.refreshToken}
       /\ code /\ stored.refreshToken # "" => r.saved.refreshToken # ""
       /\ code /\ got /\ input.answer.expiresIn # 1 => again.asked = <<>> /\ ~again.warned

(* ---- scopes ---- *)

Folders == <<[id |-> "f1", variables |-> <<Var("a", <<Lit("f1")>>, TRUE)>>], [id |-> "f2", variables |-> <<Var("a", <<Lit("f2")>>, TRUE)>>]>>
Collections == <<[id |-> "c1", variables |-> <<Var("a", <<Lit("c1")>>, TRUE), Var("b", <<Lit("c1")>>, TRUE)>>],
                 [id |-> "c2", variables |-> <<Var("b", <<Lit("c2")>>, FALSE)>>]>>
Places1 == [id : {"r"}, collectionId : {"", "c1", "c2"}, folderId : {"", "f1", "f2"}]
ScopeInputs == [request : [id : {"", "r"}, collectionId : {"", "c1", "c2"}, folderId : {"", "f1"}, variables : Scopes],
                saved : UpTo(Places1, 1), environment : Scopes, session : {<<>>, <<Var("a", <<Lit("z")>>, TRUE)>>}]

\* The innermost scope that has a variable gives it its value, from the session
\* over the request, the folder and the collection it is saved in to the
\* environment; for a request that is saved those are where it lies now, even
\* when the editor still has it elsewhere, save for a folder it was taken out of.
InnermostWins ==
  area = "scopes" =>
    LET q == input.request
        is == q.id # "" /\ input.saved # <<>>
        lies == IF is THEN input.saved[1] ELSE q
        folder == IF is /\ lies.folderId = "" THEN q.folderId ELSE lies.folderId
        collection == IF is /\ lies.collectionId = "" THEN q.collectionId ELSE lies.collectionId
        vs == variablesFromScopes(buildExecutionScopeContext(q, input.saved, Collections, Folders,
                                                             input.environment, input.session))
        On(rows) == rows # <<>> /\ rows[1].enabled
        a == CASE On(input.session) -> {<<Lit("z")>>}
               [] ~On(input.session) /\ On(q.variables) -> {<<X>>}
               [] OTHER -> IF folder # "" THEN {<<Lit(folder)>>}
                           ELSE IF collection = "c1" THEN {<<Lit("c1")>>}
                           ELSE IF On(input.environment) THEN {<<X>>} ELSE {}
    IN /\ {vs[k] : k \in DOMAIN vs \intersect {Key("a")}} = a
       /\ Key("b") \in DOMAIN vs <=> collection = "c1"

(* ---- a field that completes variables ---- *)

Marked(rows, flag) == [i \in DOMAIN rows |-> rows[i] @@ [sensitive |-> flag]]
FieldInputs ==
  [before : {<<Open>>, <<X, Open>>, <<Ref("a"), Open, Lit("a")>>, <<X, Open, Lit("known")>>, <<Open, Lit("y")>>,
             <<X, Ref("a")>>, <<Open, Dyn("known")>>},
   after : {<<>>, <<Y>>, <<Ref("b"), Ref("c"), Dyn("other")>>}, environment : Scopes, flag : BOOLEAN,
   session : {<<>>, <<Var("a", <<Lit("z")>>, TRUE)>>, <<Var("b", <<Y>>, TRUE)>>}, own : Scopes, selected : 0..2]

\* What a field says of its variables is what will be sent for them: the
\* tooltip has the value of the session before the one of the environment, the
\* one that is sent unless the request itself has the variable and the session
\* has not, says unresolved of no variable but of those, and shows no value that
\* is marked as secret.  An accepted suggestion is one of these variables, closes
\* the reference that was open, and touches nothing in front of it or behind the
\* cursor; the arrow keys lead back to where they started.
VariablesAreTold ==
  area = "field" =>
    LET known == allVars(Marked(input.environment, input.flag), Marked(input.session, FALSE), {Key("b")})
        told == variablesFromScopes(<<input.environment, input.session>>)
        sent == variablesFromScopes(<<input.environment, input.own, input.session>>)
        own == DOMAIN variablesFromKeyValues(input.own) \ DOMAIN variablesFromKeyValues(input.session)
        start == detectTrigger(input.before).start
        value == input.before \o input.after
        Accept(k) == applySuggestion(value, start, Len(input.before), k)
        Sent(k) == resolveTemplate(<<TokenOf(k)>>, sent)
        Holds(k, line) ==
          CASE line.source = "unresolved" -> Sent(k).value = <<TokenOf(k)>> \/ k \in own
            [] line.source = "dynamic" -> Sent(k).value = <<dynamicVariable(TokenOf(k).name)>>
            [] OTHER -> /\ k \in own \/ told[k] = sent[k]
                        /\ line.source = "session" <=> k \in DOMAIN variablesFromKeyValues(input.session)
                        /\ IF k = Key("b") \/ (input.flag /\ line.source = "environment")
                           THEN line.value = maskedValue(told[k]) ELSE line.value = told[k]
    IN /\ start # 0 <=> input.before[Len(input.before)] \in {Open, Lit("a"), Lit("known"), Lit("y")}
       /\ Suggestions(input.before, known) # {} => start # 0
       /\ \A k \in Suggestions(input.before, known) :
            LET text == Accept(k)
                title == variableTitle(text, known)
            IN /\ title[k].source # "unresolved"
               /\ \A n \in DOMAIN title : Holds(n, title[n])
               /\ IsPrefix(SubSeq(input.before, 1, start - 1), text) /\ IsSuffix(input.after, text)
               /\ detectTrigger(SubSeq(text, 1, Len(text) - Len(input.after))).start = 0
               /\ Len(text) = start + Len(input.after)
       /\ start = 0 => Accept(Key("a")) = value
       /\ handleKeyDown(3, handleKeyDown(3, input.selected, "ArrowDown"), "ArrowUp") = input.selected
       /\ handleKeyDown(3, input.selected, "ArrowUp") \in 0..2

(* ---- completion ---- *)

Wrappers == {w \in UpTo({"NON_NULL", "LIST"}, 5) :
               \A i \in 1..(Len(w) - 1) : w[i] = "NON_NULL" => w[i + 1] # "NON_NULL"}
                 \ {w \in UpTo({"NON_NULL", "LIST"}, 5) : w # <<>> /\ w[Len(w)] = "LIST" /\ Len(w) > 4}
Typed == [wrappers : Wrappers, name : {"Int", "Boolean", "Point", "Other"}]
Args == [name : {"x"}, type : {t \in Typed : Len(t.wrappers) \in {0, 1, 4}}, hasDefault : BOOLEAN]
Fields == [name : {"g"}, args : UpTo(Args, 1), type : Typed]
Schemas == [roots : {<<"Q", "", "">>, <<"Q", "M", "">>, <<"Q", "Q", "gone">>},
            types : {<<[name |-> "Q", fields |-> <<g>>], [name |-> "M", fields |-> <<[name |-> "h", args |-> <<>>, type |-> t]>>]>> :
                       g \in {g \in Fields : g.type.wrappers = <<>>}, t \in {t \in Typed : t.name = "Int"}}]

\* What a notation of the schema language says of its outermost level.
Nullable(text) == text = <<>> \/ text[Len(text)] # "!"

\* Completion offers what the schema has: the fields of the root types it
\* describes, a root once for each role, with the arguments that have no default,
\* each once; the type is written as the schema has it, as deep as the
\* introspection query asks, and shows at any depth whether it may be null.
CompletionsFit ==
  area = "schema" =>
    LET offered == Completions(input)
        roots == SelectSeq(input.roots, LAMBDA r : \E i \in DOMAIN input.types : input.types[i].name = r)
        all == FlattenSeq([i \in DOMAIN roots |-> typeByName(input, roots[i])[1].fields])
        Depth(text) == Cardinality({i \in DOMAIN text : text[i] \in {"[", "!"}})
    IN /\ [i \in DOMAIN offered |-> offered[i].label] = [i \in DOMAIN all |-> all[i].name]
       /\ \A i \in DOMAIN all :
            LET detail == offered[i].detail
                args == offered[i].snippet.args
            IN /\ Nullable(detail) <=> all[i].type.wrappers = <<>> \/ all[i].type.wrappers[1] = "LIST"
               /\ Len(all[i].type.wrappers) < 4 =>
                    /\ Depth(detail) = Len(all[i].type.wrappers) /\ all[i].type.name \in ToSet(detail)
               /\ {args[k][1] : k \in DOMAIN args} = {a.name : a \in {b \in ToSet(all[i].args) : ~b.hasDefault}}
               /\ \A k \in DOMAIN args : all[i].args[k].type.name = "Int" /\ Len(all[i].args[k].type.wrappers) < 4
                                            => args[k][2] = "0"

(* ---- bodies ---- *)

Value(t, s) == [text |-> t, string |-> s]
Pairs1 == [key : {"k", "l"}, value : {Value("1", TRUE), Value("2", FALSE)}]
BodyTexts == {BodyText("empty", <<>>), BodyText("other", <<>>)}
               \union {BodyText("object", o) : o \in {p \in UpTo(Pairs1, 2) : Len(p) = 2 => p[1].key # p[2].key}}
               \union {BodyText("rows", r) : r \in UpTo([key : {"k", "l"}, value : {Value("1", TRUE), Value("3", TRUE)},
                                                         enabled : BOOLEAN, type : {"text", "file"}], 2)}
Modes == {"none", "json", "raw", "form-data", "urlencoded", "file"}
BodyInputs == [body : BodyTexts, mode : Modes, next : Modes]

\* Changing the kind of a body keeps what the other kind can hold, and a text
\* that is neither an object nor rows is kept as it is: an object turned into
\* rows and back has its keys in order, every value as text; rows turned into an
\* object and back are the enabled text rows, the last of each key; no file is
\* left in a form without files.  A list typed as JSON is safe from the other kind
\* of text alone as long as it does not look like rows.
BodySurvivesItsMode ==
  area = "body" =>
    LET b == input.body
        mode == input.mode
        next == input.next
        r == buildBodyModePatch(b, mode, next)
        Rows(m) == m \in {"form-data", "urlencoded"}
        Json(m) == m \in {"json", "raw"}
        back == buildBodyModePatch(r, next, mode)
        sent == SelectSeq(b.of, LAMBDA x : x.enabled /\ x.type = "text")
        Texts1(ps) == [i \in DOMAIN ps |-> <<ps[i].key, ps[i].value.text>>]
    IN /\ "file" \in {mode, next} => r.kind = "empty"
       /\ "file" \notin {mode, next} =>
            /\ b.kind = "other" => r = b
            /\ Json(mode) /\ Json(next) /\ b.kind # "rows" => r = b
            /\ b.kind = "object" /\ Rows(next) => Texts1(r.of) = Texts1(b.of) /\ \A x \in ToSet(r.of) : x.enabled /\ x.value.string
            /\ b.kind = "object" /\ Rows(next) /\ Json(mode) => back.kind = "object" /\ Texts1(back.of) = Texts1(b.of)
            /\ b.kind = "rows" /\ Json(next) =>
                 /\ LastByKey(r.of) = LastByKey(sent)
                 /\ Cardinality({x.key : x \in ToSet(r.of)}) = Len(r.of)
                 /\ Rows(mode) => parseKeyValueBody(back) = [i \in DOMAIN r.of |->
                      [key |-> r.of[i].key, value |-> r.of[i].value, enabled |-> TRUE, type |-> "text"]]
            /\ b.kind = "rows" /\ mode = "form-data" /\ next = "urlencoded" =>
                 /\ Len(r.of) = Len(b.of) /\ \A x \in ToSet(r.of) : x.type = "text"
                 /\ \A i \in DOMAIN b.of : b.of[i].type = "text" => r.of[i] = b.of[i]

EnvRows == [rows : UpTo([key : {"K", ""}, enabled : BOOLEAN, sensitive : BOOLEAN,
                         value : UpTo({"c", "n", " ", "\\", "newline", "quote"}, 3)], 1),
            includeSensitive : BOOLEAN]

\* exportEnvText and parseEnvText are inverse on the rows that are exported,
\* for every value without a backslash before an n (which comes back as a
\* line break: the escapes are undone one kind after the other).
EnvTextKept ==
  area = "env" =>
    LET out == SelectSeq(input.rows, LAMBDA r : r.enabled /\ r.key # ""
                           /\ (input.includeSensitive \/ ~r.sensitive))
        back == parseEnvText(exportEnvText(input.rows, input.includeSensitive), {"K"})
        broken(v) == \E i \in 1..(Len(v) - 1) : v[i] = "\\" /\ v[i + 1] = "n"
    IN /\ Len(back) = Len(out)
       /\ \A i \in DOMAIN out : back[i].key = out[i].key /\
            (back[i].value = out[i].value \/ broken(out[i].value))

(* ---- signatures ---- *)

HeaderNames == {<<"x", "X">>, <<"x", "x">>, <<"host", "Host">>, <<"x-amz-date", "X-Amz-Date">>,
                <<"x-amz-security-token", "X-Amz-Security-Token">>,
                <<"authorization", "authorization">>, <<"", "">>}
HeaderRows(names) == [key : names, value : {"1", "2"}, enabled : BOOLEAN]
QueryKeys == {[locale |-> 1, code |-> 2], [locale |-> 2, code |-> 1], [locale |-> 3, code |-> 3]}
Signings == [headers : UpTo(HeaderRows(HeaderNames), 2), hasToken : BOOLEAN, path : {<<>>}, query : {<<>>}]
              \union [headers : {<<>>}, hasToken : {FALSE}, path : UpTo([name : {"x", "y"}, times : 0..2], 2),
                      query : UpTo([key : QueryKeys, value : 1..2], 3)]

\* signAwsSigV4Request signs what is sent: for every signed header but Host
\* the values in the request are the values in the canonical headers, in
\* order, and nothing is sent unsigned.  The one case the code gets wrong is
\* left out: a session token header of the user's own, without a session
\* token in the authorization, is signed and then removed.  A path is
\* signed encoded once, whether it was or not, and a query in one order, which is the
\* order of the code points as long as no key in upper case comes after one in
\* lower case.
SignatureMatches ==
  area = "signature" =>
    LET auth == [secret |-> "secret", scope |-> <<"day", "region", "service">>]
        s == signAwsSigV4Request(input.headers, input.hasToken, input.path, input.query, auth)
        ValuesOf(n) == LET of == SelectSeq(s.headers, LAMBDA h : h.key[1] = n)
                       IN [i \in DOMAIN of |-> of[i].value]
    IN /\ \A n \in DOMAIN s.signature \ {"host"} :
            \/ n = "x-amz-security-token" /\ ~input.hasToken
            \/ ValuesOf(n) = s.signature[n]
       /\ {s.headers[i].key[1] : i \in DOMAIN s.headers} \ {"authorization"}
            \subseteq DOMAIN s.signature
       /\ \A i \in DOMAIN input.path : s.path[i].name = input.path[i].name
            /\ (input.path[i].times <= 1 <=> s.path[i].times = 1)
       /\ \A p \in ToSet(input.query) :
            Len(SelectSeq(s.query, LAMBDA q : q = p)) = Len(SelectSeq(input.query, LAMBDA q : q = p))
       /\ ~({1, 2} \subseteq {p.key.code : p \in ToSet(input.query)}) =>
            \A i \in 1..(Len(s.query) - 1) :
              \/ s.query[i].key.code < s.query[i + 1].key.code
              \/ s.query[i].key = s.query[i + 1].key /\ s.query[i].value <= s.query[i + 1].value

(* ---- digest ---- *)

Quoted == {<<"x">>, <<"x", "quote">>, <<"\\", "x">>}
Digests ==
  [auth : [username : Quoted, password : {"p"}], path : {"/"}, query : {"", "q"}, fragment : {"", "f"},
   realm : Quoted, nonce : {<<"n">>, <<"\\">>}, opaque : {<<>>, <<"o">>}, qop : SUBSET {"auth", "auth-int"},
   algorithm : {"MD5", "SHA-256", "SHA-512-256"}]

Unescaped(text) == Unescape(Unescape(text, "quote", "quote"), "\\", "\\")

\* The server that sent the challenge accepts the answer: it computes from the
\* header, its own realm and nonce and the password the response that is there.
\* Left out are what the code does not do: an algorithm but the two, a server
\* that insists on the integrity of the body, and a realm or a nonce with a
\* backslash, which is taken for two.
DigestAccepted ==
  area = "digest" =>
    LET realm == input.realm
        challenge == [realm |-> escapeDigestValue(realm), nonce |-> escapeDigestValue(input.nonce),
                      opaque |-> escapeDigestValue(input.opaque), qop |-> input.qop, algorithm |-> input.algorithm]
        h == digestAuthorizationHeader(input.auth, "GET", [path |-> input.path, query |-> input.query,
                                                           fragment |-> input.fragment], challenge, "cnonce")
        Of(parts) == <<IF input.algorithm = "MD5" THEN "md5" ELSE "sha256", parts>>
        ha1 == Of(<<Unescaped(h.username), realm, input.auth.password>>)
        ha2 == Of(<<"GET", <<input.path, input.query>>>>)
        expected == IF h.qop = "" THEN Of(<<ha1, input.nonce, ha2>>)
                    ELSE Of(<<ha1, input.nonce, h.nc, h.cnonce, h.qop, ha2>>)
        covered == input.algorithm # "SHA-512-256" /\ input.qop # {"auth-int"}
        plain == \A t \in {realm, input.nonce} : "\\" \notin ToSet(t)
    IN /\ covered /\ plain => h.response = expected /\ Unescaped(h.realm) = realm /\ Unescaped(h.nonce) = input.nonce
       /\ h.uri = <<input.path, input.query>> /\ Unescaped(h.username) = input.auth.username
       /\ Unescaped(h.opaque) = input.opaque /\ h.algorithm = input.algorithm
       /\ h.qop # "" => h.qop \in input.qop
       /\ covered /\ ~plain => h.response # expected

(* ---- snippets ---- *)

Operations == [kind : {"query", "mutation", "subscription"}, vars : {"none", "some"}, named : {TRUE}]
Bodies == {[text |-> t, gql |-> NoOperation] : t \in {"empty", "object", "other"}}
            \union {[text |-> "object", gql |-> g] : g \in Operations}
SnippetNames == {<<"content-type", "Content-Type">>, <<"content-type", "content-type">>,
                 <<"x", "X">>, <<"", "">>}
Snippets ==
  [method : {"GET", "POST", "OPTIONS"}, headers : UpTo(HeaderRows(SnippetNames), 2),
   bodyMode : {"none", "json", "graphql-multipart"}, body : Bodies]

ByKey(pairs) ==
  LastByKey([i \in DOMAIN pairs |-> [key |-> pairs[i][1], value |-> pairs[i][2]]])

\* The generators agree: whatever the target, a snippet has the method, every
\* enabled header with its last value and no other, and a body exactly when
\* the request has one.  Where Content-Type is the library's business (C#,
\* multipart with curl) it is not among the headers.  A GraphQL operation keeps
\* its variables in every GraphQL target, and only Apollo's hook for a query or
\* a subscription with variables, which is not JavaScript, is refused.
SnippetsCarryTheRequest ==
  area = "snippet" =>
  /\ \A t \in GraphQLTargets :
      LET p == generatorFor(t, input)
          gql == parseGQLBody(input)
          some == gql.vars = "some"
      IN CASE gql = NoOperation -> p = generatorFor("fetch", input)
           [] t = "graphql-fetch" /\ gql # NoOperation -> p.body = "json" /\ p.parts.vars = some
           [] OTHER -> IF t = "graphql-apollo" /\ some /\ gql.kind # "mutation" THEN p = Rejected
                       ELSE p.hook = gql.kind /\ p.vars = some
  /\ \A t \in HttpTargets :
      LET p == generatorFor(t, input)
          multipart == t = "curl" /\ input.bodyMode = "graphql-multipart"
          on == enabledHeaders(input.headers)
          carried == IF t = "csharp-httpclient" \/ multipart THEN WithoutType(on) ELSE on
      IN /\ p.method = input.method
         /\ ByKey(p.headers) = LastByKey(carried)
         /\ ~multipart => (p.body # None) = hasBody(input)
         /\ \A i \in DOMAIN p.headers : \E j \in DOMAIN input.headers :
              /\ input.headers[j].enabled
              /\ p.headers[i] = <<input.headers[j].key, input.headers[j].value>>
         /\ input.bodyMode = "none" => p.body = None /\ p.type = None

WsRequests == [auth : Auths, headers : UpTo(HeaderRows({<<"x", "X">>, <<"", "">>}), 1),
               protocols : {None, "p"}, message : {None, "m"}]

\* The headers of a WebSocket snippet are the ones the connection is opened
\* with (applyAuth), save for basic authorization without a user name, which
\* the connection sends and the snippet leaves out; a key for the query is in
\* neither.  Browser code cannot set any.
WsSnippetsAuthorized ==
  area = "websocket" =>
    LET opened == applyAuth([headers |-> enabledHeaders(input.headers), params |-> <<>>,
                             auth |-> input.auth])
        values == [i \in DOMAIN opened.headers |-> opened.headers[i].value]
    IN \A t \in WsTargets \ {"ws-javascript"} :
         LET h == wsGeneratorFor(t, input).headers
         IN \/ [i \in DOMAIN h |-> h[i][2]] = values
            \/ input.auth.type = "basic" /\ input.auth.username = <<>>

GrpcRequests == [metadata : UpTo(HeaderRows({<<"x", "X">>, <<"", "">>}), 2), tls : BOOLEAN,
                 body : {"", "{}", "data"}]

\* Every gRPC snippet that can be run as it is has the metadata, the security
\* of the channel and a message that is not lost.
GrpcSnippetsAgree ==
  area = "grpc" =>
    LET all == {grpcGeneratorFor(t, input) : t \in GrpcTargets} \union {generateGrpcBufCurl(input)}
        on == enabledHeaders(input.metadata)
    IN \A p \in all :
         /\ p.tls = input.tls
         /\ p.metadata = Pairs(on)
         /\ p.body \in {None, input.body, "{}"}
         /\ p.body = "{}" => input.body # "data"

(* ---- extraction, assertions ---- *)

MCParsedAs == [t \in {"5", "1e3", "1000", "true", "quoted", "null"} |->
  CASE t \in {"5", "1000"} -> Leaf("num", t)
    [] t = "1e3" -> Leaf("num", "1000")
    [] t = "true" -> Leaf("bool", t)
    [] t = "quoted" -> Str("q")
    [] OTHER -> Null]
MCBelow == {<<"5", "1000">>}
MCInText == {<<t, t>> : t \in {"5", "abc", "GET", "Get", "url", "label", "v"}}

Leaves == {Leaf("num", "5"), Leaf("num", "1000"), Leaf("bool", "true"), Null, Absent}
            \union {Str(t) : t \in {"", "5", "1e3", "true", "abc", "quoted", "null"}}
Responses ==
  [response : {[status |-> Leaf("num", "5"), headers |-> hs,
                json |-> IF v = Absent THEN j ELSE [kind |-> "obj", of |-> "p" :> v]] :
                  hs \in UpTo([key : {"h", "g"}, value : {"5", "1e3", "abc"}], 2),
                  v \in Leaves, j \in {Absent, Null}},
   source : {"status", "header", "body"}, fallback : {Absent, Str("f")}]

AssertionType == [status |-> "status", header |-> "header", body |-> "bodyJsonPath"]

\* What is extracted from a response can be asserted of it: an equals
\* assertion with the extracted text passes, except for a string of the body
\* that is itself the JSON text of something else ("1e3", a quoted string).
ExtractedValueAsserts ==
  area = "response" =>
    LET path == IF input.source = "header" THEN "h" ELSE "p"
        actual == extractValue(input.response, input.source, path)
        rule == [variableName |-> "v", source |-> input.source, expression |-> path,
                 fallback |-> input.fallback, enabled |-> TRUE]
        got == extractVariables(input.response, <<rule>>)
        assertion == [type |-> AssertionType[input.source], expression |-> path,
                      matcher |-> "equals", expected |-> got["v"], enabled |-> TRUE]
    IN IF actual \in {Absent, Null}
       THEN DOMAIN got = (IF input.fallback = Absent THEN {} ELSE {"v"})
       ELSE \/ runAssertions(input.response, <<assertion>>) = <<TRUE>>
            \/ /\ input.source = "body" /\ actual.kind = "str"
               /\ actual.text \in DOMAIN ParsedAs /\ ParsedAs[actual.text].text # actual.text

\* A rule drafted from the viewer holds of the response it was drafted from:
\* the one of a header unless an earlier header of the name says something
\* else, which is then what an extraction takes too; the one of a path, once
\* what is there is typed as expected, unless the text reads as another value.
\* The rules there were stay, and so do their results.
DraftsHold ==
  area = "response" =>
    LET r == input.response
        there == JSONPath(r.json, "p")
        old == addAssertion(<<>>, [pathAssertion("q") EXCEPT !.matcher = "exists"])
        Result(draft) == runAssertions(r, addAssertion(old, draft))
        Takes(draft) == extractVariables(r, addExtraction(<<>>, draft))
        typed == Current(pathAssertion("p"), [expected |-> there.text])
    IN /\ \A i \in DOMAIN r.headers :
            LET h == r.headers[i]
                first == Find(r.headers, h.key).text
            IN /\ Result(headerAssertion(h)) = <<FALSE, first = h.value>>
               /\ Takes(headerExtraction(h, "v")) = ("v" :> first)
       /\ there \notin {Absent, Null} =>
            /\ Takes(pathExtraction("p", "v")) = ("v" :> there.text)
            /\ Result(typed)[2] \/ ParsedAs[there.text].text # there.text
       /\ there \in {Absent, Null} => Takes(pathExtraction("p", "v")) = <<>>

(* ---- the viewer of gRPC responses ---- *)

ViewerOps == {<<"arrive", "m1">>, <<"arrive", "m2">>, <<"clear">>, <<"call">>, <<"open">>, <<"close">>, <<"reset">>}
               \union {<<"toggle", i>> : i \in 1..3} \union {<<"pick", m>> : m \in {"m1", "m2"}}
Sightings ==
  [ops : UpTo(ViewerOps, 4), given : {<<>>, <<"m1", "m2", "m1">>}, tab : {"body"}]
    \union [flags : [clientStream : BOOLEAN, serverStream : BOOLEAN, streaming : BOOLEAN, streamId : BOOLEAN,
                      transcript : 0..1, messages : 0..1, response : BOOLEAN],
            tab : {"body", "metadata", "assertions"}, metadata : 0..1, assertions : 0..1]

\* An operation where the viewer offers it: nothing behind an open comparison.
\* clicked and picked are history: the texts that were seen when they were chosen.
Viewing(h, op) ==
  LET v == h.viewer
      covered == Compared(v) # <<>> \/ TranscriptCompared(v) # <<>>
      i == op[2]
      Now(w) == [h EXCEPT !.viewer = w]
      Of(w) ==
        CASE op[1] = "toggle" -> [h EXCEPT !.viewer = w, !.clicked = (i :> v.messages[i]) @@ @]
          [] op[1] = "pick" -> [h EXCEPT !.viewer = w, !.picked = Append(@, i)]
          [] op[1] = "reset" -> [h EXCEPT !.viewer = w, !.picked = <<>>]
          [] op[1] = "call" -> [h EXCEPT !.viewer = w, !.other = v.selected # <<>> \/ @]
          [] op[1] = "clear" -> [h EXCEPT !.viewer = w, !.other = FALSE]
          [] OTHER -> Now(w)
  IN CASE op[1] = "arrive" -> Of(Arrived(v, op[2]))
       [] op[1] = "call" -> Of(OtherCall(v))
       [] op[1] = "clear" -> Of(clearStreamMessages(v))
       [] op[1] = "close" -> IF Compared(v) # <<>> THEN Of(closeStreamDiff(v))
                             ELSE IF covered THEN [Now(closeTranscriptDiff(v)) EXCEPT !.picked = <<>>] ELSE h
       [] op[1] \notin {"arrive", "call", "clear", "close"} /\ covered -> h
       [] OTHER -> CASE op[1] = "toggle" -> IF i \in DOMAIN v.messages THEN Of(toggleStreamDiff(v, i)) ELSE h
                     [] op[1] = "open" -> Of(openStreamDiff(v))
                     [] op[1] = "pick" -> Of(selectForDiff(v, i))
                     [] op[1] = "reset" -> Of(resetDiff(v))

\* Two messages are compared as they were seen when they were chosen, in this
\* order, never more than two and never one twice by its position, unless another
\* call began since, which leaves the selection where it was; a comparison covers
\* what could change it.  What a call has left is seen: its transcript, its
\* messages, its response, unless a method that streams was chosen since or a
\* stream is open; and a tab is shown only with entries in it.
ComparedAsSeen ==
  area = "sighting" =>
    IF "ops" \in DOMAIN input
    THEN LET h == FoldLeft(Viewing, [viewer |-> [ViewerStart EXCEPT !.messages = input.given],
                                     clicked |-> <<>>, picked |-> <<>>, other |-> FALSE], input.ops)
             v == h.viewer
         IN /\ Len(v.selected) <= 2 /\ IsInjective(v.selected)
            /\ ~h.other => \A i \in ToSet(v.selected) : v.messages[i] = h.clicked[i]
            /\ ~h.other /\ Compared(v) # <<>> =>
                 Compared(v) = [j \in 1..2 |-> h.clicked[v.selected[j]]]
            /\ TranscriptCompared(v) = IF Len(h.picked) = 2 THEN h.picked ELSE <<>>
            /\ v.transcriptDiff => TranscriptCompared(v) # <<>>
    ELSE LET f == input.flags
             shown == GrpcContent(f)
             tab == effectiveTab(input.tab, input.metadata, input.assertions)
         IN /\ shown = "placeholder" => f.transcript = 0 /\ f.messages = 0 /\ ~f.response /\ ~f.streaming /\ ~f.streamId
            /\ f.response => shown = "response" \/ f.streamId \/ f.streaming \/ f.serverStream
                              \/ f.transcript > 0 \/ f.messages > 0
            /\ shown = "response" => f.response
            /\ shown = "messages" => f.transcript = 0 /\ ~f.streamId
            /\ tab = "metadata" => input.metadata > 0
            /\ tab = "assertions" => input.assertions > 0
            /\ input.metadata > 0 /\ input.assertions > 0 => tab = input.tab

(* ---- mocks from a response, the errors of an answer ---- *)

ErrorLists == {Absent, Null} \union {[kind |-> "arr", of |-> f] : f \in [{"0"} -> {Str("e1"), Str("e2")}]}
Answers == {Null} \union {[kind |-> "obj", of |-> IF e = Absent THEN "data" :> Null ELSE "errors" :> e] : e \in ErrorLists}
Viewed ==
  [headers : UpTo([key : {"h", "connection", "content-encoding"}, value : {"5", "abc"}], 2),
   url : {[absolute |-> TRUE, path |-> p, text |-> "url"] : p \in {"", "/p"}}
           \union {[absolute |-> FALSE, path |-> "", text |-> t] : t \in {"/", "template"}},
   method : {"", "POST"}, name : {"", "mine"}, rows : 0..2,
   json : Answers \union {[kind |-> "arr", of |-> f] : f \in UNION {[d -> Answers] : d \in {{"0"}, {"0", "1"}}}}]

\* A mock made from a response answers as the response did, to the method and
\* the path of its request, save for the headers of one connection; an example
\* has its headers too, and a name of its own as long as none was removed.  The
\* errors shown of a batch are those its answers have one by one, unless one of
\* them is null.
ViewIsKept ==
  area = "viewer" =>
    LET response == [status |-> Leaf("num", "5"), headers |-> input.headers, json |-> input.json]
        routes == createMock(<<"old">>, [method |-> input.method, url |-> input.url], response)
        route == routes[2]
        Saved[n \in 0..2] == IF n = 0 THEN <<>> ELSE saveExample(Saved[n - 1], response, "")
        examples == saveExample(Saved[input.rows], response, input.name)
        example == examples[Len(examples)]
        hop == {"connection", "content-encoding"}
        items == {input.json.of[i] : i \in DOMAIN input.json.of}
    IN /\ routes[1] = "old" /\ route.status = response.status /\ route.json = response.json
       /\ route.method = (IF input.method = "POST" THEN "POST" ELSE "GET")
       /\ input.url.absolute => route.pathPattern = (IF input.url.path = "" THEN "/" ELSE input.url.path)
       /\ \A n \in {"h"} \union hop :
            Find(route.headers, n) = IF n \in hop THEN Absent ELSE Find(response.headers, n)
       /\ example.headers = response.headers /\ example.json = response.json
       /\ \A i \in 1..(Len(examples) - 1) : examples[i].name # example.name
       /\ IsArray(input.json) =>
            parseGraphQLErrors(input.json) =
              IF Null \in items THEN {} ELSE UNION {parseGraphQLErrors(item) : item \in items}
       /\ IsObject(input.json) /\ "errors" \in DOMAIN input.json.of =>
            (parseGraphQLErrors(input.json) = {} <=> input.json.of["errors"] = Null)


(* ---- comparison ---- *)

Obj(f) == [kind |-> "obj", of |-> f]
Arr(f) == [kind |-> "arr", of |-> f]
One == Leaf("num", "1")
Two == Leaf("num", "2")
Inner == {One, Two, Obj(<<>>), Obj("a" :> One), Obj("a" :> Two), Arr(<<>>), Arr("0" :> One),
          Arr("0" :> Two), Arr("0" :> One @@ "1" :> Two)}
Jsons == {Absent} \union UNION {{Obj(f) : f \in [D -> Inner]} : D \in SUBSET {"a", "b"}}
Sides == {[status |-> Leaf("num", "5"), json |-> j, lines |-> IF j = Absent THEN <<"l">> ELSE <<"l", "m">>] : j \in Jsons}
Comparisons == [left : Sides, right : Sides, ignored : {{}, {<<"body", "a">>}}]

\* Every place of a value: its path, with what stands there.
RECURSIVE Places(_, _)
Places(v, path) ==
  IF v.kind \in {"obj", "arr"}
  THEN {<<path, Leaf(v.kind, "")>>}
         \union UNION {Places(v.of[k], Append(path, k)) : k \in DOMAIN v.of}
  ELSE {<<path, v>>}

\* compareResponses reports every difference once: where the values of two
\* JSON bodies differ there is a change at that path or above it, no change
\* lies under another, each is about values that do differ, and leaving out
\* a path leaves out what lies under it and nothing else.
DifferencesReported ==
  (area = "diff" /\ input.left.json # Absent /\ input.right.json # Absent) =>
    LET changes == compareResponses(input.left, input.right, input.ignored)
        l == Places(input.left.json, <<"body">>)
        r == Places(input.right.json, <<"body">>)
        differ == {x[1] : x \in (l \ r) \union (r \ l)}
        under == UNION {{p \in differ : IsPrefix(q, p)} : q \in input.ignored}
    IN /\ \A p \in differ \ under : \E c \in changes : IsPrefix(c.path, p)
       /\ \A c \in changes : \E p \in differ \ under : IsPrefix(c.path, p)
       /\ \A c, d \in changes : IsPrefix(c.path, d.path) => c = d

(* ---- answers in parts ---- *)

Leafs == "x" :> One @@ "y" :> Two
Wholes == {Obj("a" :> Obj(Leafs) @@ "b" :> One), Obj("a" :> Arr("0" :> Obj(Leafs) @@ "1" :> One)),
           Obj("a" :> Obj("x" :> Obj(Leafs)))}
RECURSIVE Inside(_, _), WithoutFields(_, _, _)
Inside(v, path) == IF path = <<>> THEN v ELSE Inside(At(v, path[1]), Tail(path))
WithoutFields(v, path, keys) ==
  [v EXCEPT !.of = IF path = <<>> THEN [k \in DOMAIN @ \ keys |-> @[k]]
                   ELSE [@ EXCEPT ![path[1]] = WithoutFields(@, Tail(path), keys)]]
\* The objects of a value, by path.
ObjectsOf(v) == {p[1] : p \in {q \in Places(v, <<>>) : q[2].kind = "obj"}}
Cuts(v) == {[path |-> p, keys |-> ks] : p \in ObjectsOf(v), ks \in SUBSET {"a", "x", "y"}}
CutsOf(v) == {c \in Cuts(v) : c.keys # {} /\ c.keys \subseteq DOMAIN Inside(v, c.path).of}
\* What is cut first comes back last.
Deferrals ==
  UNION {UNION {{[whole |-> w, cuts |-> <<d, c>>] : d \in CutsOf(WithoutFields(w, c.path, c.keys))}
                  \union {[whole |-> w, cuts |-> <<c>>]} : c \in CutsOf(w)} : w \in Wholes}
Multiparts == [deferral : Deferrals, together : BOOLEAN, noise : {"none", "empty", "unreadable"}]

\* A GraphQL answer in parts is the answer it would have been in one: however its
\* fields were deferred, to one payload or to several, and whatever sections in
\* between cannot be read, the merged data is the whole and every error is kept,
\* in order (processMultipartResponse).  The first payload has to be readable.
DeferredIsWhole ==
  area = "multipart" =>
    LET w == input.deferral.whole
        cuts == input.deferral.cuts
        n == Len(cuts)
        Cut(v, c) == WithoutFields(v, c.path, c.keys)
        before == IF n = 1 THEN <<Cut(w, cuts[1]), w>> ELSE <<Cut(Cut(w, cuts[2]), cuts[1]), Cut(w, cuts[2]), w>>
        Increment(i) == [path |-> cuts[i].path, errors |-> <<i>>,
                         data |-> Obj([k \in cuts[i].keys |-> Inside(before[i + 1], cuts[i].path).of[k]])]
        Payload(incs) == [kind |-> "payload", data |-> Absent, errors |-> <<>>, incremental |-> incs]
        later == IF input.together THEN <<Payload([i \in 1..n |-> Increment(i)])>>
                 ELSE [i \in 1..n |-> Payload(<<Increment(i)>>)]
        noise == IF input.noise = "none" THEN <<>> ELSE <<[kind |-> input.noise]>>
        sections == <<[kind |-> "payload", data |-> before[1], errors |-> <<0>>, incremental |-> <<>>]>>
                      \o noise \o later \o noise
        body == processMultipartResponse([contentType |-> "mixed", sections |-> sections]).body
    IN body.data = w /\ body.errors = [i \in 1..(n + 1) |-> i - 1]

(* ---- cookies ---- *)

A(k, v) == [key |-> k, value |-> v]
FewAttrs == {A("domain", <<"a">>), A("path", <<"p">>), A("max-age", 0)}
CookieAttrs ==
  FewAttrs \union {A("domain", <<"", "a">>), A("domain", <<>>), A("path", <<"">>), A("path", <<"", "p">>),
                   A("secure", <<>>), A("max-age", 1), A("max-age", NaN), A("expires", 1), A("expires", 4),
                   A("expires", NaN)}
SetCookies(names, values, attrs, n) == [name : names, value : values, attrs : UpTo(attrs, n)]
UrlOf(hosts, paths, https) == [host : hosts, path : paths, https : https]
Cookies ==
  [headers : {<<h>> : h \in SetCookies({"n", ""}, {"1"}, CookieAttrs, 2)}
               \union {<<g, h>> : g \in SetCookies({"n"}, {"1"}, FewAttrs, 1),
                                  h \in SetCookies({"n", "m"}, {"2"}, FewAttrs, 2)},
   from : UrlOf({<<"s", "a">>}, {<<>>}, {TRUE}) \union {NoUrl},
   to : UrlOf({<<"a">>, <<"s", "a">>, <<"t", "s", "a">>}, {<<>>, <<"p", "q">>}, BOOLEAN), later : 2..4]

\* A cookie goes back to where it is meant to go and nowhere else, from the
\* Set-Cookie headers of one response to the header of a later request: the
\* last one of a name, domain and path counts, with the last attribute of each
\* kind that can be read; without a Domain it goes to the host and what is
\* below it, and max-age and expires are one attribute (parseCookieHeaders,
\* upsertCookies, matchCookies).
CookiesReturn ==
  area = "cookie" =>
    LET hs == input.headers
        LastOf(h, Ok(_), none) ==
          LET on == SelectSeq(h.attrs, Ok) IN IF on = <<>> THEN none ELSE on[Len(on)].value
        Domain(h) == LastOf(h, LAMBDA a : a.key = "domain" /\ a.value # <<>>, input.from.host)
        Below1(d) == IF d[1] = "" THEN Tail(d) ELSE d
        PathOf(h) == LastOf(h, LAMBDA a : a.key = "path" /\ a.value # <<"">>, <<>>)
        Limits(h) == SelectSeq(h.attrs, LAMBDA a : a.key \in {"expires", "max-age"} /\ a.value # NaN)
        Lives(h) == LET on == Limits(h)
                        l == on[Len(on)]
                    IN on = <<>> \/ (IF l.key = "expires" THEN l.value >= input.later
                                     ELSE l.value > 0 /\ 2 + l.value >= input.later)
        Same(g, h) == g.name = h.name /\ Below1(Domain(g)) = Below1(Domain(h)) /\ PathOf(g) = PathOf(h)
        goes == {i \in DOMAIN hs :
                   /\ input.from # NoUrl /\ hs[i].name # ""
                   /\ \A j \in (i + 1)..Len(hs) : ~Same(hs[i], hs[j])
                   /\ Lives(hs[i])
                   /\ IsSuffix(Below1(Domain(hs[i])), input.to.host)
                   /\ IsPrefix(PathOf(hs[i]), input.to.path)
                   /\ (\E k \in DOMAIN hs[i].attrs : hs[i].attrs[k].key = "secure") => input.to.https}
    IN buildCookieHeader(matchCookies(persistResponseCookies({}, hs, input.from, 2), input.to, input.later))
         = {<<hs[i].name, hs[i].value>> : i \in goes}

(* ---- history ---- *)

Entry(protocol, at, label, rows, auth, headers) ==
  [id |-> "id", createdAt |-> at, day |-> at, label |-> label, protocol |-> protocol,
   request |-> [name |-> "name", url |-> "url", body |-> "body", rows |-> rows, auth |-> auth,
                method |-> CASE protocol = "rest" -> "GET" [] protocol = "grpc" -> "Get" [] OTHER -> ""],
   response |-> [status |-> "5", body |-> "abc", headers |-> headers]]
StoredAuths == {[type |-> "none"], [type |-> "bearer", token |-> "secret"],
                [type |-> "basic", username |-> "u", password |-> ""],
                [type |-> "oauth2", clientSecret |-> "secret", accessToken |-> "secret"]}
HistoryRows == UpTo([key : {"x", "cookie", "x-csrf-token"}, value : {"v"}], 2)
HistoryInputs ==
  [entries : UpTo({Entry(p, at, l, <<>>, [type |-> "none"], <<>>) :
                     p \in {"rest", "grpc", "graphql"}, at \in 1..2, l \in {"", "label"}}, 2)
               \union {<<Entry(p, 1, "", rows, a, hs)>> : p \in {"rest", "grpc"}, rows \in HistoryRows,
                         a \in StoredAuths, hs \in HistoryRows},
   query : {"", "GET", "Get", "url", "5", "label", "v"}, limit : 1..2]

\* The history panel and the search agree: what the panel finds by method, URL
\* or status is found by searchHistory too, unless newer entries fill the limit
\* (labels only the panel knows); results are the newest first, and the groups
\* of days are the entries in their order, a day once (groupHistoryByDate).
HistoryFinds ==
  area = "history" =>
    LET found == searchHistory(input.entries, input.query, input.limit)
        newest == Newest(input.entries)
        groups == groupHistoryByDate(newest)
        Panel(e) == matchesHistoryQuery([e EXCEPT !.label = ""], input.query)
    IN /\ Len(found) <= input.limit
       /\ \A i \in 1..(Len(found) - 1) : found[i].createdAt >= found[i + 1].createdAt
       /\ \A i \in DOMAIN newest : Panel(newest[i]) =>
            \/ newest[i] \in ToSet(found)
            \/ Len(found) = input.limit /\ \A j \in DOMAIN found : found[j].createdAt >= newest[i].createdAt
       /\ FlattenSeq([i \in DOMAIN groups |-> groups[i].entries]) = newest
       /\ \A i, j \in DOMAIN groups : groups[i].label = groups[j].label => i = j

\* What the history keeps of a request names no secret of its headers and
\* authorization (redactHistoryEntry), is redacted once, and comes back without
\* a marker in its headers: the others, in order (HistoryPanel.restore).  A
\* marker stays in the metadata of a gRPC request and in the authorization.
HistoryRestores ==
  area = "history" =>
    \A e \in ToSet(input.entries) :
      LET stored == redactHistoryEntry(e)
          back == restore(stored)
          plain == SelectSeq(e.request.rows, LAMBDA h : ~isSensitiveKey(h.key))
      IN /\ redactHistoryEntry(stored) = stored
         /\ \A f \in DOMAIN back.auth : back.auth[f] # "secret"
         /\ e.request.auth.type \in {"none", "basic"} => back.auth = e.request.auth
         /\ SelectSeq(back.rows, LAMBDA h : h.value # REDACTED) = plain
         /\ e.protocol # "grpc" => back.rows = plain
         /\ \A h \in ToSet(stored.response.headers) : isSensitiveKey(h.key) => h.value = REDACTED

(* ---- the runs ---- *)

Init == area = "idle" /\ input = None /\ timed = TimingStart

Pick(name, inputs) == area = "idle" /\ area' = name /\ input' \in inputs /\ UNCHANGED timed

TimedStep ==
  /\ area = "timing" /\ TimingNext
  /\ timed.attempts # <<>> =>
       \A h \in TimingHooks \ {"wroteRequest", "firstByte"} : timed'.trip.trace[h] = 0
  /\ UNCHANGED <<area, input>>

Next ==
  \/ Pick("template", Templates)
  \/ Pick("request", Requests)
  \/ Pick("signature", Signings)
  \/ Pick("digest", Digests)
  \/ Pick("snippet", Snippets)
  \/ Pick("websocket", WsRequests)
  \/ Pick("grpc", GrpcRequests)
  \/ Pick("response", Responses)
  \/ Pick("viewer", Viewed)
  \/ Pick("sighting", Sightings)
  \/ Pick("diff", Comparisons)
  \/ Pick("protocol", Protocols)
  \/ Pick("graphql", GraphQLRequests)
  \/ Pick("oauth2", OAuth2Inputs)
  \/ Pick("schema", Schemas)
  \/ Pick("body", BodyInputs)
  \/ Pick("scopes", ScopeInputs)
  \/ Pick("field", FieldInputs)
  \/ Pick("env", EnvRows)
  \/ Pick("cookie", Cookies)
  \/ Pick("history", HistoryInputs)
  \/ Pick("multipart", Multiparts)
  \/ Pick("timing", {None})
  \/ TimedStep
  \/ area # "idle" /\ area' = "idle" /\ input' = None /\ timed' = TimingStart

Spec == Init /\ [][Next]_vars

\* A request is sent as the editor shows it: templates are replaced or reported,
\* the last scope wins, what is sent is what is signed, the four kinds of
\* request resolve a text alike, and a variable survives its text form.
SentAsShown ==
  /\ TemplatesResolved /\ RequestSentAsShown /\ SignatureMatches /\ ProtocolsAgree /\ EnvTextKept
  /\ GraphQLSentAsShown /\ TokensAreCurrent /\ InnermostWins /\ VariablesAreTold /\ CompletionsFit /\ BodySurvivesItsMode
  /\ DigestAccepted

\* The generated snippets stand for the request, in every language.
SnippetsAreFaithful == SnippetsCarryTheRequest /\ WsSnippetsAuthorized /\ GrpcSnippetsAgree

\* What is said about a response is true of it: an extracted value satisfies
\* its own assertion, a difference is reported once, the phases of its timing
\* fit in its attempts, its cookies go where they belong, its history entry is
\* found and restored, and the parts of an answer make it whole.
ResponseIsJudged ==
  /\ ExtractedValueAsserts /\ DifferencesReported /\ TimingTypeOK /\ PhasesFit /\ BodyIsTimed
  /\ CookiesReturn /\ HistoryFinds /\ HistoryRestores /\ DeferredIsWhole
  /\ DraftsHold /\ ViewIsKept /\ ComparedAsSeen
=============================================================================
