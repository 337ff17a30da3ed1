------------------------------- MODULE CodeGen -------------------------------
(***************************************************************************)
(* The code generators (packages/core/src/codegen): 18 for HTTP, 5 for     *)
(* WebSocket, 7 for gRPC.  A snippet is modelled by what it says about the *)
(* request: the method, the headers it sets and how, the body and its      *)
(* type, the timeout.  The text around it and the quoting of strings in    *)
(* the languages are left out.                                             *)
(*                                                                         *)
(* A header key is <<name in lower case, name as written>>; a body is      *)
(* [text, gql]: text is "empty", "object" (JSON object or array) or        *)
(* "other", gql the GraphQL operation it parses as, or NoOperation.        *)
(***************************************************************************)
EXTENDS RequestResolution

None == "none"
NoOperation == [kind |-> "none", vars |-> "none", named |-> FALSE]
Rejected == [rejected |-> TRUE]

Methods == {"GET", "POST", "PUT", "PATCH", "DELETE", "HEAD", "OPTIONS", "TRACE"}

hasBody(request) == request.bodyMode # "none" /\ request.body.text # "empty"

enabledHeaders(headers) == SelectSeq(headers, LAMBDA h : h.enabled /\ h.key[1] # "")

Pairs(rows) == [i \in DOMAIN rows |-> <<rows[i].key, rows[i].value>>]

\* An object literal: one entry a key, the last value.
enabledHeadersObject(headers) ==
  LET on == enabledHeaders(headers)
      keys == SetToSeq({on[i].key : i \in DOMAIN on})
  IN [i \in DOMAIN keys |-> <<keys[i], LastByKey(on)[keys[i]]>>]

WithoutType(headers) == SelectSeq(headers, LAMBDA h : h.key[1] # "content-type")

contentType(request) ==
  LET of == SelectSeq(enabledHeaders(request.headers), LAMBDA h : h.key[1] = "content-type")
  IN IF of = <<>> THEN "text/plain" ELSE of[1].value

\* The body as the editor has it, or parsed and written again.
Body(request) == IF hasBody(request) THEN "raw" ELSE None
JsonBody(request) ==
  IF hasBody(request) /\ request.bodyMode = "json" /\ request.body.text = "object"
  THEN "json" ELSE Body(request)

Snippet(method, headers, body) ==
  [method |-> method, headers |-> headers, body |-> body, type |-> None,
   timeout |-> FALSE, parts |-> None]

(* ---- HTTP ---- *)

generateCurlGraphqlMultipart(request) ==
  [Snippet(request.method, Pairs(WithoutType(enabledHeaders(request.headers))), None)
     EXCEPT !.body = IF request.body.text = "object" THEN None ELSE "raw",
            !.parts = IF request.body.text = "object" THEN "files" ELSE None]

generateCurl(request) ==
  IF request.bodyMode = "graphql-multipart" THEN generateCurlGraphqlMultipart(request)
  ELSE Snippet(request.method, Pairs(enabledHeaders(request.headers)), Body(request))

generateFetch(request) ==
  Snippet(request.method, enabledHeadersObject(request.headers), JsonBody(request))

generateNodeFetch(request) == generateFetch(request)

generatePythonRequests(request) ==
  [Snippet(request.method, enabledHeadersObject(request.headers), JsonBody(request))
     EXCEPT !.timeout = TRUE]

generatePythonHttpx(request) == generatePythonRequests(request)

generateNodeAxios(request) ==
  [Snippet(request.method, enabledHeadersObject(request.headers), JsonBody(request))
     EXCEPT !.timeout = TRUE]

generateGoNetHttp(request) ==
  Snippet(request.method, Pairs(enabledHeaders(request.headers)), Body(request))

generateJavaOkHttp(request) ==
  [Snippet(request.method, Pairs(enabledHeaders(request.headers)), Body(request))
     EXCEPT !.type = IF hasBody(request) THEN contentType(request) ELSE None]

generateKotlinOkHttp(request) == generateJavaOkHttp(request)

generateRubyNetHttp(request) ==
  Snippet(request.method, Pairs(enabledHeaders(request.headers)), Body(request))

generatePhpGuzzle(request) ==
  Snippet(request.method, enabledHeadersObject(request.headers), Body(request))

csharpMethod(method) == IF method \in Methods \ {"TRACE"} THEN method ELSE "GET"

\* Content-Type belongs to the content: without a body it is not set.
generateCSharpHttpClient(request) ==
  [Snippet(csharpMethod(request.method),
           Pairs(WithoutType(enabledHeaders(request.headers))), Body(request))
     EXCEPT !.type = IF hasBody(request) THEN contentType(request) ELSE None]

generateRustReqwest(request) ==
  Snippet(request.method, Pairs(enabledHeaders(request.headers)), Body(request))

generatePowerShell(request) ==
  Snippet(request.method, enabledHeadersObject(request.headers), Body(request))

generateHttpie(request) ==
  Snippet(request.method, Pairs(enabledHeaders(request.headers)), Body(request))

(* ---- GraphQL: gql is [kind, vars, named] ---- *)

parseGQLBody(request) == IF hasBody(request) THEN request.body.gql ELSE NoOperation

generateGraphQLFetch(request) ==
  IF parseGQLBody(request) = NoOperation THEN generateFetch(request)
  ELSE [Snippet("POST",
                <<<<<<"content-type", "Content-Type">>, "application/json">>>>
                  \o Pairs(WithoutType(enabledHeaders(request.headers))), "json")
          EXCEPT !.parts = [vars |-> request.body.gql.vars = "some",
                            operationName |-> request.body.gql.named]]

\* The hooks name the operation and leave the endpoint to the client; parses
\* tells whether the emitted call is JavaScript.
Hook(gql, parses) ==
  [hook |-> gql.kind, vars |-> gql.vars = "some", parses |-> parses]

generateGraphQLApollo(request) ==
  LET gql == parseGQLBody(request)
  IN IF gql = NoOperation THEN generateFetch(request)
     ELSE Hook(gql, gql.kind = "mutation" \/ gql.vars # "some")

generateGraphQLUrql(request) ==
  LET gql == parseGQLBody(request)
  IN IF gql = NoOperation THEN generateFetch(request) ELSE Hook(gql, TRUE)

\* The formatter's promise is returned, not awaited: the catch below it never
\* sees source that does not parse.
formatJavaScript(snippet) ==
  IF "parses" \in DOMAIN snippet /\ ~snippet.parses THEN Rejected ELSE snippet

generatorFor(target, request) ==
  CASE target = "fetch" -> formatJavaScript(generateFetch(request))
    [] target = "node-fetch" -> formatJavaScript(generateNodeFetch(request))
    [] target = "python-requests" -> generatePythonRequests(request)
    [] target = "python-httpx" -> generatePythonHttpx(request)
    [] target = "node-axios" -> formatJavaScript(generateNodeAxios(request))
    [] target = "go-net-http" -> generateGoNetHttp(request)
    [] target = "java-okhttp" -> generateJavaOkHttp(request)
    [] target = "kotlin-okhttp" -> generateKotlinOkHttp(request)
    [] target = "ruby-net-http" -> generateRubyNetHttp(request)
    [] target = "php-guzzle" -> generatePhpGuzzle(request)
    [] target = "csharp-httpclient" -> generateCSharpHttpClient(request)
    [] target = "rust-reqwest" -> generateRustReqwest(request)
    [] target = "powershell" -> generatePowerShell(request)
    [] target = "httpie" -> generateHttpie(request)
    [] target = "graphql-fetch" -> formatJavaScript(generateGraphQLFetch(request))
    [] target = "graphql-apollo" -> formatJavaScript(generateGraphQLApollo(request))
    [] target = "graphql-urql" -> formatJavaScript(generateGraphQLUrql(request))
    [] OTHER -> generateCurl(request)

HttpTargets ==
  {"curl", "fetch", "node-fetch", "python-requests", "python-httpx", "node-axios",
   "go-net-http", "java-okhttp", "kotlin-okhttp", "ruby-net-http", "php-guzzle",
   "csharp-httpclient", "rust-reqwest", "powershell", "httpie"}
GraphQLTargets == {"graphql-fetch", "graphql-apollo", "graphql-urql"}

(* ---- WebSocket ---- *)

wsEffectiveHeaders_KeyAnywhere(request) ==
  LET on == Pairs(enabledHeaders(request.headers))
  IN IF request.auth.type = "api-key" /\ request.auth.apiKeyValue # <<>>
     THEN Append(on, <<request.auth.apiKeyName, request.auth.apiKeyValue>>) ELSE on

wsEffectiveHeaders(request) ==
  LET a == request.auth
      on == Pairs(enabledHeaders(request.headers))
      authorization == <<"authorization", "Authorization">>
  IN CASE a.type \in {"bearer", "oauth2"} /\ a.token # <<>> ->
            Append(on, <<authorization, Bearer(a.token)>>)
       [] a.type = "basic" /\ a.username # <<>> ->
            Append(on, <<authorization, Basic(a.username, a.password)>>)
       [] a.type = "api-key" /\ a.apiKeyName # <<>> /\ a.apiKeyValue # <<>>
            /\ a.apiKeyIn # "query" -> Append(on, <<a.apiKeyName, a.apiKeyValue>>)
       [] OTHER -> on

WsSnippet(headers, protocols, message) ==
  [headers |-> headers, protocols |-> protocols, message |-> message]

generateWscat(r) == WsSnippet(wsEffectiveHeaders(r), r.protocols, None)
generateWebsocat(r) == WsSnippet(wsEffectiveHeaders(r), None, None)
generateWsJavaScript(r) == WsSnippet(<<>>, r.protocols, r.message)
generateWsNodeWs(r) == WsSnippet(wsEffectiveHeaders(r), r.protocols, r.message)
generateWsPython(r) == WsSnippet(wsEffectiveHeaders(r), None, r.message)

wsGeneratorFor(target, r) ==
  CASE target = "ws-websocat" -> generateWebsocat(r)
    [] target = "ws-javascript" -> generateWsJavaScript(r)
    [] target = "ws-node-ws" -> generateWsNodeWs(r)
    [] target = "ws-python-websockets" -> generateWsPython(r)
    [] OTHER -> generateWscat(r)

WsTargets ==
  {"ws-wscat", "ws-websocat", "ws-javascript", "ws-node-ws", "ws-python-websockets"}

(* ---- gRPC ---- *)

grpcEnabledMetadata(r) == Pairs(enabledHeaders(r.metadata))

GrpcSnippet(r, body, timeout) ==
  [metadata |-> grpcEnabledMetadata(r), tls |-> r.tls, body |-> body, timeout |-> timeout]

\* The command line tools leave an empty message out, the programs write {}.
GivenBody(r) == IF r.body \in {"", "{}"} THEN None ELSE r.body
BodyOrEmpty(r) == IF r.body = "" THEN "{}" ELSE r.body

generateGrpcurl(r) == GrpcSnippet(r, GivenBody(r), FALSE)
generateGrpcBufCurl(r) == GrpcSnippet(r, GivenBody(r), FALSE)
generateGrpcGo(r) == GrpcSnippet(r, BodyOrEmpty(r), TRUE)
generateGrpcNode(r) == GrpcSnippet(r, BodyOrEmpty(r), TRUE)
generateGrpcPython(r) == GrpcSnippet(r, BodyOrEmpty(r), TRUE)
generateGrpcJava(r) == GrpcSnippet(r, None, TRUE)
generateGrpcCSharp(r) == GrpcSnippet(r, None, TRUE)
generateGrpcKotlin(r) == GrpcSnippet(r, None, TRUE)

grpcGeneratorFor(target, r) ==
  CASE target = "grpc-go" -> generateGrpcGo(r)
    [] target = "grpc-node" -> generateGrpcNode(r)
    [] target = "grpc-python" -> generateGrpcPython(r)
    [] target = "grpc-java" -> generateGrpcJava(r)
    [] target = "grpc-csharp" -> generateGrpcCSharp(r)
    [] target = "grpc-kotlin" -> generateGrpcKotlin(r)
    [] OTHER -> generateGrpcurl(r)

GrpcTargets ==
  {"grpc-grpcurl", "grpc-go", "grpc-node", "grpc-python", "grpc-java", "grpc-csharp",
   "grpc-kotlin"}
=============================================================================
