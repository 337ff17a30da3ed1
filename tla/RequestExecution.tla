-------------------------- MODULE RequestExecution --------------------------
(***************************************************************************)
(* Sending a request from the page: handleSend with its pre-request        *)
(* script and its token, the buffered, the browser's and the streaming     *)
(* execution, retries with a backoff, the persisted-query probe of         *)
(* GraphQL, the cancel button, and the steps that file an answer.          *)
(*                                                                         *)
(* handleSend looks at loading and streaming once, before it waits for the *)
(* script and the token; both are set only after that, so two sends can be *)
(* under way at once.  alone is history: no other send was under way       *)
(* during this one.                                                        *)
(***************************************************************************)
EXTENDS Naturals, FiniteSets, Sequences, SequencesExt

CONSTANTS
  Sends,           \* clicks on Send
  NoSend,
  MaxRetries       \* maxRetries of the request's policy

ASSUME SendsAssumption == NoSend \notin Sends /\ MaxRetries \in Nat

VARIABLES
  page,            \* the store: loading, streaming, loadController, response, sessionVariables
  sends,           \* send to its progress
  filed            \* the history: sends whose answer was added, oldest first

executionVars == <<page, sends, filed>>

UnderWay == {"script", "token", "probe", "fetch", "backoff", "file", "show"}
Active(s) == sends[s].pc \in UnderWay

ExecutionInit ==
  /\ page = [loading |-> FALSE, streaming |-> FALSE, loadController |-> NoSend,
             response |-> NoSend, sessionVariables |-> {}]
  /\ sends = [s \in Sends |->
       [pc |-> "idle", mode |-> "server", session |-> {}, tries |-> 0, attempt |-> 0,
        aborted |-> FALSE, cut |-> FALSE, alone |-> TRUE]]
  /\ filed = <<>>

Move(s, pc) == sends' = [sends EXCEPT ![s].pc = pc]

\* The variables of the session are the ones of the moment of the click.
handleSend(s) ==
  /\ sends[s].pc = "idle"
  /\ ~page.loading /\ ~page.streaming
  /\ \E mode \in {"server", "apq", "browser", "stream"} :
       sends' = [t \in Sends |->
         IF t = s
         THEN [sends[s] EXCEPT !.pc = "script", !.mode = mode, !.session = page.sessionVariables,
                               !.alone = ~\E u \in Sends : Active(u)]
         ELSE [sends[t] EXCEPT !.alone = @ /\ ~Active(t)]]
  /\ UNCHANGED <<page, filed>>

\* The script's request is used if it ends; if it fails or times out, the one
\* that was edited.  Whether it asked to skip is not looked at.
resolveWithPreRequestScript(s) ==
  /\ sends[s].pc = "script"
  /\ Move(s, "token")
  /\ UNCHANGED <<page, filed>>

\* What the two kinds of execution first write to the store.  The controller
\* of a stream is kept, too, but nothing aborts it.
runStreamingRequest == [page EXCEPT !.streaming = TRUE, !.loading = FALSE, !.response = NoSend]

\* Mutant: the controller is not put where the cancel button finds it.
runBufferedRequest_NoController(s) == [page EXCEPT !.loading = TRUE, !.response = NoSend]

runBufferedRequest(s) == [page EXCEPT !.loading = TRUE, !.loadController = s, !.response = NoSend]

\* applyOAuth2Token, with whatever token, then the head of the execution.
BeginExecution(s) ==
  /\ sends[s].pc = "token"
  /\ sends' = [sends EXCEPT ![s].pc = IF sends[s].mode = "apq" THEN "probe" ELSE "fetch",
                            ![s].tries = 1]
  /\ page' = IF sends[s].mode = "stream" THEN runStreamingRequest ELSE runBufferedRequest(s)
  /\ UNCHANGED filed

\* The catch clauses.
Ended(streamed) ==
  IF streamed THEN [page EXCEPT !.streaming = FALSE]
  ELSE [page EXCEPT !.loading = FALSE, !.loadController = NoSend]

ExecutionFails(s) ==
  /\ Move(s, "failed")
  /\ page' = Ended(sends[s].mode = "stream")
  /\ UNCHANGED filed

\* A wait begins only when another attempt is left.
Retry(s) ==
  /\ sends[s].mode \in {"server", "apq"} /\ sends[s].attempt < MaxRetries
  /\ Move(s, "backoff")
  /\ UNCHANGED <<page, filed>>

\* The answer of a fetch: one to file, one to try again for, or an error.
\* The browser's fetch turns an error of the call into a response, but reading
\* its body may still fail.
Answer(s) ==
  /\ sends[s].pc = "fetch" /\ ~sends[s].aborted
  /\ \/ Move(s, "file") /\ UNCHANGED <<page, filed>>
     \/ Retry(s)
     \/ ExecutionFails(s)

\* executeWithAPQ: the probe leaves the query out; if the server does not
\* know it, the whole request goes out, with its retries.
ProbeAnswer(s) ==
  /\ sends[s].pc = "probe" /\ ~sends[s].aborted
  /\ \/ Move(s, "file") /\ UNCHANGED <<page, filed>>
     \/ /\ sends' = [sends EXCEPT ![s].pc = "fetch", ![s].tries = @ + 1]
        /\ UNCHANGED <<page, filed>>
     \/ ExecutionFails(s)

\* The head of the loop: an abort during the wait is seen only now.
BackoffOver(s) ==
  /\ sends[s].pc = "backoff"
  /\ \/ sends[s].aborted /\ ExecutionFails(s)
     \/ /\ ~sends[s].aborted
        /\ sends' = [sends EXCEPT ![s].pc = "fetch", ![s].tries = @ + 1, ![s].attempt = @ + 1]
        /\ UNCHANGED <<page, filed>>

\* The cancel button aborts the controller of the store.
Cancel(s) ==
  /\ page.loading /\ page.loadController = s /\ ~sends[s].aborted
  /\ sends' = [sends EXCEPT ![s].aborted = TRUE,
                            ![s].cut = sends[s].pc \in {"probe", "fetch", "backoff"}]
  /\ UNCHANGED <<page, filed>>

Aborted_NotTheProbe(s) ==
  /\ sends[s].pc = "fetch" /\ sends[s].aborted
  /\ ExecutionFails(s)

\* fetch rejects.
Aborted(s) ==
  /\ sends[s].pc \in {"probe", "fetch"} /\ sends[s].aborted
  /\ ExecutionFails(s)

\* Cookies, the post-response script, assertions and extraction, then the
\* history.  Storage may fail.
addHistory(s) ==
  /\ sends[s].pc = "file"
  /\ \/ /\ filed' = Append(filed, s)
        /\ Move(s, "show") /\ UNCHANGED page
     \/ ExecutionFails(s)

\* finalizeResponseExecution, finalizeStreamExecution: the variables are the
\* ones of the click and the extracted ones, named here for their send.
finalizeExecution(s) ==
  /\ sends[s].pc = "show"
  /\ Move(s, "done")
  /\ page' = [Ended(sends[s].mode = "stream") EXCEPT
                !.response = s, !.sessionVariables = sends[s].session \union {s}]
  /\ UNCHANGED filed

Progress(s) ==
  \/ resolveWithPreRequestScript(s) \/ BeginExecution(s) \/ Answer(s) \/ ProbeAnswer(s)
  \/ BackoffOver(s) \/ Aborted(s) \/ addHistory(s) \/ finalizeExecution(s)

ExecutionNext == \E s \in Sends : handleSend(s) \/ Progress(s) \/ Cancel(s)

\* Scripts are cut off after a time, timers fire, and every request of the
\* page is answered or fails.
ExecutionFairness == \A s \in Sends : WF_executionVars(Progress(s))

ExecutionTypeOK ==
  /\ page.loading \in BOOLEAN /\ page.streaming \in BOOLEAN
  /\ {page.loadController, page.response} \subseteq Sends \union {NoSend}
  /\ page.sessionVariables \subseteq Sends
  /\ \A s \in Sends : sends[s].pc \in UnderWay \union {"idle", "done", "failed"}
  /\ filed \in Seq(Sends)

\* The page is never stuck: when nothing is under way it is ready to send
\* again, whatever sends overlapped and whichever of them failed.
ReadyWhenSettled ==
  (\A s \in Sends : ~Active(s)) =>
    ~page.loading /\ ~page.streaming /\ page.loadController = NoSend

\* A cancelled request is not tried again, and its answer is neither filed
\* nor shown.
CancelHolds ==
  [][\A s \in Sends : sends[s].cut =>
       /\ sends'[s].tries = sends[s].tries
       /\ sends'[s].pc \notin {"file", "show", "done"}]_executionVars

\* What is shown is in the history; a send is filed once; retries are
\* bounded, and the probe of a persisted query is one request more.
ShownIsFiled ==
  /\ page.response # NoSend => \E i \in DOMAIN filed : filed[i] = page.response
  /\ \A i, j \in DOMAIN filed : filed[i] = filed[j] => i = j
  /\ \A s \in Sends :
       sends[s].tries <= MaxRetries + (IF sends[s].mode = "apq" THEN 2 ELSE 1)

\* A send that no other one overlapped can be cancelled while it waits for
\* its answer, and keeps every variable the session had.
AloneIsSafe ==
  \A s \in Sends : sends[s].alone =>
    /\ sends[s].pc \in {"probe", "fetch", "backoff"} =>
         IF sends[s].mode = "stream" THEN page.streaming ELSE page.loading /\ page.loadController = s
    /\ Active(s) => page.sessionVariables = sends[s].session

\* Every click ends: its answer is shown, or it failed.
SendsEnd == \A s \in Sends : sends[s].pc = "script" ~> sends[s].pc \in {"done", "failed"}

-----------------------------------------------------------------------------
(***************************************************************************)
(* A resolved request on its way out of the page: the cookies of the jar,  *)
(* the payload posted to the server and what the server and the executor   *)
(* make of it, and the browser's own fetch in client mode.  Pure code.     *)
(* A header's key is <<lower case name, name as written>>; a query is a    *)
(* sequence of <<name, value>>.  An empty string is an absent text.        *)
(***************************************************************************)
H(k, v) == [key |-> k, value |-> v, enabled |-> TRUE]
AuthorizationKey == <<"authorization", "Authorization">>
TypeKey == <<"content-type", "Content-Type">>
CookieKey == <<"cookie", "Cookie">>

HasKey(headers, lower) == \E i \in DOMAIN headers : headers[i].key[1] = lower

\* What s has at the places in K, in its order.
Kept(s, K) == [i \in 1..Cardinality(K) |-> s[CHOOSE k \in K : Cardinality({j \in K : j <= k}) = i]]

\* Mutant: what is switched off is kept, too.
On_Off(headers) == Kept(headers, {i \in DOMAIN headers : headers[i].key[2] # ""})

On(headers) == Kept(headers, {i \in DOMAIN headers : headers[i].enabled /\ headers[i].key[2] # ""})
Without(headers, lower) == Kept(headers, {i \in DOMAIN headers : headers[i].key[1] # lower})

(* ---- the page ---- *)

\* The matched cookies join a Cookie header of the user's, also one that is
\* switched off.
injectCookies(headers, cookies) ==
  CASE cookies = "" -> headers
    [] cookies # "" /\ HasKey(headers, "cookie") ->
         [i \in DOMAIN headers |->
            IF headers[i].key[1] # "cookie" THEN headers[i]
            ELSE [headers[i] EXCEPT !.value = IF @ = "" THEN cookies ELSE <<@, cookies>>]]
    [] OTHER -> Append(headers, H(CookieKey, cookies))

\* Of enabled headers with one name the last, in the order of those kept.
Deduped(headers) ==
  LET on == On(headers)
  IN Kept(on, {i \in DOMAIN on : \A j \in (i + 1)..Len(on) : on[j].key[1] # on[i].key[1]})

AutoType(bodyMode) ==
  CASE bodyMode = "json" -> "application/json"
    [] bodyMode = "urlencoded" -> "application/x-www-form-urlencoded"
    [] OTHER -> ""

Typed(headers, bodyMode) ==
  IF AutoType(bodyMode) = "" \/ HasKey(headers, "content-type") THEN headers
  ELSE Append(headers, H(TypeKey, AutoType(bodyMode)))

\* The authorization is dropped where the headers have it already.
buildExecutePayload(request) ==
  LET headers == Typed(Deduped(request.headers), request.bodyMode)
      a == request.auth
      given == /\ HasKey(headers, "authorization")
               /\ a.type \in {"bearer", "oauth2", "basic"} \/ (a.type = "api-key" /\ a.in = "header")
  IN [request EXCEPT !.headers = headers,
                     !.body = IF request.bodyMode = "none" THEN "" ELSE @,
                     !.auth.type = IF given THEN "none" ELSE @]

(* ---- the server ---- *)

Pairs(body) == body = "pairs"     \* the JSON text of a list of pairs

\* The bytes of the body and its content type; the type of a raw body gives
\* way to the user's.
serializeBody(input) ==
  CASE input.bodyMode = "urlencoded" /\ Pairs(input.body) ->
         [body |-> <<"encoded", input.body>>, type |-> "application/x-www-form-urlencoded", soft |-> FALSE]
    [] input.bodyMode \in {"form-data", "graphql-multipart"} /\ Pairs(input.body) ->
         [body |-> <<"parts", input.body>>, type |-> "multipart/form-data", soft |-> FALSE]
    [] input.bodyMode = "file" /\ input.body = "data url" ->
         [body |-> <<"decoded", input.body>>, type |-> "its own", soft |-> FALSE]
    [] input.bodyMode \in {"urlencoded", "form-data", "graphql-multipart"} /\ ~Pairs(input.body) ->
         [body |-> <<"text", input.body>>, type |-> "", soft |-> FALSE]
    [] input.bodyMode = "file" /\ input.body # "data url" ->
         [body |-> <<"text", input.body>>, type |-> "", soft |-> FALSE]
    [] OTHER -> [body |-> <<"text", input.body>>, soft |-> TRUE,
                 type |-> IF input.body \in {"json", "pairs"} THEN "application/json" ELSE "text/plain"]

WithType(headers, s) ==
  IF s.type = "" \/ (s.soft /\ HasKey(headers, "content-type")) THEN headers
  ELSE Append(Without(headers, "content-type"), H(TypeKey, s.type))

\* The header that carries the authorization, where one does.
Credentials(a) ==
  CASE a.type = "basic" /\ a.username # "" -> <<H(AuthorizationKey, <<"Basic", a.username>>)>>
    [] a.type \in {"bearer", "oauth2"} /\ a.token # "" -> <<H(AuthorizationKey, <<"Bearer", a.token>>)>>
    [] a.type = "api-key" /\ a.in = "header" /\ a.token # "" /\ a.keyName[2] # "" -> <<H(a.keyName, a.token)>>
    [] OTHER -> <<>>

\* The authorization that is not in the request yet; a key for the query is
\* not added to a query that has its name.
applyAuthIfNeeded(a, headers, query) ==
  LET new == Credentials(a)
      keyed == a.type = "api-key" /\ a.in = "query" /\ a.token # "" /\ a.keyName[2] # ""
      named == \E i \in DOMAIN query : query[i][1] = a.keyName[2]
      user == H(<<"x-invoke-ntlm-username", "X-Invoke-Ntlm-Username">>, a.username)
  IN [headers |-> CASE a.type = "ntlm" /\ a.username # "" -> Append(headers, user)
                    [] new # <<>> /\ ~HasKey(headers, new[1].key[1]) -> headers \o new
                    [] OTHER -> headers,
      query |-> IF keyed /\ ~named THEN Append(query, <<a.keyName[2], a.token>>) ELSE query]

\* The options that travel as headers of the call to the executor.
TransportHeaders(o) ==
  (IF o.connectTimeout THEN <<H(<<"x-invoke-connect-timeout-ms", "X-Invoke-Connect-Timeout-Ms">>, "1")>> ELSE <<>>)
  \o (IF o.allowPrivate THEN <<H(<<"x-invoke-allow-private", "X-Invoke-Allow-Private">>, "true")>> ELSE <<>>)
  \o (IF o.httpVersion # "auto"
      THEN <<H(<<"x-invoke-http-version-mode", "X-Invoke-Http-Version-Mode">>, o.httpVersion)>> ELSE <<>>)

executePayload(input) ==
  LET s == serializeBody(input)
      on == Kept(input.headers, {i \in DOMAIN input.headers : input.headers[i].enabled})
      authorized == applyAuthIfNeeded(input.auth, WithType(on, s), input.query)
  IN [method |-> input.method, query |-> authorized.query, body |-> s.body,
      headers |-> authorized.headers \o TransportHeaders(input.options)]

InvokeHeaders == {"x-invoke-connect-timeout-ms", "x-invoke-read-timeout-ms", "x-invoke-allow-private",
                  "x-invoke-http-version-mode", "x-invoke-ntlm-username", "x-invoke-ntlm-password"}

(* ---- the executor ---- *)

\* The headers that go out, and the options read from the others.
extractInvokeHeaders(headers) ==
  LET Has(k, v) == \E i \in DOMAIN headers : headers[i].key[1] = k /\ headers[i].value = v
      out == {i \in DOMAIN headers : headers[i].key[2] # "" /\ headers[i].key[1] \notin InvokeHeaders}
  IN [headers |-> Kept(headers, out),
      allowPrivate |-> Has("x-invoke-allow-private", "true"),
      connectTimeout |-> HasKey(headers, "x-invoke-connect-timeout-ms"),
      httpVersion |-> CASE Has("x-invoke-http-version-mode", "http1") -> "http1"
                        [] Has("x-invoke-http-version-mode", "h2c") -> "h2c"
                        [] OTHER -> "auto"]

ViaServer(request) ==
  LET p == executePayload(buildExecutePayload(request))
  IN [method |-> p.method, query |-> p.query, body |-> p.body,
      headers |-> extractInvokeHeaders(p.headers).headers]

(* ---- client mode ---- *)

\* The parameters, and a key for the query, are appended to the URL, which
\* has them already.
browserUrl(request) ==
  LET a == request.auth
      ps == request.params
      on == Kept(ps, {i \in DOMAIN ps : ps[i].enabled /\ ps[i].key # ""})
  IN request.query \o [i \in DOMAIN on |-> <<on[i].key, on[i].value>>]
     \o (IF a.type = "api-key" /\ a.in = "query" /\ a.keyName[2] # "" THEN <<<<a.keyName[2], a.token>>>> ELSE <<>>)

buildHeaders(request) ==
  LET headers == Deduped(request.headers)
      a == request.auth
      \* Headers.set replaces one of the same name.
      Set(h) == Append(Without(headers, h.key[1]), h)
  IN CASE HasKey(headers, "authorization") -> headers
       [] ~HasKey(headers, "authorization") /\ a.type \in {"bearer", "oauth2"} /\ a.token # "" ->
            Set(H(AuthorizationKey, <<"Bearer", a.token>>))
       [] ~HasKey(headers, "authorization") /\ a.type = "basic" /\ a.username # "" ->
            Set(H(AuthorizationKey, <<"Basic", a.username>>))
       [] OTHER -> IF /\ a.type = "api-key" /\ a.in = "header" /\ a.keyName[2] # ""
                      /\ ~HasKey(headers, "authorization")
                   THEN Set(H(a.keyName, a.token)) ELSE headers

\* The text of the body as it is edited: nothing is encoded.
buildBody(request) ==
  IF request.bodyMode = "none" \/ request.method = "GET" \/ request.body = "" THEN <<"text", "">>
  ELSE <<"text", request.body>>

browserFetch(request) ==
  [method |-> request.method, query |-> browserUrl(request), body |-> buildBody(request),
   headers |-> IF request.bodyMode = "none" \/ request.method = "GET" THEN buildHeaders(request)
               ELSE Typed(buildHeaders(request), request.bodyMode)]
=============================================================================
