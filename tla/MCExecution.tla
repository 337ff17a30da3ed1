----------------------------- MODULE MCExecution -----------------------------
(***************************************************************************)
(* Executing a request, checked part by part: a behaviour is about the     *)
(* page, the server and the executor, the runners, a script, or the payload*)
(* of one request.  The parts share no state.  The executor is looked at twice:   *)
(* one call with every answer of the target, and two plain calls up to     *)
(* their round trips, which share the cache of transports.                      *)
(***************************************************************************)
EXTENDS RequestExecution, HttpExecutor, Runners, ScriptSandbox, TLC

VARIABLES area, resolved

Setting(private, version, proxy, password, tls) ==
  [allowPrivate |-> private, httpVersion |-> version, proxy |-> proxy, password |-> password, tls |-> tls]
MCSettings ==
  {Setting(TRUE, "auto", "none", "", "ok"), Setting(FALSE, "auto", "none", "", "ok"),
   Setting(TRUE, "auto", "http", "a", "ok"), Setting(TRUE, "auto", "http", "b", "ok"),
   Setting(TRUE, "h2c", "http", "", "ok"), Setting(TRUE, "auto", "none", "", "half")}

Keys == {<<"x", "X">>, <<"x", "x">>, <<"cookie", "Cookie">>, <<"content-type", "Content-Type">>,
         <<"authorization", "authorization">>, <<"x-invoke-allow-private", "X-Invoke-Allow-Private">>, <<"", "">>}
Rows == [key : Keys, value : {"1"}, enabled : BOOLEAN]
UpTo(S, n) == UNION {[1..k -> S] : k \in 0..n}
Auth(t, u, k, in) == [type |-> t, username |-> u, token |-> k, keyName |-> <<"x", "X">>, in |-> in]
MCAuths == {Auth("none", "", "", "header"), Auth("ntlm", "u", "", "header")}
             \union {Auth("basic", u, "", "header") : u \in {"", "u"}}
             \union {Auth("bearer", "", k, "header") : k \in {"", "t"}}
             \union {Auth("api-key", "", k, "header") : k \in {"", "t"}}
             \union {Auth("api-key", "", k, "query") : k \in {"", "t"}}

\* What resolveRequest makes of an edited request: the authorization is among
\* the headers or the parameters, and the parameters are in the query.
AuthHeader(a) ==
  CASE a.type = "basic" -> <<H(AuthorizationKey, <<"Basic", a.username>>)>>
    [] a.type = "bearer" /\ a.token # "" -> <<H(AuthorizationKey, <<"Bearer", a.token>>)>>
    [] a.type = "api-key" /\ a.token # "" /\ a.in = "header" -> <<H(a.keyName, a.token)>>
    [] OTHER -> <<>>
AuthParam(a) == IF a.type = "api-key" /\ a.token # "" /\ a.in = "query"
                THEN <<<<a.keyName[2], a.token>>>> ELSE <<>>
Resolved(more, hs, a, b) ==
  LET q == (IF more THEN <<<<"q", "1">>>> ELSE <<>>) \o AuthParam(a)
  IN [method |-> IF more THEN "POST" ELSE "GET", query |-> q,
      params |-> [i \in DOMAIN q |-> [key |-> q[i][1], value |-> q[i][2], enabled |-> TRUE]],
      headers |-> hs \o AuthHeader(a), bodyMode |-> b[1], body |-> b[2], auth |-> a,
      options |-> [allowPrivate |-> more, connectTimeout |-> more,
                   httpVersion |-> IF more THEN "auto" ELSE "http1"]]
Bodies == {<<"none", "">>, <<"json", "json">>, <<"urlencoded", "pairs">>, <<"raw", "other">>,
           <<"file", "data url">>}

Nothing == [method |-> ""]

MCScriptKeys == {<<"x", "X">>, <<"x", "x">>, <<"y", "y">>}
MCCallerHeaders == UpTo([key : MCScriptKeys, value : {"given"}, enabled : BOOLEAN], 2)

Init ==
  /\ area \in {"page", "executor", "transports", "runners", "payload", "script"}
  /\ resolved = Nothing
  /\ ExecutionInit /\ ExecutorInit /\ RunnerInit /\ ScriptInit
  /\ area # "script" => requests["caller"] = [headers |-> <<>>, variables |-> {}]

Next ==
  \/ /\ area = "page" /\ ExecutionNext
     /\ UNCHANGED <<executorVars, runnerVars, resolved, scriptVars, area>>
  \/ /\ area = "executor" /\ ExecutorNext
     /\ Cardinality({c \in Calls : calls'[c].pc # "idle"}) = 1
     /\ UNCHANGED <<executionVars, runnerVars, resolved, scriptVars, area>>
  \/ /\ area = "transports" /\ ExecutorNext
     /\ \A c \in Calls : IF calls'[c].pc = "idle" THEN TRUE
                        ELSE calls'[c].attempts = <<>> /\ ~calls'[c].stream /\ calls'[c].follow = 0
     /\ UNCHANGED <<executionVars, runnerVars, resolved, scriptVars, area>>
  \/ /\ area = "runners" /\ RunnerNext
     /\ UNCHANGED <<executionVars, executorVars, resolved, scriptVars, area>>
  \/ /\ area = "payload" /\ resolved = Nothing
     /\ \E more \in BOOLEAN, hs \in UpTo(Rows, 2), a \in MCAuths, b \in Bodies :
          resolved' = Resolved(more, hs, a, b)
     /\ UNCHANGED <<executionVars, executorVars, runnerVars, scriptVars, area>>
  \/ /\ area = "script" /\ ScriptNext
     /\ UNCHANGED <<executionVars, executorVars, runnerVars, resolved, area>>

vars == <<executionVars, executorVars, runnerVars, resolved, scriptVars, area>>

Spec == Init /\ [][Next]_vars /\ ExecutionFairness /\ RunnerFairness /\ ScriptFairness

ValueOf(headers, lower) == {headers[i].value : i \in {j \in DOMAIN headers : headers[j].key[1] = lower}}
Once(headers, lower) ==
  \A i, j \in DOMAIN headers : headers[i].key[1] = lower /\ headers[j].key[1] = lower => i = j

\* A request reaches the target through the server as it was resolved: the
\* last enabled header of each name, the cookies of the jar (unless a Cookie
\* header is switched off), at most one authorization, and no header that
\* is meant for the executor, whoever set it.
Arrives(request) ==
  LET r == [request EXCEPT !.headers = injectCookies(@, "jar")]
      sent == ViaServer(r).headers
      out == executePayload(buildExecutePayload(r)).headers
      hs == r.headers
      Wins(i) == /\ hs[i].enabled /\ hs[i].key[2] # ""
                 /\ \A j \in (i + 1)..Len(hs) : hs[j].enabled => hs[j].key[1] # hs[i].key[1]
  IN /\ \A i \in DOMAIN hs : (Wins(i) /\ hs[i].key[1] \notin InvokeHeaders \union {"content-type"}) =>
          ValueOf(sent, hs[i].key[1]) = {hs[i].value}
     /\ \/ HasKey(sent, "cookie")
        \/ /\ HasKey(request.headers, "cookie")
           /\ \A i \in DOMAIN request.headers :
                request.headers[i].key[1] = "cookie" => ~request.headers[i].enabled
     /\ Once(sent, "authorization")
     /\ request.auth.type = "bearer" /\ request.auth.token # "" => HasKey(sent, "authorization")
     /\ \A i \in DOMAIN sent : sent[i].key[1] \notin InvokeHeaders
     /\ request.options.allowPrivate => extractInvokeHeaders(out).allowPrivate
     /\ extractInvokeHeaders(out).httpVersion = request.options.httpVersion

PayloadArrives == resolved # Nothing => Arrives(resolved)

\* The server and the browser send a request alike, where client mode is
\* meant for it: the same headers, apart from a content type the server
\* infers and a key without a value, and the same text as the body of a
\* request that has one.
SentAlike(request) ==
  LET server == ViaServer(request)
      browser == browserFetch(request)
  IN /\ \A i \in DOMAIN browser.headers :
          LET k == browser.headers[i].key[1] IN
          k \notin InvokeHeaders \union {"content-type"} /\ browser.headers[i].value # "" =>
            ValueOf(server.headers, k) = ValueOf(browser.headers, k)
     /\ \A i \in DOMAIN server.headers :
          LET k == server.headers[i].key[1] IN k # "content-type" => HasKey(browser.headers, k)
     /\ (request.method = "POST" /\ request.bodyMode \in {"json", "raw"}) => server.body = browser.body

ModesAgree == (resolved # Nothing /\ resolved.auth.type # "ntlm") => SentAlike(resolved)

\* A header that a script sets is what the target gets, whatever case its name
\* is written in and however often it is set, unless the request names the
\* header more than once or the header is one of the executor's own.
Plain(headers) ==
  [method |-> "GET", query |-> <<>>, params |-> <<>>, headers |-> headers, bodyMode |-> "none",
   body |-> "", auth |-> Auth("none", "", "", "header"),
   options |-> [allowPrivate |-> FALSE, connectTimeout |-> FALSE, httpVersion |-> "auto"]]
ScriptHeaderIsSent ==
  (script.outcome = "resolved" /\ script.pc = "ended") =>
    \A name \in DOMAIN script.asked \ (InvokeHeaders \union {""}) :
      Once(requests["caller"].headers, name) =>
        ValueOf(ViaServer(Plain(requests["copy"].headers)).headers, name) = {script.asked[name]}

\* The page and the scripts it runs stay under control: the page is ready when
\* its sends have settled, what it shows is in the history, a send that none
\* overlapped can be cancelled, and no worker outlives its run.
PageIsInControl ==
  /\ ExecutionTypeOK /\ ScriptTypeOK
  /\ ReadyWhenSettled /\ ShownIsFiled /\ AloneIsSafe /\ WorkerReleased

\* A call of the executor dials over a transport made for its settings and
\* shared by the calls that have them too, what it returns is whole or marked
\* as cut, its stream ends once, and the requests it makes are bounded.
CallsAreFaithful ==
  /\ ExecutorTypeOK /\ TransportFits /\ TransportShared
  /\ NothingLostSilently /\ FinalIsLast /\ RequestsBounded

\* From the click on Send to the round trips of the executor: the page and its
\* scripts stay under control, and a call is true to its settings and its answer.
ExecutionIsInControl == PageIsInControl /\ CallsAreFaithful

\* A request reaches its target as it was resolved and scripted, by either mode.
RequestIsFaithful == PayloadArrives /\ ModesAgree /\ ScriptHeaderIsSent

\* What is cancelled stays cancelled, what was started ends, and a script
\* leaves the request of its caller as it was.
WorkEnds ==
  /\ CancelHolds /\ CancelStopsRun /\ CallerKept
  /\ SendsEnd /\ RunsEnd /\ ScriptSettles
=============================================================================
