---------------------------- MODULE HttpExecutor ----------------------------
(***************************************************************************)
(* One HTTP request through the server's execute handlers and the          *)
(* executor: the guard, the cache of transports that concurrent calls      *)
(* share, the round trips of a redirected request, the body read up to a   *)
(* limit, at once or chunk by chunk, and the second call of digest         *)
(* authorization.  The target is arbitrary.  Sizes are in units of a       *)
(* fraction of the limit; times are left out, a timeout may come at any    *)
(* step.                                                                   *)
(***************************************************************************)
EXTENDS Naturals, FiniteSets, Sequences

CONSTANTS
  Calls,            \* calls of the handlers, one request each
  Settings,         \* what a transport is built from
  BodyLimit,        \* maxBodyBytes
  BodyMax,          \* size of the largest body the target sends
  ChunkMax,         \* largest number of units one read returns
  RedirectLimits    \* values of maxRedirects

ASSUME ExecutorAssumption ==
  /\ BodyLimit \in Nat /\ BodyMax \in Nat /\ ChunkMax \in Nat
  /\ RedirectLimits \subseteq Nat \ {0}

VARIABLES
  transportCache,   \* key to transport: [of: its settings, by: the call that built it]
  calls             \* call to what is known of it

executorVars == <<transportCache, calls>>

Ok == ""
Idle == [pc |-> "idle"]

(* ---- transports ---- *)

\* The settings without the password of the proxy: everything else that
\* buildTransport reads is part of the hash.
buildTransportKey(s) == [s EXCEPT !.password = ""]

tlsConfigFor(s) == s.tls # "half"     \* a certificate without its key is refused
buildH2cTransport(s) == s.proxy # "http"
buildTransport(s) == IF s.httpVersion = "h2c" THEN buildH2cTransport(s) ELSE tlsConfigFor(s)

(* ---- one call ---- *)

NewCall(s, stream, follow, digest) ==
  [pc |-> "guard", settings |-> s, stream |-> stream, follow |-> follow, digest |-> digest,
   second |-> FALSE, transport |-> Idle, attempts |-> <<>>, size |-> 0, challenge |-> FALSE,
   body |-> 0, sent |-> 0, events |-> <<>>, error |-> Ok, asked |-> 0]

\* Only a buffered request can answer a digest challenge.
Request(c) ==
  /\ calls[c].pc = "idle"
  /\ \E s \in Settings, stream, digest \in BOOLEAN, follow \in RedirectLimits \union {0} :
       calls' = [calls EXCEPT ![c] = NewCall(s, stream, follow, digest /\ ~stream)]
  /\ UNCHANGED transportCache

\* What a call ends with; a stream's end is its final event.
Finished(call, error) ==
  [call EXCEPT !.pc = "done", !.error = error,
               !.events = IF call.stream THEN Append(@, "final") ELSE @]

To(c, call) == calls' = [calls EXCEPT ![c] = call]

\* SsrfGuard, then the checks at the head of Execute and ExecuteStream.
Guard(c) ==
  /\ calls[c].pc = "guard"
  /\ \/ \E e \in {"blocked", "url is required", "invalid"} : To(c, Finished(calls[c], e))
     \/ To(c, [calls[c] EXCEPT !.pc = "load"])
  /\ UNCHANGED transportCache

transportFor(c) ==
  LET call == calls[c]
      key == buildTransportKey(call.settings)
  IN /\ call.pc = "load"
     /\ UNCHANGED transportCache
     /\ \/ /\ key \in DOMAIN transportCache
           /\ To(c, [call EXCEPT !.pc = "send", !.transport = transportCache[key]])
        \/ /\ key \notin DOMAIN transportCache
           /\ buildTransport(call.settings)
           /\ To(c, [call EXCEPT !.pc = "store"])
        \/ /\ key \notin DOMAIN transportCache
           /\ ~buildTransport(call.settings)
           /\ To(c, Finished(call, "transport"))

\* LoadOrStore: of two calls that built one, the first wins.
StoreTransport(c) ==
  LET call == calls[c]
      own == [of |-> call.settings, by |-> c]
      key == buildTransportKey(call.settings)
      stored == key \in DOMAIN transportCache
  IN /\ call.pc = "store"
     /\ transportCache' = [k \in DOMAIN transportCache \union {key} |->
                             IF k \in DOMAIN transportCache THEN transportCache[k] ELSE own]
     /\ To(c, [call EXCEPT !.pc = "send", !.transport = IF stored THEN transportCache[key] ELSE own])

\* CheckRedirect: via, the requests made so far, has reached the limit.
CheckRedirect(call) == Len(call.attempts) + 1 >= call.follow

\* client.Do makes a round trip; recordingTransport notes it when there is an
\* answer or not.  The answer to a redirect is taken as it is when redirects
\* are not followed.
RoundTrip(c) ==
  LET call == calls[c]
      Noted(kind) == [call EXCEPT !.attempts = Append(@, kind), !.asked = @ + 1]
  IN /\ call.pc = "send"
     /\ UNCHANGED transportCache
     /\ \/ To(c, Finished(Noted("failed"), "network"))
        \/ /\ call.follow # 0 /\ ~CheckRedirect(call)
           /\ To(c, Noted("redirect"))
        \/ /\ call.follow # 0 /\ CheckRedirect(call)
           /\ To(c, Finished(Noted("redirect"), "stopped after maximum redirects"))
        \/ \E size \in 0..BodyMax, kind \in {"answer"} \union (IF call.follow = 0 THEN {"redirect"} ELSE {}),
              challenge \in BOOLEAN :
             To(c, [Noted(kind) EXCEPT !.pc = "read", !.size = size, !.challenge = challenge])

redirectsFromAttempts(call) == {i \in DOMAIN call.attempts : call.attempts[i] = "redirect"}

limitedReadAll(size) == [body |-> IF size > BodyLimit THEN BodyLimit ELSE size,
                         truncated |-> size > BodyLimit]

\* Execute reads the whole body, one byte past the limit at most.
ReadAll(c) ==
  LET call == calls[c]
      r == limitedReadAll(call.size)
  IN /\ call.pc = "read" /\ ~call.stream
     /\ To(c, [Finished(call, IF r.truncated THEN "BODY_TRUNCATED" ELSE Ok) EXCEPT !.body = r.body])
     /\ UNCHANGED transportCache

\* A read of ExecuteStream: the end may be told with the last bytes or after
\* them, and the limit is looked at before every read.
LimitReached(call) == call.body >= BodyLimit

ReadChunk(c) ==
  LET call == calls[c]
      Part(n) == [call EXCEPT !.body = @ + n, !.sent = @ + n,
                              !.events = IF @ = <<>> THEN <<"chunk">> ELSE @]
  IN /\ call.pc = "read" /\ call.stream
     /\ UNCHANGED transportCache
     /\ \/ LimitReached(call) /\ To(c, Finished(call, "BODY_TRUNCATED"))
        \/ /\ ~LimitReached(call)
           /\ \E n \in 1..ChunkMax :
                /\ call.body + n <= call.size
                /\ \/ To(c, Part(n))
                   \/ call.body + n = call.size /\ To(c, Finished(Part(n), Ok))
        \/ ~LimitReached(call) /\ call.body = call.size /\ To(c, Finished(call, Ok))

\* The request's timeout or a lost connection while the body is read.  A
\* stream keeps what it read.
ReadFails(c) ==
  /\ calls[c].pc = "read"
  /\ To(c, Finished(calls[c], "read"))
  /\ UNCHANGED transportCache

\* The call to the executor itself fails: the handler answers with an error
\* and no body.
executeErrorResponse(c) ==
  /\ calls[c].pc \in {"load", "store", "send", "read"}
  /\ To(c, [Finished(calls[c], "executor") EXCEPT !.body = 0])
  /\ UNCHANGED transportCache

\* executeDigest: a 401 with a digest challenge is answered once.
executeDigest(c) ==
  LET call == calls[c] IN
  /\ call.pc = "done" /\ call.digest /\ ~call.second /\ call.challenge /\ call.error \in {Ok, "BODY_TRUNCATED"}
  /\ To(c, [NewCall(call.settings, FALSE, call.follow, TRUE) EXCEPT !.pc = "load", !.second = TRUE,
                                                                    !.asked = call.asked])
  /\ UNCHANGED transportCache

ExecutorInit == transportCache = <<>> /\ calls = [c \in Calls |-> Idle]

ExecutorNext ==
  \E c \in Calls :
    \/ Request(c) \/ Guard(c) \/ transportFor(c) \/ StoreTransport(c) \/ RoundTrip(c)
    \/ ReadAll(c) \/ ReadChunk(c) \/ ReadFails(c) \/ executeErrorResponse(c) \/ executeDigest(c)

Started == {c \in Calls : calls[c].pc # "idle"}

ExecutorTypeOK ==
  /\ \A k \in DOMAIN transportCache : transportCache[k].of \in Settings
  /\ \A c \in Started :
       /\ calls[c].pc \in {"guard", "load", "store", "send", "read", "done"}
       /\ calls[c].settings \in Settings
       /\ calls[c].size \in 0..BodyMax /\ calls[c].body \in 0..BodyMax

\* The cache gives a call a transport with its own settings, whoever built
\* it, the password of the proxy aside, which is not part of the key: a call
\* that may not reach private addresses never dials with one that may.
TransportFits ==
  \A c \in Started : calls[c].pc \in {"send", "read"} =>
    [calls[c].transport.of EXCEPT !.password = ""] = [calls[c].settings EXCEPT !.password = ""]

\* Calls with equal settings share one transport, so that their connections
\* are reused, also when they missed the cache at the same time.
TransportShared ==
  \A c, d \in Started :
    (/\ calls[c].pc \in {"send", "read"} /\ calls[d].pc \in {"send", "read"}
     /\ buildTransportKey(calls[c].settings) = buildTransportKey(calls[d].settings))
      => calls[c].transport = calls[d].transport

\* A response that is not marked as truncated has the whole body, buffered or
\* streamed, and a stream's final response is the chunks sent before it.
NothingLostSilently ==
  \A c \in Started : calls[c].pc = "done" =>
    /\ calls[c].error = Ok => calls[c].body = calls[c].size
    /\ calls[c].error = "BODY_TRUNCATED" => calls[c].body >= BodyLimit
    /\ calls[c].stream /\ calls[c].error # "executor" => calls[c].sent = calls[c].body

\* Every stream tells the page its end, once and last.
FinalIsLast ==
  \A c \in Started : calls[c].stream =>
    /\ (calls[c].pc = "done") = ("final" \in {calls[c].events[i] : i \in DOMAIN calls[c].events})
    /\ \A i \in DOMAIN calls[c].events : calls[c].events[i] = "final" => i = Len(calls[c].events)

\* maxRedirects bounds the requests of one call, its last one included: with
\* a limit of n, n requests are made and n - 1 redirects followed.  A digest
\* challenge doubles that at most.
RequestsBounded ==
  \A c \in Started :
    /\ Len(calls[c].attempts) <= IF calls[c].follow = 0 THEN 1 ELSE calls[c].follow
    /\ calls[c].asked <= 2 * (IF calls[c].follow = 0 THEN 1 ELSE calls[c].follow)
    /\ calls[c].error = "stopped after maximum redirects" =>
         Cardinality(redirectsFromAttempts(calls[c])) = calls[c].follow
=============================================================================
