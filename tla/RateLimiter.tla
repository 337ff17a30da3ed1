----------------------------- MODULE RateLimiter -----------------------------
(***************************************************************************)
(* The server's token-bucket rate limiter (services/rate-limiter.ts) and   *)
(* the middleware that puts it in front of the execute, WebSocket-connect  *)
(* and gRPC endpoints (middleware/rate-limit.ts).                          *)
(*                                                                         *)
(* One fiber serves one request.  It reads the clock and then updates the  *)
(* bucket of its client with Ref.modify, which is atomic; between the two  *)
(* Effect's scheduler may run other fibers, so a bucket may be updated     *)
(* with a reading of the clock that is older than its last one.            *)
(*                                                                         *)
(* Time is counted in ticks of a millisecond and tokens in fractions of    *)
(* 1/Unit, so that a refill of RefillRate tokens a second is RefillRate    *)
(* fractions a tick (Unit is 1000) and the arithmetic is exact.            *)
(***************************************************************************)
EXTENDS Integers, FiniteSets

CONSTANTS
  ClientKeys, \* clients: what clientKey makes of a request's headers
  Groups,     \* the endpoint groups, each with its RateLimitConfig
  MaxTokens,  \* config.maxTokens of each group
  RefillRate, \* config.refillRate of each group
  Unit,       \* fractions in one token
  Fibers,     \* requests in flight
  NoKey,      \* what an idle fiber serves
  MaxTime     \* bound: the clock stops here

ASSUME LimiterAssumption ==
  /\ NoKey \notin ClientKeys
  /\ MaxTokens \in [Groups -> Nat \ {0}]
  /\ RefillRate \in [Groups -> Nat \ {0}]
  /\ Unit \in Nat \ {0}
  /\ MaxTime \in Nat

VARIABLES
  now,     \* Clock.currentTimeMillis
  bucket,  \* the Ref's Map: a client without a bucket has the empty set
  fiber,   \* the requests: where they are, whose, and when they read the clock
  since,   \* auxiliary: when the observed window of a client began
  count,   \* auxiliary: requests of each group read and admitted in it
  used,    \* auxiliary: groups that were checked in it
  promise  \* auxiliary: the last retryAfterMs, as a point in time

window == <<since, count, used>>
vars   == <<now, bucket, fiber, window, promise>>

Bucket  == [tokens : Int, last : Nat]
Request == [pc : {"read", "allowed", "rejected"}, key : ClientKeys, group : Groups, at : Nat]
Idle    == [pc |-> "idle", key |-> NoKey]

Cap(g) == MaxTokens[g] * Unit

Init ==
  /\ now     = 0
  /\ bucket  = [k \in ClientKeys |-> {}]
  /\ fiber   = [f \in Fibers |-> Idle]
  /\ since   = [k \in ClientKeys |-> 0]
  /\ count   = [k \in ClientKeys |-> [g \in Groups |-> 0]]
  /\ used    = [k \in ClientKeys |-> {}]
  /\ promise = [k \in ClientKeys |-> {}]

Tick ==
  /\ now < MaxTime
  /\ now' = now + 1
  /\ UNCHANGED <<bucket, fiber, window, promise>>

\* A request of client k comes in; its middleware reads the clock.
ReadClock(f, k, g) ==
  /\ fiber[f] = Idle
  /\ fiber' = [fiber EXCEPT ![f] = [pc |-> "read", key |-> k, group |-> g, at |-> now]]
  /\ UNCHANGED <<now, bucket, window, promise>>

LeastOf(a, b) == IF a < b THEN a ELSE b

\* Mutant: a refill that may overfill the bucket.
Refilled_NoCap(k, g, n) ==
  IF bucket[k] = {} THEN Cap(g)
  ELSE LET b == CHOOSE x \in bucket[k] : TRUE
       IN  b.tokens + (n - b.last) * RefillRate[g]

\* The tokens of client k at time n, before the request is charged.
Refilled(k, g, n) ==
  IF bucket[k] = {} THEN Cap(g)
  ELSE LET b == CHOOSE x \in bucket[k] : TRUE
       IN  LeastOf(Cap(g), b.tokens + (n - b.last) * RefillRate[g])

\* Mutant: rounded down instead of up.
RetryAfter_Floor(g, tokens) == (Unit - tokens) \div RefillRate[g]

\* Math.ceil of the time the missing fractions take.
RetryAfter(g, tokens) ==
  (Unit - tokens + RefillRate[g] - 1) \div RefillRate[g]

\* The request is observed by the window of its client.
Observe(k, g, n, admitted) ==
  /\ used' = [used EXCEPT ![k] = @ \union {g}]
  /\ count' = [count EXCEPT ![k][g] = @ + (IF admitted /\ n >= since[k] THEN 1 ELSE 0)]
  /\ since' = since

\* Ref.modify with fewer than one token left.
Reject(f) ==
  LET k == fiber[f].key
      g == fiber[f].group
      n == fiber[f].at
      tokens == Refilled(k, g, n)
  IN  /\ fiber[f].pc = "read"
      /\ tokens < Unit
      /\ bucket' = [bucket EXCEPT ![k] = {[tokens |-> tokens, last |-> n]}]
      /\ promise' = [promise EXCEPT ![k] =
                       {[group |-> g, at |-> n + RetryAfter(g, tokens)]}]
      /\ fiber' = [fiber EXCEPT ![f].pc = "rejected"]
      /\ Observe(k, g, n, FALSE)
      /\ now' = now

\* Ref.modify otherwise: one token is taken.
Admit(f) ==
  LET k == fiber[f].key
      g == fiber[f].group
      n == fiber[f].at
  IN  /\ fiber[f].pc = "read"
      /\ Refilled(k, g, n) >= Unit
      /\ bucket' = [bucket EXCEPT ![k] =
                      {[tokens |-> Refilled(k, g, n) - Unit, last |-> n]}]
      /\ promise' = [promise EXCEPT ![k] = {}]
      /\ fiber' = [fiber EXCEPT ![f].pc = "allowed"]
      /\ Observe(k, g, n, TRUE)
      /\ now' = now

\* The request goes on to its handler, or is answered with RateLimitedError.
Answer(f) ==
  /\ fiber[f].pc \in {"allowed", "rejected"}
  /\ fiber' = [fiber EXCEPT ![f] = Idle]
  /\ UNCHANGED <<now, bucket, window, promise>>

\* An observer starts to count the requests of client k.
OpenWindow(k) ==
  /\ since' = [since EXCEPT ![k] = now]
  /\ count' = [count EXCEPT ![k] = [g \in Groups |-> 0]]
  /\ used'  = [used EXCEPT ![k] = {}]
  /\ UNCHANGED <<now, bucket, fiber, promise>>

Fiber(f) ==
  \/ \E k \in ClientKeys, g \in Groups : ReadClock(f, k, g)
  \/ Reject(f) \/ Admit(f) \/ Answer(f)

Next ==
  \/ Tick
  \/ \E f \in Fibers : Fiber(f)
  \/ \E k \in ClientKeys : OpenWindow(k)

Spec == Init /\ [][Next]_vars

-----------------------------------------------------------------------------
(* Properties.                                                             *)

\* Every variable has its type, a client has at most one bucket, and no clock
\* reading lies in the future.
TypeOK ==
  /\ now \in Nat
  /\ bucket \in [ClientKeys -> SUBSET Bucket]
  /\ \A k \in ClientKeys : \A b, c \in bucket[k] : b = c /\ b.last <= now
  /\ fiber \in [Fibers -> Request \union {Idle}]
  /\ \A f \in Fibers : fiber[f] # Idle => fiber[f].at <= now
  /\ since \in [ClientKeys -> Nat]
  /\ \A k \in ClientKeys : since[k] <= now
  /\ count \in [ClientKeys -> [Groups -> Nat]]
  /\ used \in [ClientKeys -> SUBSET Groups]
  /\ promise \in [ClientKeys -> SUBSET [group : Groups, at : Int]]

\* The limit holds over every window of time, whenever it began and however
\* the fibers interleave: while only requests of one group are checked for a
\* client, those admitted are at most a full bucket plus what the refill rate
\* gives in that time.
WindowBound ==
  \A k \in ClientKeys : \A g \in Groups :
    used[k] = {g} =>
      count[k][g] * Unit <= Cap(g) + RefillRate[g] * (now - since[k])

\* A client that waits for retryAfterMs is let in: a request of the same group
\* that reads the clock no earlier than promised is not rejected, if no other
\* request of the client was admitted meanwhile and no other group's request
\* refilled the bucket at its own rate.
RetryAfterHonest ==
  [][\A f \in Fibers :
       (fiber[f].pc = "read" /\ fiber'[f].pc = "rejected") =>
         \A p \in promise[fiber[f].key] :
           p.group = fiber[f].group => fiber[f].at < p.at]_vars

=============================================================================
