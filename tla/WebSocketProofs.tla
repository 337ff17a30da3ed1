--------------------------- MODULE WebSocketProofs ---------------------------
(***************************************************************************)
(* Proofs about WebSocketRegistry and about the event streams that         *)
(* WebSocketEvents composes it with, for every set of connections,         *)
(* handlers and frames and for every limit.                                *)
(***************************************************************************)
EXTENDS WebSocketEvents, TLAPS

-----------------------------------------------------------------------------
(* The buffer operators.                                                   *)

\* Dropping a prefix keeps the rest a run of the newest messages.
LEMMA WithoutFacts ==
  ASSUME NEW s \in Seq(Message), NEW k \in 0..Len(s)
  PROVE  /\ Without(s, k) \in Seq(Message)
         /\ Len(Without(s, k)) = Len(s) - k
         /\ \A i \in 1..(Len(s) - k) : Without(s, k)[i] = s[i + k]
<1>1. Len(s) \in Nat
  OBVIOUS
<1>2. \A i \in (k + 1)..Len(s) : s[i] \in Message
  BY <1>1
<1>3. Without(s, k) = [i \in 1..(Len(s) - k) |-> s[i + k]]
  BY <1>1 DEF Without
<1>4. \A i \in 1..(Len(s) - k) : s[i + k] \in Message
  BY <1>1, <1>2
<1> QED
  BY <1>1, <1>3, <1>4

\* Dropping messages at the front leaves the newest run.
LEMMA WithoutRun ==
  ASSUME NEW s \in Seq(Message), NEW k \in 0..Len(s), NEW last \in Nat,
         NewestRun(s, last)
  PROVE  NewestRun(Without(s, k), last)
<1> DEFINE r == Without(s, k)
<1>1. Len(s) \in Nat
  OBVIOUS
<1>2. Len(r) = Len(s) - k /\ \A i \in 1..(Len(s) - k) : r[i] = s[i + k]
  BY WithoutFacts
<1> HIDE DEF r
<1> SUFFICES ASSUME NEW i \in 1..Len(r)
             PROVE  r[i].seq = last - Len(r) + i
  BY DEF NewestRun, r
<1>3. i + k \in 1..Len(s) /\ r[i] = s[i + k]
  BY <1>1, <1>2
<1>4. s[i + k].seq = last - Len(s) + (i + k)
  BY <1>3 DEF NewestRun
<1>5. last - Len(s) + (i + k) = last - Len(r) + i
  BY <1>1, <1>2
<1> QED
  BY <1>3, <1>4, <1>5

\* Half of a buffer is a part of it.
LEMMA HalfType ==
  ASSUME NEW s \in Seq(Message)
  PROVE  Half(s) \in 0..Len(s)
<1>1. \A n \in Nat : n \div 2 \in 0..n
  OBVIOUS
<1>2. Len(s) \in Nat
  OBVIOUS
<1> QED
  BY <1>1, <1>2 DEF Half

\* Appending a message to the newest run gives the newest run again, within
\* the limit, and what it drops is at the front.
LEMMA AppendFacts ==
  ASSUME NEW s \in Seq(Message), NEW m \in Message, Len(s) <= MaxMessages
  PROVE  /\ appendWebSocketMessage(s, m) \in Seq(Message)
         /\ Len(appendWebSocketMessage(s, m)) \in 1..MaxMessages
         /\ Len(appendWebSocketMessage(s, m)) <= Len(s) + 1
         /\ \A last \in Nat :
              NewestRun(s, last) /\ m.seq = last + 1
                => NewestRun(appendWebSocketMessage(s, m), last + 1)
<1> DEFINE longer == Append(s, m)
           k == Len(longer) - MaxMessages
           r == appendWebSocketMessage(s, m)
<1> USE BufferAssumption
<1>1. /\ longer \in Seq(Message)
      /\ Len(longer) = Len(s) + 1
      /\ \A i \in 1..Len(s) : longer[i] = s[i]
      /\ longer[Len(s) + 1] = m
  OBVIOUS
<1>2. \A last \in Nat : NewestRun(s, last) /\ m.seq = last + 1
                          => NewestRun(longer, last + 1)
  <2> SUFFICES ASSUME NEW last \in Nat, NewestRun(s, last), m.seq = last + 1,
                      NEW i \in 1..Len(longer)
               PROVE  longer[i].seq = last + 1 - Len(longer) + i
    BY DEF NewestRun
  <2>1. CASE i = Len(s) + 1
    BY <1>1, <2>1
  <2>2. CASE i \in 1..Len(s)
    BY <1>1, <2>2 DEF NewestRun
  <2> QED
    BY <1>1, <2>1, <2>2
<1>3. CASE Len(longer) > MaxMessages
  <2>1. r = Without(longer, k)
    BY <1>3 DEF appendWebSocketMessage
  <2>2. k \in 0..Len(longer) /\ Len(longer) - k = MaxMessages
    BY <1>1, <1>3
  <2> HIDE DEF longer, k, r
  <2>3. /\ r \in Seq(Message)
        /\ Len(r) = MaxMessages
        /\ \A i \in 1..MaxMessages : r[i] = longer[i + k]
    BY <1>1, <2>1, <2>2, WithoutFacts
  <2>4. \A last \in Nat : NewestRun(longer, last + 1) => NewestRun(r, last + 1)
    <3> SUFFICES ASSUME NEW last \in Nat, NewestRun(longer, last + 1)
                 PROVE  NewestRun(r, last + 1)
      OBVIOUS
    <3>1. last + 1 \in Nat
      OBVIOUS
    <3> QED  BY <1>1, <2>1, <2>2, <3>1, WithoutRun
  <2>5. Len(r) <= Len(s) + 1
    BY <1>1, <1>3, <2>3
  <2> QED
    BY <1>2, <2>3, <2>4, <2>5 DEF r
<1>4. CASE ~(Len(longer) > MaxMessages)
  <2>1. r = longer
    BY <1>4 DEF appendWebSocketMessage
  <2> QED
    BY <1>1, <1>2, <1>4, <2>1
<1> QED
  BY <1>3, <1>4

\* The body of a frame, text or base64, has a length.
LEMMA BodyLenType ==
  ASSUME NEW f \in Frames
  PROVE  f.len \in Nat /\ BodyLen(f) \in Nat
BY RegistryAssumption DEF Frame, BodyLen

-----------------------------------------------------------------------------
(* The buffers: their type and the newest-run invariant go together, for   *)
(* the trim and the poll read the order from the type of the buffer.       *)

BufferInv == BufferTypeOK /\ BufferIsNewestRun

\* One more message, appended to the buffer of a connection.
LEMMA LogStep ==
  ASSUME BufferInv, NEW c \in Conns, NEW d \in Directions, NEW n \in Nat,
         Log(c, d, n), UNCHANGED <<totalBytes, handed>>
  PROVE  BufferInv'
<1> DEFINE m == Msg(appended[c] + 1, d, n)
           r == appendWebSocketMessage(messages[c], m)
<1>1. /\ messages[c] \in Seq(Message) /\ Len(messages[c]) <= MaxMessages
      /\ appended[c] \in Nat /\ handed[c] \in Nat
      /\ NewestRun(messages[c], appended[c])
      /\ handed[c] <= appended[c] - Len(messages[c])
  BY DEF BufferInv, BufferTypeOK, BufferIsNewestRun
<1>2. m \in Message /\ m.seq = appended[c] + 1
  BY <1>1 DEF Msg, Message
<1>3. /\ r \in Seq(Message)
      /\ Len(r) \in 1..MaxMessages /\ Len(r) <= Len(messages[c]) + 1
      /\ NewestRun(r, appended[c] + 1)
  BY <1>1, <1>2, AppendFacts
<1>4. /\ messages' = [messages EXCEPT ![c] = r]
      /\ appended' = [appended EXCEPT ![c] = appended[c] + 1]
  BY DEF Log
<1> HIDE DEF m, r
<1>5. BufferTypeOK'
  BY <1>1, <1>3, <1>4, BufferAssumption DEF BufferInv, BufferTypeOK
<1>6. BufferIsNewestRun'
  <2> SUFFICES ASSUME NEW e \in Conns
               PROVE  /\ NewestRun(messages'[e], appended'[e])
                      /\ handed'[e] <= appended'[e] - Len(messages'[e])
    BY DEF BufferIsNewestRun, NewestRun
  <2>1. CASE e = c
    <3>1. messages'[e] = r /\ appended'[e] = appended[c] + 1 /\ handed'[e] = handed[c]
      BY <1>4, <2>1 DEF BufferInv, BufferTypeOK
    <3>2. handed[c] <= appended[c] + 1 - Len(r)
      BY <1>1, <1>3, BufferAssumption
    <3>3. NewestRun(messages'[e], appended'[e])
      BY <1>3, <3>1 DEF NewestRun
    <3>4. handed'[e] <= appended'[e] - Len(messages'[e])
      BY <1>1, <1>3, <3>1, <3>2
    <3> QED
      BY <3>3, <3>4
  <2>2. CASE e # c
    <3>1. messages'[e] = messages[e] /\ appended'[e] = appended[e]
          /\ handed'[e] = handed[e]
      BY <1>4, <2>2 DEF BufferInv, BufferTypeOK
    <3> QED
      BY <3>1 DEF BufferInv, BufferIsNewestRun
  <2> QED
    BY <2>1, <2>2
<1> QED
  BY <1>5, <1>6 DEF BufferInv

\* The buffer of one connection is replaced by a run of newest messages that
\* starts no earlier, and whatever was handed out lies before it.
LEMMA ReplaceStep ==
  ASSUME BufferInv, NEW c \in Conns, NEW r \in Seq(Message), NEW last \in Nat,
         NEW h \in Nat,
         Len(r) <= MaxMessages, NewestRun(r, last), h <= last - Len(r),
         messages' = [messages EXCEPT ![c] = r],
         appended' = [appended EXCEPT ![c] = last],
         handed' = [handed EXCEPT ![c] = h],
         DOMAIN totalBytes' = Conns
  PROVE  BufferInv'
<1>1. BufferTypeOK'
  BY BufferAssumption DEF BufferInv, BufferTypeOK
<1>2. BufferIsNewestRun'
  <2> SUFFICES ASSUME NEW e \in Conns
               PROVE  /\ NewestRun(messages'[e], appended'[e])
                      /\ handed'[e] <= appended'[e] - Len(messages'[e])
    BY DEF BufferIsNewestRun, NewestRun
  <2>1. CASE e = c
    <3>1. messages'[e] = r /\ appended'[e] = last /\ handed'[e] = h
      BY <2>1 DEF BufferInv, BufferTypeOK
    <3> QED
      BY <3>1 DEF NewestRun
  <2>2. CASE e # c
    <3>1. messages'[e] = messages[e] /\ appended'[e] = appended[e]
          /\ handed'[e] = handed[e]
      BY <2>2 DEF BufferInv, BufferTypeOK
    <3> QED
      BY <3>1 DEF BufferInv, BufferIsNewestRun
  <2> QED
    BY <2>1, <2>2
<1> QED
  BY <1>1, <1>2 DEF BufferInv

\* A poll removes from the front exactly what it returns.
LEMMA PollStep ==
  ASSUME BufferInv, HandlerTypeOK, NEW t \in Rpcs, NEW n \in PollSizes,
         PollDrain(t, n)
  PROVE  BufferInv'
<1> DEFINE c == rpc[t].conn
           s == messages[c]
           k == PollCount(s, n)
           h == IF k = 0 THEN handed[c] ELSE s[k].seq
<1>1. c \in Conns
  BY DEF HandlerTypeOK, PollDrain, Drain
<1>2. /\ s \in Seq(Message) /\ Len(s) \in Nat /\ Len(s) <= MaxMessages
      /\ appended[c] \in Nat /\ handed[c] \in Nat
      /\ NewestRun(s, appended[c])
      /\ handed[c] <= appended[c] - Len(s)
  BY <1>1 DEF BufferInv, BufferTypeOK, BufferIsNewestRun
<1>3. k \in 0..Len(s)
  BY <1>2, BufferAssumption, RegistryAssumption DEF PollCount, PollLimit
<1>4. /\ Without(s, k) \in Seq(Message)
      /\ Len(Without(s, k)) = Len(s) - k
      /\ \A i \in 1..(Len(s) - k) : Without(s, k)[i] = s[i + k]
  BY <1>2, <1>3, WithoutFacts
<1>5. /\ messages' = [messages EXCEPT ![c] = Without(s, k)]
      /\ appended' = [appended EXCEPT ![c] = appended[c]]
      /\ handed' = [handed EXCEPT ![c] = h]
      /\ DOMAIN totalBytes' = Conns
  BY <1>1 DEF PollDrain, Drain, BufferInv, BufferTypeOK
<1> HIDE DEF c, s, k
<1>6. NewestRun(Without(s, k), appended[c])
  BY <1>2, <1>3, WithoutRun
<1>7. h \in Nat /\ h <= appended[c] - Len(Without(s, k))
  <2>1. CASE k = 0
    BY <1>2, <1>4, <2>1
  <2>2. CASE k # 0
    <3>1. k \in 1..Len(s)
      BY <1>2, <1>3, <2>2
    <3>2. h = appended[c] - Len(s) + k
      BY <1>2, <2>2, <3>1 DEF NewestRun
    <3> QED
      BY <1>2, <1>4, <3>1, <3>2
  <2> QED
    BY <2>1, <2>2
<1>8. Len(Without(s, k)) <= MaxMessages
  BY <1>2, <1>3, <1>4, BufferAssumption
<1> QED
  BY <1>1, <1>2, <1>4, <1>5, <1>6, <1>7, <1>8, ReplaceStep

\* A frame taken in by the reader, with or without an overflow.
LEMMA ReadStep ==
  ASSUME BufferInv, NEW c \in Conns, NEW f \in Frames, ReaderBuffer(c, f)
  PROVE  BufferInv'
<1> DEFINE s == messages[c]
           overflow == totalBytes[c] + f.len > MaxBufferBytes
           cut == IF overflow THEN Half(s) ELSE 0
           kept == Without(s, cut)
           warn == Msg(appended[c] + 1, "system", SystemLen)
           base == IF overflow THEN appendWebSocketMessage(kept, warn) ELSE kept
           last == appended[c] + (IF overflow THEN 2 ELSE 1)
           m == Msg(last, "in", BodyLen(f))
           r == appendWebSocketMessage(base, m)
<1>1. /\ s \in Seq(Message) /\ Len(s) \in Nat /\ Len(s) <= MaxMessages
      /\ appended[c] \in Nat /\ handed[c] \in Nat
      /\ NewestRun(s, appended[c])
      /\ handed[c] <= appended[c] - Len(s)
  BY DEF BufferInv, BufferTypeOK, BufferIsNewestRun
<1>2. cut \in 0..Len(s)
  BY <1>1, HalfType
<1>3. last \in Nat /\ last - 1 \in Nat /\ (~overflow => last - 1 = appended[c])
      /\ (overflow => last - 1 = appended[c] + 1)
  BY <1>1
<1>4. m \in Message /\ m.seq = last /\ warn \in Message
      /\ warn.seq = appended[c] + 1
  BY <1>1, <1>3, BodyLenType, BufferAssumption DEF Msg, Message, Directions
<1>5. /\ messages' = [messages EXCEPT ![c] = r]
      /\ appended' = [appended EXCEPT ![c] = last]
      /\ handed' = [handed EXCEPT ![c] = handed[c]]
      /\ DOMAIN totalBytes' = Conns
  BY DEF ReaderBuffer, BufferInv, BufferTypeOK
<1> HIDE DEF s, overflow, cut, warn, last, m
<1>6. /\ kept \in Seq(Message) /\ Len(kept) = Len(s) - cut
      /\ \A i \in 1..(Len(s) - cut) : kept[i] = s[i + cut]
  BY <1>1, <1>2, WithoutFacts
<1> HIDE DEF kept
<1>7. /\ NewestRun(kept, appended[c]) /\ Len(kept) <= MaxMessages
      /\ Len(kept) \in Nat /\ handed[c] <= appended[c] - Len(kept)
  <2>1. NewestRun(kept, appended[c])
    BY <1>1, <1>2, WithoutRun DEF kept
  <2> QED
    BY <1>1, <1>2, <1>6, <2>1, BufferAssumption
<1>8. /\ base \in Seq(Message) /\ Len(base) \in Nat /\ Len(base) <= MaxMessages
      /\ NewestRun(base, last - 1) /\ handed[c] <= last - 1 - Len(base)
  <2>1. CASE overflow
    <3>1. /\ base \in Seq(Message)
          /\ Len(base) \in 1..MaxMessages /\ Len(base) <= Len(kept) + 1
          /\ NewestRun(base, appended[c] + 1)
      BY <1>1, <1>4, <1>6, <1>7, <2>1, AppendFacts
    <3> QED
      BY <1>1, <1>3, <1>7, <2>1, <3>1, BufferAssumption, SMTT(30)
  <2>2. CASE ~overflow
    BY <1>1, <1>3, <1>6, <1>7, <2>2
  <2> QED
    BY <2>1, <2>2
<1> HIDE DEF base
<1>9. /\ r \in Seq(Message)
      /\ Len(r) \in 1..MaxMessages /\ Len(r) <= Len(base) + 1
      /\ NewestRun(r, last)
  <2>1. m.seq = (last - 1) + 1 /\ (last - 1) + 1 = last
    BY <1>3, <1>4
  <2> QED
    BY <1>3, <1>4, <1>8, <2>1, AppendFacts
<1> HIDE DEF r
<1>10. handed[c] <= last - Len(r) /\ Len(r) <= MaxMessages
  BY <1>1, <1>3, <1>8, <1>9, BufferAssumption, SMTT(30)
<1> QED
  BY <1>1, <1>3, <1>5, <1>9, <1>10, ReplaceStep

\* Every step keeps the buffers in order.
LEMMA BufferStep == BufferInv /\ HandlerTypeOK /\ [Next]_vars => BufferInv'
<1> SUFFICES ASSUME BufferInv, HandlerTypeOK, [Next]_vars PROVE BufferInv'
  OBVIOUS
<1> USE DEF vars, bufferVars
<1>1. CASE UNCHANGED bufferVars
  BY <1>1 DEF BufferInv, BufferTypeOK, BufferIsNewestRun, NewestRun
<1>2. ASSUME NEW t \in Rpcs, NEW c \in Conns, Dial(t, c) PROVE BufferInv'
  BY <1>2, LogStep, BufferAssumption DEF Dial, Directions
<1>3. ASSUME NEW t \in Rpcs, NEW f \in Frames, SendRecord(t, f) PROVE BufferInv'
  <2>1. rpc[t].conn \in Conns
    BY <1>3 DEF SendRecord, HandlerTypeOK
  <2> QED
    BY <1>3, <2>1, LogStep, BodyLenType DEF SendRecord, Directions
<1>4. ASSUME NEW t \in Rpcs, NEW n \in PollSizes, PollDrain(t, n) PROVE BufferInv'
  BY <1>4, PollStep
<1>5. ASSUME NEW c \in Conns, NEW f \in Frames, ReaderBuffer(c, f) PROVE BufferInv'
  BY <1>5, ReadStep
<1>6. ASSUME NEW c \in Conns, ReaderFail(c) PROVE BufferInv'
  BY <1>6, LogStep, BufferAssumption DEF ReaderFail, Directions
<1>7. CASE UNCHANGED vars
  BY <1>1, <1>7
<1>8. ASSUME NEW t \in Rpcs, Handler(t) PROVE BufferInv'
  BY <1>1, <1>2, <1>3, <1>4, <1>8
     DEF Handler, SendLookup, PollLookup, CloseRemove, Lookup, ConnectLock,
         ConnectRegister, SendCheck, SendWrite, ConcurrentWrite, CloseMark,
         CloseSocket
<1>9. ASSUME NEW c \in Conns, Goroutine(c) \/ TimePasses(c) PROVE BufferInv'
  BY <1>1, <1>5, <1>6, <1>9
     DEF Goroutine, TimePasses, ReaderReceive, PingTick, PingWrite
<1>10. CASE Sweep
  BY <1>1, <1>10 DEF Sweep, TickerLock, TickerUnlock, SweepJudge, SweepClose
<1> QED
  BY <1>7, <1>8, <1>9, <1>10 DEF Next

-----------------------------------------------------------------------------
(* The registry, the sockets, the goroutines and the handlers.             *)

\* wsMu: a handler that sweeps holds it, and nobody else sweeps; a connection
\* that was judged is not judged again.
SweepMutex ==
  /\ SweepOwnsRegistry
  /\ todo \intersect doomed = {}
  /\ \A t \in Rpcs : rpc[t].pc = "sweeping" => wsMu = "connect"

ControlInv ==
  /\ ConnectionTypeOK /\ HandlerTypeOK /\ SweepTypeOK
  /\ NoOrphanSocket /\ DeadConnectionIsMarked /\ SweepMutex

\* Every step keeps sockets owned, dead connections marked and sweeps alone.
LEMMA ControlStep == ControlInv /\ [Next]_vars => ControlInv'
<1> SUFFICES ASSUME ControlInv, [Next]_vars PROVE ControlInv'
  OBVIOUS
<1> USE RegistryAssumption
    DEF ControlInv, ConnectionTypeOK, HandlerTypeOK, SweepTypeOK, NoOrphanSocket,
        DeadConnectionIsMarked, SweepMutex, SweepOwnsRegistry,
        sweepVars, Idle, At, HandlerPcs
<1>1. ASSUME NEW t \in Rpcs, NEW c \in Conns, Dial(t, c) PROVE ControlInv'
  BY <1>1 DEF Dial
<1>2. ASSUME NEW t \in Rpcs, ConnectLock(t) PROVE ControlInv'
  BY <1>2 DEF ConnectLock
<1>3. ASSUME NEW t \in Rpcs, ConnectRegister(t) PROVE ControlInv'
  BY <1>3 DEF ConnectRegister
<1>4. CASE TickerLock
  BY <1>4 DEF TickerLock
<1>5. ASSUME NEW c \in Conns, SweepJudge(c) PROVE ControlInv'
  BY <1>5 DEF SweepJudge
<1>6. ASSUME NEW c \in Conns, SweepClose(c) PROVE ControlInv'
  BY <1>6 DEF SweepClose
<1>7. CASE TickerUnlock
  BY <1>7 DEF TickerUnlock
<1>8. ASSUME NEW c \in Conns, TimePasses(c) PROVE ControlInv'
  BY <1>8 DEF TimePasses
<1>9. ASSUME NEW t \in Rpcs, NEW c \in Conns, SendLookup(t, c) PROVE ControlInv'
  BY <1>9 DEF SendLookup, Lookup
<1>10. ASSUME NEW t \in Rpcs, NEW c \in Conns, PollLookup(t, c) PROVE ControlInv'
  BY <1>10 DEF PollLookup, Lookup
<1>11. ASSUME NEW t \in Rpcs, NEW c \in Conns, CloseRemove(t, c) PROVE ControlInv'
  BY <1>11 DEF CloseRemove, Lookup
<1>12. ASSUME NEW t \in Rpcs, SendCheck(t) PROVE ControlInv'
  <2>1. CASE rpc' = [rpc EXCEPT ![t] = Idle]
    BY <1>12, <2>1 DEF SendCheck
  <2>2. CASE rpc' = [rpc EXCEPT ![t].pc = "writing"]
    BY <1>12, <2>2 DEF SendCheck
  <2> QED
    BY <1>12, <2>1, <2>2 DEF SendCheck
<1>13. ASSUME NEW t \in Rpcs, SendWrite(t) PROVE ControlInv'
  <2>1. CASE rpc' = [rpc EXCEPT ![t].pc = "sent"]
    BY <1>13, <2>1 DEF SendWrite
  <2>2. CASE rpc' = [rpc EXCEPT ![t].pc = "sendFailed"]
    BY <1>13, <2>2 DEF SendWrite
  <2> QED
    BY <1>13, <2>1, <2>2 DEF SendWrite
<1>14. ASSUME NEW t \in Rpcs, NEW u \in Rpcs, ConcurrentWrite(t, u) PROVE ControlInv'
  BY <1>14 DEF ConcurrentWrite
<1>15. ASSUME NEW t \in Rpcs, NEW f \in Frames, SendRecord(t, f) PROVE ControlInv'
  BY <1>15 DEF SendRecord, Touch
<1>16. ASSUME NEW t \in Rpcs, NEW n \in PollSizes, PollDrain(t, n) PROVE ControlInv'
  BY <1>16 DEF PollDrain, Drain, Touch
<1>17. ASSUME NEW t \in Rpcs, CloseMark(t) PROVE ControlInv'
  BY <1>17 DEF CloseMark
<1>18. ASSUME NEW t \in Rpcs, CloseSocket(t) PROVE ControlInv'
  BY <1>18 DEF CloseSocket
<1>19. ASSUME NEW c \in Conns, ReaderReceive(c) PROVE ControlInv'
  BY <1>19 DEF ReaderReceive
<1>20. ASSUME NEW c \in Conns, NEW f \in Frames, ReaderBuffer(c, f) PROVE ControlInv'
  BY <1>20 DEF ReaderBuffer, Touch
<1>21. ASSUME NEW c \in Conns, ReaderFail(c) PROVE ControlInv'
  BY <1>21 DEF ReaderFail, Touch
<1>22. ASSUME NEW c \in Conns, PingTick(c) PROVE ControlInv'
  BY <1>22 DEF PingTick
<1>23. ASSUME NEW c \in Conns, PingWrite(c) PROVE ControlInv'
  <2>1. CASE UNCHANGED closed /\ pinger' = [pinger EXCEPT ![c] = "waiting"]
    BY <1>23, <2>1 DEF PingWrite
  <2>2. CASE pinger' = [pinger EXCEPT ![c] = "done"]
             /\ closed' = [closed EXCEPT ![c] = TRUE]
    BY <1>23, <2>2 DEF PingWrite
  <2> QED
    BY <1>23, <2>1, <2>2 DEF PingWrite
<1>24. CASE UNCHANGED vars
  BY <1>24 DEF vars
<1> QED
  BY <1>1, <1>2, <1>3, <1>4, <1>5, <1>6, <1>7, <1>8, <1>9, <1>10, <1>11, <1>12, <1>13, <1>14, <1>15, <1>16, <1>17, <1>18, <1>19, <1>20, <1>21, <1>22, <1>23, <1>24
     DEF Next, Handler, Goroutine, Sweep

-----------------------------------------------------------------------------
(* The theorems.                                                           *)

\* The invariant holds at the start.
LEMMA InvInit == Init => BufferInv /\ ControlInv
<1> SUFFICES ASSUME Init PROVE BufferInv /\ ControlInv
  OBVIOUS
<1>1. BufferInv
  BY BufferAssumption DEF Init, BufferInv, BufferTypeOK, BufferIsNewestRun, NewestRun
<1>2. ControlInv
  BY RegistryAssumption
     DEF Init, ControlInv, ConnectionTypeOK, HandlerTypeOK, SweepTypeOK,
         NoOrphanSocket, DeadConnectionIsMarked, SweepMutex, SweepOwnsRegistry,
         Idle, HandlerPcs
<1> QED
  BY <1>1, <1>2

\* Every step keeps the invariant.
LEMMA InvStep ==
  BufferInv /\ ControlInv /\ [Next]_vars => BufferInv' /\ ControlInv'
BY BufferStep, ControlStep DEF ControlInv

\* The invariant holds in every reachable state.
LEMMA Invariance == Spec => [](BufferInv /\ ControlInv)
BY InvInit, InvStep, PTL DEF Spec

\* The types hold, and with them the 500-message limit of every buffer, for
\* any number of connections and concurrent handlers.
THEOREM TypeCorrect == Spec => []TypeOK
<1>1. BufferInv /\ ControlInv => TypeOK
  BY DEF BufferInv, ControlInv, TypeOK
<1> QED
  BY <1>1, Invariance, PTL

\* However polls, sends, reads, overflows and trims interleave, a buffer is
\* the gap-free run of the newest messages and nothing in it was polled before.
THEOREM BufferOrdered == Spec => []BufferIsNewestRun
<1>1. BufferInv => BufferIsNewestRun
  BY DEF BufferInv
<1> QED
  BY <1>1, Invariance, PTL

\* No open socket is ever out of reach of a close, a sweep or its connect.
THEOREM SocketsOwned == Spec => []NoOrphanSocket
<1>1. ControlInv => NoOrphanSocket
  BY DEF ControlInv
<1> QED
  BY <1>1, Invariance, PTL

\* A connection that lost a goroutine is marked closed.
THEOREM DeadMarked == Spec => []DeadConnectionIsMarked
<1>1. ControlInv => DeadConnectionIsMarked
  BY DEF ControlInv
<1> QED
  BY <1>1, Invariance, PTL

\* wsMu makes a sweep the only one to change the registry while it runs.
THEOREM SweepAlone == Spec => []SweepOwnsRegistry
<1>1. ControlInv => SweepOwnsRegistry
  BY DEF ControlInv, SweepMutex
<1> QED
  BY <1>1, Invariance, PTL
-----------------------------------------------------------------------------
(* The registry implements the lossy mailbox.                              *)

\* The numbers in a run of the newest messages are an interval.
LEMMA RunNumbers ==
  ASSUME NEW s \in Seq(Message), NEW a \in Nat, NewestRun(s, a)
  PROVE  {s[i].seq : i \in 1..Len(s)} = (a - Len(s) + 1)..a
<1> DEFINE n == Len(s)
           box == {s[i].seq : i \in 1..n}
<1>1. n \in Nat /\ \A i \in 1..n : s[i].seq = a - n + i
  BY DEF NewestRun
<1> HIDE DEF n
<1>2. ASSUME NEW x \in box PROVE x \in (a - n + 1)..a
  <2>1. PICK i \in 1..n : x = s[i].seq
    OBVIOUS
  <2> QED
    BY <1>1, <2>1
<1>3. ASSUME NEW x \in (a - n + 1)..a PROVE x \in box
  <2>1. x - a + n \in 1..n /\ a - n + (x - a + n) = x
    BY <1>1
  <2>2. s[x - a + n].seq = x
    BY <1>1, <2>1
  <2> QED
    BY <2>1, <2>2
<1> QED
  BY <1>2, <1>3 DEF n

\* k messages more, and none forgotten but the oldest: a put.
LEMMA PutStep ==
  ASSUME BufferInv, BufferInv', NEW c \in Conns, NEW k \in 1..2,
         appended'[c] = appended[c] + k, handed'[c] = handed[c],
         Len(messages'[c]) >= 1, Len(messages'[c]) <= Len(messages[c]) + k
  PROVE  Mailbox(c)!Put
<1> DEFINE a == appended[c]
           n == Len(messages[c])
           m == Len(messages'[c])
           box == {messages[c][i].seq : i \in 1..Len(messages[c])}
           after == {messages'[c][i].seq : i \in 1..Len(messages'[c])}
<1>1. /\ messages[c] \in Seq(Message) /\ NewestRun(messages[c], a)
      /\ n \in Nat /\ a \in Nat /\ handed[c] \in Nat /\ handed[c] <= a - n
  BY DEF BufferInv, BufferTypeOK, BufferIsNewestRun
<1>2. /\ messages'[c] \in Seq(Message) /\ NewestRun(messages'[c], appended'[c])
      /\ m \in Nat /\ appended'[c] \in Nat
  BY DEF BufferInv, BufferTypeOK, BufferIsNewestRun, NewestRun
<1>3. box = (a - n + 1)..a
  BY <1>1, RunNumbers
<1>4. after = (appended'[c] - m + 1)..appended'[c]
  BY <1>2, RunNumbers
<1>5. m >= 1 /\ m <= n + k /\ appended'[c] = a + k /\ handed'[c] = handed[c]
  OBVIOUS
<1> HIDE DEF a, n, m, box, after
<1>6. a + k - m \in 0..(a + k - 1)
  BY <1>1, <1>2, <1>5
<1>7. after = {x \in box \union (a + 1)..(a + k) : x > a + k - m}
  BY <1>1, <1>2, <1>3, <1>4, <1>5, SMTT(30)
<1> QED
  BY <1>5, <1>6, <1>7 DEF Mailbox!Put, a, box, after

\* The oldest k messages are gone and the last of them was handed out: a take.
LEMMA TakeStep ==
  ASSUME BufferInv, BufferInv', NEW c \in Conns, NEW k \in 1..Len(messages[c]),
         appended'[c] = appended[c], handed'[c] = messages[c][k].seq,
         Len(messages'[c]) = Len(messages[c]) - k
  PROVE  Mailbox(c)!Take
<1> DEFINE a == appended[c]
           n == Len(messages[c])
           box == {messages[c][i].seq : i \in 1..Len(messages[c])}
           after == {messages'[c][i].seq : i \in 1..Len(messages'[c])}
<1>1. /\ messages[c] \in Seq(Message) /\ NewestRun(messages[c], a)
      /\ n \in Nat /\ a \in Nat
  BY DEF BufferInv, BufferTypeOK, BufferIsNewestRun
<1>2. messages'[c] \in Seq(Message) /\ NewestRun(messages'[c], a)
  BY DEF BufferInv, BufferTypeOK, BufferIsNewestRun, NewestRun
<1>3. box = (a - n + 1)..a
  BY <1>1, RunNumbers
<1>4. after = (a - (n - k) + 1)..a
  BY <1>1, <1>2, RunNumbers
<1>5. messages[c][k].seq = a - n + k /\ messages[c][k].seq \in box
  BY <1>1 DEF NewestRun
<1>6. k \in 1..n
  OBVIOUS
<1> HIDE DEF a, n, box, after
<1>7. after = {x \in box : x > a - n + k}
  BY <1>1, <1>3, <1>4, <1>6, SMTT(30)
<1> QED
  BY <1>5, <1>7 DEF Mailbox!Take, a, box, after

\* A connection whose buffer no step touched.
LEMMA MailboxStays ==
  ASSUME NEW c \in Conns, messages'[c] = messages[c],
         appended'[c] = appended[c], handed'[c] = handed[c]
  PROVE  [Mailbox(c)!Next]_(Mailbox(c)!mailbox)
BY DEF Mailbox!mailbox

\* One message more, as a connect, a send or the end of a reader logs it.
LEMMA LogIsPut ==
  ASSUME BufferInv, BufferInv', NEW c \in Conns, NEW d \in Directions, NEW n \in Nat,
         Log(c, d, n), UNCHANGED <<totalBytes, handed>>
  PROVE  \A e \in Conns : [Mailbox(e)!Next]_(Mailbox(e)!mailbox)
<1> DEFINE m == Msg(appended[c] + 1, d, n)
           r == appendWebSocketMessage(messages[c], m)
<1>1. /\ messages[c] \in Seq(Message) /\ Len(messages[c]) <= MaxMessages
      /\ appended[c] \in Nat
  BY DEF BufferInv, BufferTypeOK
<1>2. m \in Message
  BY <1>1 DEF Msg, Message
<1>3. Len(r) \in 1..MaxMessages /\ Len(r) <= Len(messages[c]) + 1
  BY <1>1, <1>2, AppendFacts
<1>4. /\ messages' = [messages EXCEPT ![c] = r]
      /\ appended' = [appended EXCEPT ![c] = appended[c] + 1]
  BY DEF Log
<1> HIDE DEF m, r
<1>5. messages'[c] = r /\ appended'[c] = appended[c] + 1 /\ handed'[c] = handed[c]
  BY <1>4 DEF BufferInv, BufferTypeOK
<1>6. Mailbox(c)!Put
  BY <1>3, <1>5, PutStep, BufferAssumption
<1> SUFFICES ASSUME NEW e \in Conns
             PROVE  [Mailbox(e)!Next]_(Mailbox(e)!mailbox)
  OBVIOUS
<1>7. CASE e = c
  BY <1>6, <1>7 DEF Mailbox!Next
<1>8. CASE e # c
  BY <1>4, <1>8, MailboxStays DEF BufferInv, BufferTypeOK
<1> QED
  BY <1>7, <1>8

\* A poll takes the oldest messages, or none.
LEMMA DrainIsTake ==
  ASSUME BufferInv, BufferInv', NEW c \in Conns, NEW n \in Int, Drain(c, n)
  PROVE  \A e \in Conns : [Mailbox(e)!Next]_(Mailbox(e)!mailbox)
<1> DEFINE s == messages[c]
           k == PollCount(s, n)
<1>1. s \in Seq(Message) /\ Len(s) \in Nat
  BY DEF BufferInv, BufferTypeOK
<1>2. k \in 0..Len(s)
  BY <1>1, BufferAssumption DEF PollCount, PollLimit
<1>3. Len(Without(s, k)) = Len(s) - k /\ Without(s, 0) = s
  BY <1>1, <1>2, WithoutFacts DEF Without
<1>4. /\ messages' = [messages EXCEPT ![c] = Without(s, k)]
      /\ appended' = appended
      /\ handed' = [handed EXCEPT ![c] = IF k = 0 THEN handed[c] ELSE s[k].seq]
  BY DEF Drain
<1> HIDE DEF k
<1>5. /\ messages'[c] = Without(s, k) /\ appended'[c] = appended[c]
      /\ handed'[c] = IF k = 0 THEN handed[c] ELSE s[k].seq
  BY <1>4 DEF BufferInv, BufferTypeOK
<1> SUFFICES ASSUME NEW e \in Conns
             PROVE  [Mailbox(e)!Next]_(Mailbox(e)!mailbox)
  OBVIOUS
<1>6. CASE e = c /\ k = 0
  BY <1>3, <1>5, <1>6, MailboxStays
<1>7. CASE e = c /\ k # 0
  <2>1. k \in 1..Len(messages[c])
    BY <1>1, <1>2, <1>7
  <2>2. Mailbox(c)!Take
    BY <1>3, <1>5, <1>7, <2>1, TakeStep
  <2> QED
    BY <1>7, <2>2 DEF Mailbox!Next
<1>8. CASE e # c
  BY <1>4, <1>8, MailboxStays DEF BufferInv, BufferTypeOK
<1> QED
  BY <1>6, <1>7, <1>8

\* A frame that is read is put, after a warning if it overflowed the buffer.
LEMMA ReadIsPut ==
  ASSUME BufferInv, BufferInv', NEW c \in Conns, NEW f \in Frames, ReaderBuffer(c, f)
  PROVE  \A e \in Conns : [Mailbox(e)!Next]_(Mailbox(e)!mailbox)
<1> DEFINE s == messages[c]
           overflow == totalBytes[c] + f.len > MaxBufferBytes
           cut == IF overflow THEN Half(s) ELSE 0
           kept == Without(s, cut)
           warn == Msg(appended[c] + 1, "system", SystemLen)
           base == IF overflow THEN appendWebSocketMessage(kept, warn) ELSE kept
           k == IF overflow THEN 2 ELSE 1
           m == Msg(appended[c] + k, "in", BodyLen(f))
           r == appendWebSocketMessage(base, m)
<1>1. /\ s \in Seq(Message) /\ Len(s) \in Nat /\ Len(s) <= MaxMessages
      /\ appended[c] \in Nat
  BY DEF BufferInv, BufferTypeOK
<1>2. cut \in 0..Len(s)
  BY <1>1, HalfType
<1>3. m \in Message /\ warn \in Message /\ k \in 1..2
  BY <1>1, BodyLenType, BufferAssumption DEF Msg, Message, Directions
<1>4. /\ messages' = [messages EXCEPT ![c] = r]
      /\ appended' = [appended EXCEPT ![c] = appended[c] + k]
      /\ handed' = handed
  BY DEF ReaderBuffer
<1> HIDE DEF s, cut, warn, m
<1>5. kept \in Seq(Message) /\ Len(kept) \in Nat /\ Len(kept) <= Len(s)
  <2>1. kept \in Seq(Message) /\ Len(kept) = Len(s) - cut
    BY <1>1, <1>2, WithoutFacts
  <2> QED
    BY <1>1, <1>2, <2>1
<1>6. Len(kept) <= MaxMessages
  BY <1>1, <1>5, BufferAssumption
<1> HIDE DEF kept
<1>7. /\ base \in Seq(Message) /\ Len(base) \in Nat /\ Len(base) <= MaxMessages
      /\ Len(base) <= Len(kept) + (k - 1)
  <2>1. CASE overflow
    <3>1. /\ base \in Seq(Message) /\ Len(base) \in 1..MaxMessages
          /\ Len(base) <= Len(kept) + 1
      BY <1>3, <1>5, <1>6, <2>1, AppendFacts
    <3> QED
      BY <1>5, <2>1, <3>1, BufferAssumption
  <2>2. CASE ~overflow
    BY <1>5, <1>6, <2>2
  <2> QED
    BY <2>1, <2>2
<1> HIDE DEF base
<1>8. Len(r) \in 1..MaxMessages /\ Len(r) <= Len(base) + 1
  BY <1>3, <1>7, AppendFacts
<1> HIDE DEF r, k
<1>9. Len(r) >= 1 /\ Len(r) <= Len(s) + k
  BY <1>1, <1>3, <1>5, <1>7, <1>8, BufferAssumption
<1>10. messages'[c] = r /\ appended'[c] = appended[c] + k /\ handed'[c] = handed[c]
  BY <1>4 DEF BufferInv, BufferTypeOK
<1>11. Mailbox(c)!Put
  BY <1>3, <1>9, <1>10, PutStep DEF s
<1> SUFFICES ASSUME NEW e \in Conns
             PROVE  [Mailbox(e)!Next]_(Mailbox(e)!mailbox)
  OBVIOUS
<1>12. CASE e = c
  BY <1>11, <1>12 DEF Mailbox!Next
<1>13. CASE e # c
  BY <1>4, <1>13, MailboxStays DEF BufferInv, BufferTypeOK
<1> QED
  BY <1>12, <1>13

\* Every step of the registry is a step of each mailbox, or leaves it alone.
LEMMA MailboxStep ==
  BufferInv /\ BufferInv' /\ HandlerTypeOK /\ [Next]_vars
    => \A c \in Conns : [Mailbox(c)!Next]_(Mailbox(c)!mailbox)
<1> SUFFICES ASSUME BufferInv, BufferInv', HandlerTypeOK, [Next]_vars
             PROVE  \A c \in Conns : [Mailbox(c)!Next]_(Mailbox(c)!mailbox)
  OBVIOUS
<1> DEFINE Steps == \A c \in Conns : [Mailbox(c)!Next]_(Mailbox(c)!mailbox)
<1>1. ASSUME UNCHANGED bufferVars PROVE Steps
  BY <1>1, MailboxStays DEF bufferVars
<1>2. ASSUME NEW t \in Rpcs, NEW c \in Conns, Dial(t, c) PROVE Steps
  BY <1>2, LogIsPut, BufferAssumption DEF Dial, Directions
<1>3. ASSUME NEW t \in Rpcs, NEW f \in Frames, SendRecord(t, f) PROVE Steps
  <2>1. rpc[t].conn \in Conns
    BY <1>3 DEF SendRecord, HandlerTypeOK
  <2> QED
    BY <1>3, <2>1, LogIsPut, BodyLenType DEF SendRecord, Directions
<1>4. ASSUME NEW t \in Rpcs, NEW n \in PollSizes, PollDrain(t, n) PROVE Steps
  <2>1. rpc[t].conn \in Conns /\ n \in Int
    BY <1>4, RegistryAssumption DEF PollDrain, HandlerTypeOK
  <2> QED
    BY <1>4, <2>1, DrainIsTake DEF PollDrain
<1>5. ASSUME NEW c \in Conns, NEW f \in Frames, ReaderBuffer(c, f) PROVE Steps
  BY <1>5, ReadIsPut
<1>6. ASSUME NEW c \in Conns, ReaderFail(c) PROVE Steps
  BY <1>6, LogIsPut, BufferAssumption DEF ReaderFail, Directions
<1> HIDE DEF Steps
<1> USE DEF bufferVars
<1>7. ASSUME UNCHANGED vars PROVE Steps
  BY <1>1, <1>7 DEF vars
<1>8. ASSUME NEW t \in Rpcs, Handler(t) PROVE Steps
  BY <1>1, <1>2, <1>3, <1>4, <1>8
     DEF Handler, SendLookup, PollLookup, CloseRemove, Lookup, ConnectLock,
         ConnectRegister, SendCheck, SendWrite, ConcurrentWrite, CloseMark,
         CloseSocket
<1>9. ASSUME NEW c \in Conns, Goroutine(c) \/ TimePasses(c) PROVE Steps
  BY <1>1, <1>5, <1>6, <1>9
     DEF Goroutine, TimePasses, ReaderReceive, PingTick, PingWrite
<1>10. ASSUME Sweep PROVE Steps
  BY <1>1, <1>10 DEF Sweep, TickerLock, TickerUnlock, SweepJudge, SweepClose
<1>11. Steps
  BY <1>7, <1>8, <1>9, <1>10 DEF Next
<1> QED
  BY <1>11 DEF Steps

\* However connects, sends, reads, overflows and polls interleave, the buffer of
\* every connection is a lossy mailbox: a poller gets messages in order, none
\* twice, and only ever misses the oldest (websocket.go, appendWebSocketMessage,
\* readWebSocket, WebSocketPoll).
THEOREM BufferIsMailbox == Spec => MailboxDelivery
<1>1. Init => \A c \in Conns : Mailbox(c)!Init
  BY DEF Init, Mailbox!Init
<1>2. (BufferInv /\ ControlInv) /\ (BufferInv /\ ControlInv)' /\ [Next]_vars
        => [\A c \in Conns : [Mailbox(c)!Next]_(Mailbox(c)!mailbox)]_vars
  BY MailboxStep DEF ControlInv
<1> QED
  BY <1>1, <1>2, Invariance, PTL DEF Spec, MailboxDelivery

-----------------------------------------------------------------------------
(* The event streams.                                                      *)

\* A handler that has dialed a connection and not yet registered it.
Pending(t) == rpc[t].pc \in {"dialed", "sweeping"}

\* A connection is registered once: what is dialed is fresh and belongs to one
\* connect, and an event stream is opened for a connection that was registered.
OnceRegistered ==
  /\ \A c \in Conns : socket[c] = "none" => reader[c] = "none"
  /\ \A t \in Rpcs : \A c \in Conns : rpc[t].conn = c => socket[c] # "none"
  /\ \A c \in registry : socket[c] # "none" /\ reader[c] # "none"
  /\ \A t, u \in Rpcs :
       Pending(t) /\ Pending(u) /\ rpc[t].conn = rpc[u].conn => t = u
  /\ \A t \in Rpcs : Pending(t) => reader[rpc[t].conn] = "none"
  /\ \A c \in Conns : relay[c] # "none" => reader[c] # "none"

RelayTypeOK == relay \in [Conns -> {"none", "due", "found", "closed", "failed", "lost"}]

EventsInv == RelayTypeOK /\ OnceRegistered /\ CloseIsTrue

\* A step of the registry registers only what no event stream knows, and never
\* takes a close back.
LEMMA EventsRegistryStep ==
  ASSUME ConnectionTypeOK, HandlerTypeOK, SweepTypeOK, SweepMutex, EventsInv,
         Next, UNCHANGED relay
  PROVE  EventsInv'
<1> USE RegistryAssumption
    DEF EventsInv, RelayTypeOK, OnceRegistered, CloseIsTrue, Pending,
        ConnectionTypeOK, HandlerTypeOK, SweepTypeOK, SweepMutex,
        SweepOwnsRegistry, sweepVars, Idle, At, HandlerPcs
<1>1. ASSUME NEW t \in Rpcs, NEW c \in Conns, Dial(t, c) PROVE EventsInv'
  BY <1>1 DEF Dial
<1>2. ASSUME NEW t \in Rpcs, ConnectLock(t) PROVE EventsInv'
  BY <1>2 DEF ConnectLock
<1>3. ASSUME NEW t \in Rpcs, ConnectRegister(t) PROVE EventsInv'
  BY <1>3 DEF ConnectRegister
<1>4. ASSUME NEW c \in Conns, SweepJudge(c) \/ SweepClose(c) PROVE EventsInv'
  BY <1>4 DEF SweepJudge, SweepClose
<1>5. CASE TickerLock \/ TickerUnlock
  BY <1>5 DEF TickerLock, TickerUnlock
<1>6. ASSUME NEW c \in Conns, TimePasses(c) PROVE EventsInv'
  BY <1>6 DEF TimePasses
<1>7. ASSUME NEW t \in Rpcs, NEW c \in Conns,
             SendLookup(t, c) \/ PollLookup(t, c)
      PROVE  EventsInv'
  BY <1>7, SMTT(30) DEF SendLookup, PollLookup, Lookup
<1>8. ASSUME NEW t \in Rpcs, NEW c \in Conns, CloseRemove(t, c) PROVE EventsInv'
  BY <1>8 DEF CloseRemove, Lookup
<1>9. ASSUME NEW t \in Rpcs, SendCheck(t) PROVE EventsInv'
  <2>1. CASE rpc' = [rpc EXCEPT ![t] = Idle]
    BY <1>9, <2>1 DEF SendCheck
  <2>2. CASE rpc' = [rpc EXCEPT ![t].pc = "writing"]
    BY <1>9, <2>2 DEF SendCheck
  <2> QED
    BY <1>9, <2>1, <2>2 DEF SendCheck
<1>10. ASSUME NEW t \in Rpcs, SendWrite(t) PROVE EventsInv'
  <2>1. CASE rpc' = [rpc EXCEPT ![t].pc = "sent"]
    BY <1>10, <2>1 DEF SendWrite
  <2>2. CASE rpc' = [rpc EXCEPT ![t].pc = "sendFailed"]
    BY <1>10, <2>2 DEF SendWrite
  <2> QED
    BY <1>10, <2>1, <2>2 DEF SendWrite
<1>11. ASSUME NEW t \in Rpcs, NEW u \in Rpcs, ConcurrentWrite(t, u) PROVE EventsInv'
  BY <1>11 DEF ConcurrentWrite
<1>12. ASSUME NEW t \in Rpcs, NEW f \in Frames, SendRecord(t, f) PROVE EventsInv'
  BY <1>12 DEF SendRecord
<1>13. ASSUME NEW t \in Rpcs, NEW n \in PollSizes, PollDrain(t, n) PROVE EventsInv'
  BY <1>13 DEF PollDrain
<1>14. ASSUME NEW t \in Rpcs, CloseMark(t) PROVE EventsInv'
  BY <1>14 DEF CloseMark
<1>15. ASSUME NEW t \in Rpcs, CloseSocket(t) PROVE EventsInv'
  BY <1>15 DEF CloseSocket
<1>16. ASSUME NEW c \in Conns, ReaderReceive(c) PROVE EventsInv'
  BY <1>16 DEF ReaderReceive
<1>17. ASSUME NEW c \in Conns, NEW f \in Frames, ReaderBuffer(c, f) PROVE EventsInv'
  BY <1>17 DEF ReaderBuffer
<1>18. ASSUME NEW c \in Conns, ReaderFail(c) PROVE EventsInv'
  BY <1>18 DEF ReaderFail
<1>19. ASSUME NEW c \in Conns, PingTick(c) PROVE EventsInv'
  BY <1>19 DEF PingTick
<1>20. ASSUME NEW c \in Conns, PingWrite(c) PROVE EventsInv'
  <2>1. CASE UNCHANGED closed
    BY <1>20, <2>1 DEF PingWrite
  <2>2. CASE closed' = [closed EXCEPT ![c] = TRUE]
    BY <1>20, <2>2 DEF PingWrite
  <2> QED
    BY <1>20, <2>1, <2>2 DEF PingWrite
<1> QED
  BY <1>1, <1>2, <1>3, <1>4, <1>5, <1>6, <1>7, <1>8, <1>9, <1>10, <1>11, <1>12, <1>13, <1>14, <1>15, <1>16, <1>17, <1>18, <1>19, <1>20
     DEF Next, Handler, Goroutine, Sweep

\* A step of an event stream says "closed" only of what is.
LEMMA RelayStep ==
  ASSUME ConnectionTypeOK, HandlerTypeOK, EventsInv, NEW c \in Conns, Relay(c)
  PROVE  EventsInv'
<1> USE DEF EventsInv, RelayTypeOK, OnceRegistered, CloseIsTrue, Pending,
            ConnectionTypeOK, HandlerTypeOK
<1>1. CASE RelayOpen(c)
  BY <1>1 DEF RelayOpen, vars
<1>2. CASE RelayAsk(c)
  BY <1>2 DEF RelayAsk, vars
<1>3. CASE RelayDrain(c)
  BY <1>3 DEF RelayDrain
<1>4. CASE RelayLost(c)
  BY <1>4 DEF RelayLost, vars
<1>5. CASE RelayAnswerLost(c)
  BY <1>5 DEF RelayAnswerLost
<1>6. CASE RelayFails(c)
  BY <1>6 DEF RelayFails, vars
<1> QED
  BY <1>1, <1>2, <1>3, <1>4, <1>5, <1>6 DEF Relay

\* A relay's poll is a poll: it disturbs nothing the registry relies on.
LEMMA RelayControlStep ==
  ASSUME ControlInv, NEW c \in Conns, Relay(c)
  PROVE  ControlInv'
<1> USE DEF ControlInv, ConnectionTypeOK, HandlerTypeOK, SweepTypeOK, NoOrphanSocket,
        DeadConnectionIsMarked, SweepMutex, SweepOwnsRegistry
<1>1. CASE UNCHANGED vars
  BY <1>1 DEF vars, sweepVars
<1>2. CASE /\ Drain(c, SseMax)
           /\ UNCHANGED <<registry, closed, socket, reader, pinger, sweepVars, rpc, panicked>>
  BY <1>2 DEF Drain, Touch, sweepVars
<1> QED
  BY <1>1, <1>2
     DEF Relay, RelayOpen, RelayAsk, RelayDrain, RelayFails, RelayAnswerLost, RelayLost

\* A browser that the executor's answer tells of a close is told no lie, for any
\* number of connections, handlers and event streams, cut off and opened again
\* any number of times: the connection was marked closed or is not registered
\* any more (handlers/websocket.ts, pollingSse).  What a browser is told when a
\* call to the executor fails is not claimed to be true.
THEOREM ClosesAreTrue == EventsSpec => []CloseIsTrue
<1>1. EventsInit => ControlInv /\ EventsInv
  <2>1. EventsInit => ControlInv
    BY InvInit DEF EventsInit
  <2>2. EventsInit => EventsInv
    BY RegistryAssumption
       DEF EventsInit, Init, EventsInv, RelayTypeOK, OnceRegistered, CloseIsTrue,
           Pending, Idle
  <2> QED
    BY <2>1, <2>2
<1>2. ControlInv /\ EventsInv /\ [EventsNext]_all => ControlInv' /\ EventsInv'
  <2> SUFFICES ASSUME ControlInv, EventsInv, [EventsNext]_all
               PROVE  ControlInv' /\ EventsInv'
    OBVIOUS
  <2>1. CASE Next /\ UNCHANGED relay
    <3>1. ControlInv'
      BY <2>1, ControlStep
    <3>2. EventsInv'
      BY <2>1, EventsRegistryStep DEF ControlInv
    <3> QED
      BY <3>1, <3>2
  <2>2. CASE \E c \in Conns : Relay(c)
    BY <2>2, RelayStep, RelayControlStep DEF ControlInv
  <2>3. CASE UNCHANGED all
    <3>1. UNCHANGED vars /\ UNCHANGED relay
      BY <2>3 DEF all
    <3>2. ControlInv'
      BY <3>1, ControlStep
    <3>3. EventsInv'
      BY <3>1 DEF EventsInv, RelayTypeOK, OnceRegistered, CloseIsTrue, Pending, vars
    <3> QED
      BY <3>2, <3>3
  <2> QED
    BY <2>1, <2>2, <2>3 DEF EventsNext
<1>3. EventsInv => CloseIsTrue
  BY DEF EventsInv
<1> QED
  BY <1>1, <1>2, <1>3, PTL DEF EventsSpec
=============================================================================
