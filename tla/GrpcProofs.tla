------------------------------ MODULE GrpcProofs ------------------------------
(***************************************************************************)
(* Proofs about gRPC: the managed streams of the executor, for any number  *)
(* of streams and concurrent handlers and whatever the peers send; one     *)
(* call of the executor, for any target, files and imports; and the calls  *)
(* of the page, for any number of calls and closes.                        *)
(***************************************************************************)
EXTENDS MCGrpc, FiniteSetTheorems, TLAPS

(***************************************************************************)
(* The inductive invariant.  To the properties it adds what they rest on:  *)
(* a stream that was not dialed is untouched, a registered one is open,    *)
(* the ticker looks at registered streams only, and a reader starts after  *)
(* its stream was opened.                                                  *)
(***************************************************************************)
Held(t) == rpc[t].pc \in Opening \union Closing

Untouched ==
  \A s \in Streams :
    conn[s] = "none" =>
      s \notin registry /\ reader[s] = "none" /\ \A t \in Rpcs : rpc[t].stream # s
RegisteredIsOpen == \A s \in registry : conn[s] = "open"
ReaderStartsLate ==
  \A t \in Rpcs : rpc[t].pc = "dialed" => reader[rpc[t].stream] = "none"
SweepInv ==
  /\ todo \union doomed \subseteq registry
  /\ todo \intersect doomed = {}
  /\ mu = "free" => todo = {} /\ doomed = {}

Inv == /\ TypeOK /\ NoLeakedConn /\ OneOwner /\ NothingLost
       /\ Untouched /\ RegisteredIsOpen /\ ReaderStartsLate /\ SweepInv

ControlInv == /\ NoLeakedConn /\ OneOwner /\ Untouched /\ RegisteredIsOpen
              /\ ReaderStartsLate /\ SweepInv

(***************************************************************************)
(* The buffer.                                                             *)
(***************************************************************************)

\* A poll never takes more than there is.
LEMMA PollCountFacts ==
  ASSUME TypeOK, NEW s \in Streams, NEW n \in PollSizes
  PROVE  PollCount(s, n) \in 0..Len(messages[s])
<1>1. PollLimit(n) \in Nat
  BY StreamsAssumption DEF PollLimit
<1>2. Len(messages[s]) \in Nat
  BY DEF TypeOK
<1> QED  BY <1>1, <1>2 DEF PollCount

\* Dropping k messages at the front of a buffer.
LEMMA DropFacts ==
  ASSUME NEW q \in Seq(Message), NEW k \in 0..Len(q)
  PROVE  /\ SubSeq(q, k + 1, Len(q)) \in Seq(Message)
         /\ Len(SubSeq(q, k + 1, Len(q))) = Len(q) - k
         /\ \A i \in 1..(Len(q) - k) : SubSeq(q, k + 1, Len(q))[i] = q[i + k]
<1>1. Len(q) \in Nat /\ k \in Nat /\ k <= Len(q)
  OBVIOUS
<1>2. SubSeq(q, k + 1, Len(q)) = [i \in 1..(Len(q) - k) |-> q[i + k]]
  BY <1>1
<1>3. \A i \in 1..(Len(q) - k) : i + k \in 1..Len(q)
  BY <1>1
<1>4. \A i \in 1..(Len(q) - k) : q[i + k] \in Message
  BY <1>1, <1>3
<1> QED  BY <1>1, <1>2, <1>4

\* Appending one message to a buffer.
LEMMA AppendFacts ==
  ASSUME NEW q \in Seq(Message), NEW x \in Message
  PROVE  /\ Append(q, x) \in Seq(Message)
         /\ Len(Append(q, x)) = Len(q) + 1
         /\ \A i \in 1..Len(q) : Append(q, x)[i] = q[i]
         /\ Append(q, x)[Len(q) + 1] = x
  OBVIOUS

\* The buffer part of NothingLost for one stream.
Lossless(s) ==
  /\ received[s] = handed[s] + Len(messages[s])
  /\ \A i \in 1..Len(messages[s]) :
       /\ messages[s][i].seq = handed[s] + i
       /\ messages[s][i].done <=> (done[s] /\ i = Len(messages[s]))
  /\ done[s] <=> reader[s] = "done"

\* A reader that logs a message, its last or not, loses nothing.
LEMMA LogStep ==
  ASSUME TypeOK, NothingLost, NEW s \in Streams, NEW last \in BOOLEAN,
         reader[s] # "done", Log(s, last), handed' = handed,
         done' = [done EXCEPT ![s] = last],
         DOMAIN reader' = Streams,
         reader'[s] = "done" <=> last,
         \A r \in Streams : r # s => reader'[r] = reader[r]
  PROVE  /\ NothingLost'
         /\ messages' \in [Streams -> Seq(Message)]
         /\ received' \in [Streams -> Nat]
<1> DEFINE q == messages[s]
           x == [seq |-> received[s] + 1, done |-> last]
<1>1. q \in Seq(Message) /\ received[s] \in Nat /\ handed[s] \in Nat /\ x \in Message
  BY DEF TypeOK, Message
<1>2. /\ messages' = [messages EXCEPT ![s] = Append(q, x)]
      /\ received' = [received EXCEPT ![s] = received[s] + 1]
  BY DEF Log
<1>3. ~done[s] /\ Lossless(s)
  BY DEF NothingLost, Lossless
<1> HIDE DEF q, x
<1>4. /\ Append(q, x) \in Seq(Message)
      /\ Len(Append(q, x)) = Len(q) + 1
      /\ \A i \in 1..Len(q) : Append(q, x)[i] = q[i]
      /\ Append(q, x)[Len(q) + 1] = x
  BY <1>1, AppendFacts
<1>5. /\ messages'[s] = Append(q, x) /\ received'[s] = received[s] + 1
      /\ done'[s] = last /\ Len(q) \in Nat
      /\ \A r \in Streams : r # s =>
           messages'[r] = messages[r] /\ received'[r] = received[r] /\ done'[r] = done[r]
  BY <1>1, <1>2 DEF TypeOK
<1>6. /\ messages' \in [Streams -> Seq(Message)]
      /\ received' \in [Streams -> Nat]
  BY <1>1, <1>2, <1>4 DEF TypeOK
<1>7. Lossless(s)'
  <2>1. received'[s] = handed'[s] + Len(messages'[s])
    <3>1. received[s] = handed[s] + Len(q) /\ handed'[s] = handed[s]
      BY <1>3 DEF Lossless, q
    <3>2. received'[s] = received[s] + 1 /\ Len(messages'[s]) = Len(q) + 1
      BY <1>4, <1>5
    <3> QED  BY <1>1, <1>5, <3>1, <3>2
  <2>2. ASSUME NEW i \in 1..Len(messages'[s])
        PROVE  /\ messages'[s][i].seq = handed'[s] + i
               /\ messages'[s][i].done <=> (done'[s] /\ i = Len(messages'[s]))
    <3>1. CASE i = Len(q) + 1
      <4>1. messages'[s][i] = x /\ i = Len(messages'[s])
        BY <1>4, <1>5, <3>1
      <4>2. x.seq = received[s] + 1 /\ x.done = last
        BY DEF x
      <4>3. received[s] = handed[s] + Len(q) /\ handed'[s] = handed[s]
        BY <1>3 DEF Lossless, q
      <4>4. messages'[s][i].seq = handed'[s] + i
        BY <1>1, <1>5, <3>1, <4>1, <4>2, <4>3
      <4>5. messages'[s][i].done <=> (done'[s] /\ i = Len(messages'[s]))
        BY <1>5, <4>1, <4>2, Zenon
      <4> QED  BY <4>4, <4>5
    <3>2. CASE i \in 1..Len(q)
      <4>1. messages'[s][i] = q[i] /\ i # Len(messages'[s])
        BY <1>4, <1>5, <3>2
      <4>2. q[i].seq = handed[s] + i /\ ~q[i].done
        BY <1>3, <3>2 DEF Lossless, q
      <4> QED  BY <4>1, <4>2
    <3> QED  BY <1>4, <1>5, <2>2, <3>1, <3>2
  <2>3. done'[s] <=> reader'[s] = "done"
    BY <1>5
  <2> QED  BY <2>1, <2>2, <2>3 DEF Lossless
<1>8. ASSUME NEW r \in Streams, r # s PROVE Lossless(r)'
  <2>1. Lossless(r)
    BY DEF NothingLost, Lossless
  <2> QED  BY <1>5, <1>8, <2>1 DEF Lossless
<1>9. NothingLost'
  BY <1>7, <1>8 DEF NothingLost, Lossless
<1> QED  BY <1>6, <1>9

\* A poll returns the oldest messages and drops no others.
LEMMA PollStep ==
  ASSUME TypeOK, NothingLost, NEW t \in Rpcs, NEW n \in PollSizes, PollDrain(t, n)
  PROVE  /\ NothingLost'
         /\ messages' \in [Streams -> Seq(Message)]
         /\ handed' \in [Streams -> Nat]
<1> DEFINE s == rpc[t].stream
           q == messages[s]
           k == PollCount(s, n)
           rest == SubSeq(q, k + 1, Len(q))
<1>1. s \in Streams
  BY DEF TypeOK, PollDrain
<1>2. q \in Seq(Message) /\ handed[s] \in Nat /\ k \in 0..Len(q)
  BY <1>1, PollCountFacts DEF TypeOK
<1>3. /\ messages' = [messages EXCEPT ![s] = rest]
      /\ handed' = [handed EXCEPT ![s] = handed[s] + k]
      /\ received' = received /\ done' = done /\ reader' = reader
  BY DEF PollDrain
<1>4. Lossless(s)
  BY <1>1 DEF NothingLost, Lossless
<1> HIDE DEF s, k
<1>5. /\ rest \in Seq(Message) /\ Len(rest) = Len(q) - k
      /\ \A i \in 1..(Len(q) - k) : rest[i] = q[i + k]
  BY <1>2, DropFacts
<1> HIDE DEF q, rest
<1>6. Len(q) \in Nat /\ k \in Nat /\ k <= Len(q)
  BY <1>2
<1>7. /\ messages'[s] = rest /\ handed'[s] = handed[s] + k
      /\ \A r \in Streams : r # s => messages'[r] = messages[r] /\ handed'[r] = handed[r]
  BY <1>1, <1>3 DEF TypeOK
<1>8. /\ messages' \in [Streams -> Seq(Message)]
      /\ handed' \in [Streams -> Nat]
  BY <1>1, <1>2, <1>3, <1>5, <1>6 DEF TypeOK
<1>9. /\ received'[s] = handed'[s] + Len(messages'[s])
      /\ \A i \in 1..Len(messages'[s]) :
           /\ messages'[s][i].seq = handed'[s] + i
           /\ messages'[s][i].done <=> (done'[s] /\ i = Len(messages'[s]))
      /\ done'[s] <=> reader'[s] = "done"
  <2>1. /\ received[s] = handed[s] + Len(q)
        /\ \A i \in 1..Len(q) : q[i].seq = handed[s] + i
        /\ \A i \in 1..Len(q) : q[i].done <=> (done[s] /\ i = Len(q))
        /\ done[s] <=> reader[s] = "done"
    BY <1>4 DEF Lossless, q
  <2>2. received'[s] = handed'[s] + Len(messages'[s])
    <3>1. /\ Len(messages'[s]) = Len(q) - k /\ handed'[s] = handed[s] + k
          /\ received'[s] = handed[s] + Len(q)
      BY <1>3, <1>5, <1>7, <2>1
    <3> QED  BY <1>2, <1>6, <3>1
  <2>3. ASSUME NEW i \in 1..Len(messages'[s])
        PROVE  /\ messages'[s][i].seq = handed'[s] + i
               /\ messages'[s][i].done <=> (done'[s] /\ i = Len(messages'[s]))
    <3>1. /\ i \in 1..(Len(q) - k) /\ i + k \in 1..Len(q)
          /\ i = Len(messages'[s]) <=> i + k = Len(q)
      <4>1. Len(messages'[s]) = Len(q) - k
        BY <1>5, <1>7
      <4> QED  BY <1>6, <4>1
    <3>2. messages'[s][i] = q[i + k]
      BY <1>5, <1>7, <3>1
    <3>3. q[i + k].seq = handed[s] + (i + k)
      BY <2>1, <3>1
    <3>4. handed'[s] + i = handed[s] + (i + k)
      BY <1>2, <1>6, <1>7, <3>1
    <3>5. q[i + k].done <=> (done[s] /\ i + k = Len(q))
      BY <2>1, <3>1, Zenon
    <3>6. messages'[s][i].done <=> (done'[s] /\ i = Len(messages'[s]))
      BY <1>3, <3>1, <3>2, <3>5, Zenon
    <3> QED  BY <3>2, <3>3, <3>4, <3>6
  <2> QED  BY <1>3, <2>1, <2>2, <2>3
<1>10. ASSUME NEW r \in Streams, r # s PROVE Lossless(r)'
  <2>1. Lossless(r)
    BY DEF NothingLost, Lossless
  <2> QED  BY <1>3, <1>7, <1>10, <2>1 DEF Lossless
<1>11. NothingLost'
  <2>1. ASSUME NEW r \in Streams PROVE Lossless(r)'
    <3>1. CASE r = s
      BY <1>9, <3>1 DEF Lossless
    <3> QED  BY <1>10, <3>1
  <2> QED  BY <2>1 DEF NothingLost, Lossless
<1> QED  BY <1>8, <1>11

\* A step that leaves the buffers and the ends of the readers alone.
LEMMA QuietStep ==
  ASSUME NothingLost, UNCHANGED bufferVars,
         \A s \in Streams : reader'[s] = "done" <=> reader[s] = "done"
  PROVE  NothingLost'
  BY DEF NothingLost, bufferVars

(***************************************************************************)
(* The control: which handler, and which map, holds which stream.          *)
(***************************************************************************)

\* A step of a handler that neither takes a stream nor lets go of one.
LEMMA SameHolders ==
  ASSUME TypeOK, ControlInv, NEW t \in Rpcs,
         UNCHANGED <<registry, conn, reader, sweepVars>>,
         \A u \in Rpcs : u # t => rpc'[u] = rpc[u],
         Held(t)' <=> Held(t), rpc'[t].pc # "dialed",
         rpc'[t].stream # rpc[t].stream => rpc'[t].stream = NoStream /\ ~Held(t)
  PROVE  ControlInv'
<1>1. registry' = registry /\ conn' = conn /\ reader' = reader
  OBVIOUS
<1>2. ASSUME NEW u \in Rpcs
      PROVE  /\ Held(u)' <=> Held(u)
             /\ Held(u) => rpc'[u].stream = rpc[u].stream
             /\ rpc'[u].stream # rpc[u].stream => rpc'[u].stream = NoStream
             /\ rpc'[u].pc = "dialed" => rpc'[u] = rpc[u]
  <2>1. CASE u = t
    BY <2>1
  <2>2. CASE u # t
    BY <2>2 DEF Held
  <2> QED  BY <2>1, <2>2
<1>3. NoLeakedConn'
  BY <1>1, <1>2 DEF ControlInv, NoLeakedConn, Held
<1>4. OneOwner'
  BY <1>1, <1>2 DEF ControlInv, OneOwner, Held
<1>5. Untouched'
  BY <1>1, <1>2, StreamsAssumption DEF ControlInv, Untouched
<1>6. RegisteredIsOpen'
  BY <1>1 DEF ControlInv, RegisteredIsOpen
<1>7. ReaderStartsLate'
  BY <1>1, <1>2 DEF ControlInv, ReaderStartsLate
<1>8. SweepInv'
  BY <1>1 DEF ControlInv, SweepInv, sweepVars
<1> QED  BY <1>3, <1>4, <1>5, <1>6, <1>7, <1>8 DEF ControlInv

\* Opening a stream: it is dialed by one handler, which gives it up, or hands
\* it to the registry.
LEMMA OpenKeeps ==
  ASSUME Inv, NEW t \in Rpcs,
         \/ \E s \in Streams, k \in Kinds : OpenDial(t, s, k)
         \/ OpenFail(t) \/ OpenStream(t) \/ OpenRegister(t)
  PROVE  ControlInv'
<1>1. TypeOK /\ ControlInv
  BY DEF Inv, ControlInv
<1> USE <1>1, StreamsAssumption
    DEF ControlInv, TypeOK, NoLeakedConn, OneOwner, Untouched, RegisteredIsOpen,
        ReaderStartsLate, SweepInv, sweepVars, Opening, Closing, HandlerPcs, Idle
<1>2. CASE \E s \in Streams, k \in Kinds : OpenDial(t, s, k)
  BY <1>2 DEF OpenDial, At
<1>3. CASE OpenFail(t)
  BY <1>3 DEF OpenFail, Cancel, Return
<1>4. CASE OpenStream(t)
  BY <1>4 DEF OpenStream, Goto
<1>5. CASE OpenRegister(t)
  BY <1>5 DEF OpenRegister, Return
<1> QED  BY <1>2, <1>3, <1>4, <1>5

\* A lookup under grpcStreamMu, by which a close takes the stream over.
LEMMA LookupKeeps ==
  ASSUME Inv, NEW t \in Rpcs, NEW s \in Streams,
         SendLookup(t, s) \/ PollLookup(t, s) \/ CloseRemove(t, s)
  PROVE  ControlInv'
<1>1. TypeOK /\ ControlInv
  BY DEF Inv, ControlInv
<1> USE <1>1, StreamsAssumption
    DEF ControlInv, TypeOK, NoLeakedConn, OneOwner, Untouched, RegisteredIsOpen,
        ReaderStartsLate, SweepInv, sweepVars, Opening, Closing, HandlerPcs,
        Idle, At, Lookup
<1>2. CASE SendLookup(t, s)
  BY <1>2 DEF SendLookup
<1>3. CASE PollLookup(t, s)
  BY <1>3 DEF PollLookup
<1>4. CASE CloseRemove(t, s)
  BY <1>4 DEF CloseRemove
<1> QED  BY <1>2, <1>3, <1>4

\* The later steps of send, poll and close.
LEMMA UseKeeps ==
  ASSUME Inv, NEW t \in Rpcs,
         \/ SendTouch(t) \/ SendMsg(t) \/ \E n \in PollSizes : PollDrain(t, n)
         \/ CloseSend(t) \/ CloseReceive(t) \/ CloseCancel(t)
  PROVE  ControlInv'
<1>1. TypeOK /\ ControlInv
  BY DEF Inv, ControlInv
<1> USE <1>1 DEF Held, Opening, Closing, Idle
<1>2. CASE SendTouch(t)
  <2>1. /\ rpc'[t].pc = "sending" /\ rpc'[t].stream = rpc[t].stream
        /\ \A u \in Rpcs : u # t => rpc'[u] = rpc[u]
        /\ ~Held(t) /\ UNCHANGED <<registry, conn, reader, sweepVars>>
    BY <1>2 DEF SendTouch, Goto, TypeOK
  <2> QED  BY <2>1, SameHolders
<1>3. CASE SendMsg(t)
  <2>1. /\ rpc'[t] = Idle /\ \A u \in Rpcs : u # t => rpc'[u] = rpc[u]
        /\ ~Held(t) /\ UNCHANGED <<registry, conn, reader, sweepVars>>
    BY <1>3 DEF SendMsg, Return, TypeOK
  <2> QED  BY <2>1, SameHolders
<1>4. CASE \E n \in PollSizes : PollDrain(t, n)
  <2>1. /\ rpc'[t] = Idle /\ \A u \in Rpcs : u # t => rpc'[u] = rpc[u]
        /\ ~Held(t) /\ UNCHANGED <<registry, conn, reader, sweepVars>>
    BY <1>4 DEF PollDrain, Return, TypeOK
  <2> QED  BY <2>1, SameHolders
<1>5. CASE CloseSend(t)
  <2>1. /\ rpc'[t].pc \in {"awaiting", "answered"} /\ rpc'[t].stream = rpc[t].stream
        /\ \A u \in Rpcs : u # t => rpc'[u] = rpc[u]
        /\ Held(t) /\ UNCHANGED <<registry, conn, reader, sweepVars>>
    BY <1>5 DEF CloseSend, Goto, TypeOK
  <2> QED  BY <2>1, SameHolders
<1>6. CASE CloseReceive(t)
  <2>1. /\ rpc'[t].pc = "answered" /\ rpc'[t].stream = rpc[t].stream
        /\ \A u \in Rpcs : u # t => rpc'[u] = rpc[u]
        /\ Held(t) /\ UNCHANGED <<registry, conn, reader, sweepVars>>
    BY <1>6 DEF CloseReceive, Goto, TypeOK
  <2> QED  BY <2>1, SameHolders
<1>7. CASE CloseCancel(t)
  BY <1>7, StreamsAssumption
     DEF CloseCancel, Cancel, Return, ControlInv, TypeOK, NoLeakedConn, OneOwner,
         Untouched, RegisteredIsOpen, ReaderStartsLate, SweepInv, sweepVars, HandlerPcs
<1> QED  BY <1>2, <1>3, <1>4, <1>5, <1>6, <1>7

\* Readers, the ticker and the clock.
LEMMA BackgroundKeeps ==
  ASSUME Inv, Sweep \/ \E s \in Streams : Reader(s) \/ TimePasses(s)
  PROVE  ControlInv'
<1>1. TypeOK /\ ControlInv
  BY DEF Inv, ControlInv
<1> USE <1>1, StreamsAssumption
    DEF ControlInv, TypeOK, NoLeakedConn, OneOwner, Untouched, RegisteredIsOpen,
        ReaderStartsLate, SweepInv, sweepVars
<1>2. ASSUME NEW s \in Streams, Reader(s) PROVE ControlInv'
  <2>1. CASE ReaderReceive(s)
    BY <2>1 DEF ReaderReceive
  <2>2. CASE ReaderBuffer(s)
    BY <2>2 DEF ReaderBuffer
  <2>3. CASE ReaderEnd(s)
    BY <2>3 DEF ReaderEnd
  <2> QED  BY <1>2, <2>1, <2>2, <2>3 DEF Reader
<1>3. ASSUME NEW s \in Streams, TimePasses(s) PROVE ControlInv'
  BY <1>3 DEF TimePasses
<1>4. CASE TickerLock \/ TickerUnlock
  BY <1>4 DEF TickerLock, TickerUnlock
<1>5. ASSUME NEW s \in Streams, SweepJudge(s) PROVE ControlInv'
  BY <1>5 DEF SweepJudge
<1>6. ASSUME NEW s \in Streams, SweepClose(s) PROVE ControlInv'
  BY <1>6 DEF SweepClose, Cancel, Opening, Closing
<1> QED  BY <1>2, <1>3, <1>4, <1>5, <1>6 DEF Sweep

LEMMA ControlStep ==
  ASSUME Inv, Next
  PROVE  ControlInv'
<1>1. ASSUME NEW t \in Rpcs, Handler(t) PROVE ControlInv'
  BY <1>1, OpenKeeps, LookupKeeps, UseKeeps DEF Handler
<1> QED  BY <1>1, BackgroundKeeps DEF Next

(***************************************************************************)
(* Types and the buffer, action by action.                                 *)
(***************************************************************************)

BufferOK ==
  /\ NothingLost
  /\ messages \in [Streams -> Seq(Message)]
  /\ received \in [Streams -> Nat]
  /\ handed \in [Streams -> Nat]

LEMMA BufferStep ==
  ASSUME Inv, Next
  PROVE  BufferOK'
<1> USE DEF Inv
<1>1. ASSUME UNCHANGED <<messages, done, received, handed>>,
             \A s \in Streams : reader'[s] = "done" <=> reader[s] = "done"
      PROVE  BufferOK'
  BY <1>1, QuietStep DEF BufferOK, bufferVars, TypeOK
<1>2. ASSUME NEW t \in Rpcs, NEW n \in PollSizes, PollDrain(t, n)
      PROVE  BufferOK'
  <2>1. received' = received
    BY <1>2 DEF PollDrain
  <2> QED  BY <1>2, <2>1, PollStep DEF BufferOK, TypeOK
<1>3. ASSUME NEW s \in Streams, ReaderBuffer(s)
      PROVE  BufferOK'
  <2>1. /\ reader[s] # "done" /\ Log(s, FALSE) /\ handed' = handed
        /\ reader' = [reader EXCEPT ![s] = "reading"] /\ done' = done
    BY <1>3 DEF ReaderBuffer
  <2>2. done' = [done EXCEPT ![s] = FALSE]
    <3>1. done[s] = FALSE
      BY <2>1 DEF NothingLost, TypeOK
    <3> QED  BY <2>1, <3>1 DEF TypeOK
  <2>3. /\ DOMAIN reader' = Streams /\ reader'[s] # "done"
        /\ \A r \in Streams : r # s => reader'[r] = reader[r]
    BY <2>1 DEF TypeOK
  <2> QED  BY <2>1, <2>2, <2>3, LogStep DEF BufferOK, TypeOK
<1>4. ASSUME NEW s \in Streams, ReaderEnd(s)
      PROVE  BufferOK'
  <2>1. /\ reader[s] # "done" /\ Log(s, TRUE) /\ handed' = handed
        /\ reader' = [reader EXCEPT ![s] = "done"]
        /\ done' = [done EXCEPT ![s] = TRUE]
    BY <1>4 DEF ReaderEnd
  <2>2. /\ DOMAIN reader' = Streams /\ reader'[s] = "done"
        /\ \A r \in Streams : r # s => reader'[r] = reader[r]
    BY <2>1 DEF TypeOK
  <2> DEFINE last == TRUE
  <2>3. /\ Log(s, last) /\ done' = [done EXCEPT ![s] = last] /\ last \in BOOLEAN
        /\ reader'[s] = "done" <=> last
    BY <2>1, <2>2
  <2>4. TypeOK /\ NothingLost
    OBVIOUS
  <2> HIDE DEF last, Inv
  <2>5. /\ NothingLost' /\ messages' \in [Streams -> Seq(Message)] /\ received' \in [Streams -> Nat]
    BY <2>1, <2>2, <2>3, <2>4, LogStep
  <2>6. handed' \in [Streams -> Nat]
    BY <2>1, <2>4 DEF TypeOK
  <2> QED  BY <2>5, <2>6 DEF BufferOK
<1>5. ASSUME NEW s \in Streams, ReaderReceive(s)
      PROVE  /\ UNCHANGED <<messages, done, received, handed>>
             /\ \A r \in Streams : reader'[r] = "done" <=> reader[r] = "done"
  BY <1>5 DEF ReaderReceive, bufferVars, TypeOK
<1>6. ASSUME NEW t \in Rpcs, OpenStream(t)
      PROVE  /\ UNCHANGED <<messages, done, received, handed>>
             /\ \A r \in Streams : reader'[r] = "done" <=> reader[r] = "done"
  <2>1. rpc[t].stream \in Streams /\ reader[rpc[t].stream] = "none"
    BY <1>6 DEF OpenStream, ReaderStartsLate, TypeOK
  <2> QED  BY <1>6, <2>1 DEF OpenStream, bufferVars, TypeOK
<1>7. ASSUME NEW t \in Rpcs, Handler(t), ~OpenStream(t),
             \A n \in PollSizes : ~PollDrain(t, n)
      PROVE  UNCHANGED <<messages, done, received, handed, reader>>
  BY <1>7 DEF Handler, OpenDial, OpenFail, OpenRegister, SendLookup, PollLookup,
              CloseRemove, Lookup, SendTouch, SendMsg, CloseSend, CloseReceive,
              CloseCancel, bufferVars
<1>8. ASSUME Sweep \/ \E s \in Streams : TimePasses(s)
      PROVE  UNCHANGED <<messages, done, received, handed, reader>>
  BY <1>8 DEF Sweep, TickerLock, TickerUnlock, SweepJudge, SweepClose, TimePasses,
              bufferVars
<1> QED  BY <1>1, <1>2, <1>3, <1>4, <1>5, <1>6, <1>7, <1>8 DEF Next, Reader

\* The other variables keep their types.
ControlTypeOK ==
  /\ registry \subseteq Streams
  /\ kind \in [Streams -> Kinds]
  /\ conn \in [Streams -> {"none", "open", "closed"}]
  /\ done \in [Streams -> BOOLEAN]
  /\ expired \in [Streams -> BOOLEAN]
  /\ reader \in [Streams -> {"none", "reading", "holding", "done"}]
  /\ mu \in {"free", "ticker"}
  /\ todo \subseteq Streams /\ doomed \subseteq Streams
  /\ rpc \in [Rpcs -> [pc : HandlerPcs, stream : Streams \union {NoStream}]]
  /\ \A t \in Rpcs : rpc[t].pc = "idle" <=> rpc[t].stream = NoStream

LEMMA TypeStep ==
  ASSUME TypeOK, Next
  PROVE  ControlTypeOK'
<1>1. ControlTypeOK
  BY DEF TypeOK, ControlTypeOK
<1> USE <1>1, StreamsAssumption
    DEF ControlTypeOK, bufferVars, sweepVars, HandlerPcs, Opening, Closing, Idle
<1>2. ASSUME NEW t \in Rpcs, NEW s \in Streams, NEW k \in Kinds, OpenDial(t, s, k)
      PROVE  ControlTypeOK'
  BY <1>2 DEF OpenDial, At
<1>3. ASSUME NEW t \in Rpcs, NEW s \in Streams,
             SendLookup(t, s) \/ PollLookup(t, s) \/ CloseRemove(t, s)
      PROVE  ControlTypeOK'
  BY <1>3 DEF SendLookup, PollLookup, CloseRemove, Lookup, At
<1>4. ASSUME NEW t \in Rpcs, OpenFail(t) \/ CloseCancel(t) PROVE ControlTypeOK'
  BY <1>4 DEF OpenFail, CloseCancel, Cancel, Return
<1>5. ASSUME NEW t \in Rpcs, OpenStream(t) PROVE ControlTypeOK'
  BY <1>5 DEF OpenStream, Goto
<1>6. ASSUME NEW t \in Rpcs, OpenRegister(t) PROVE ControlTypeOK'
  BY <1>6 DEF OpenRegister, Return
<1>7. ASSUME NEW t \in Rpcs, SendTouch(t) PROVE ControlTypeOK'
  BY <1>7 DEF SendTouch, Touch, Goto
<1>8. ASSUME NEW t \in Rpcs, SendMsg(t) PROVE ControlTypeOK'
  BY <1>8 DEF SendMsg, Return
<1>9. ASSUME NEW t \in Rpcs, NEW n \in PollSizes, PollDrain(t, n)
      PROVE  ControlTypeOK'
  BY <1>9 DEF PollDrain, Touch, Return
<1>10. ASSUME NEW t \in Rpcs, CloseSend(t) \/ CloseReceive(t) PROVE ControlTypeOK'
  BY <1>10 DEF CloseSend, CloseReceive, Goto
<1>11. ASSUME NEW s \in Streams, Reader(s) PROVE ControlTypeOK'
  BY <1>11 DEF Reader, ReaderReceive, ReaderBuffer, ReaderEnd
<1>12. CASE Sweep
  BY <1>12 DEF Sweep, TickerLock, TickerUnlock, SweepJudge, SweepClose, Cancel
<1>13. ASSUME NEW s \in Streams, TimePasses(s) PROVE ControlTypeOK'
  BY <1>13 DEF TimePasses
<1> QED
  BY <1>2, <1>3, <1>4, <1>5, <1>6, <1>7, <1>8, <1>9, <1>10, <1>11, <1>12, <1>13
     DEF Next, Handler

(***************************************************************************)
(* The theorems.                                                           *)
(***************************************************************************)

LEMMA InvInit ==
  ASSUME Init
  PROVE  Inv
<1>1. TypeOK
  BY StreamsAssumption DEF Init, TypeOK, Idle, HandlerPcs, Kinds
<1>2. NoLeakedConn /\ OneOwner /\ Untouched /\ RegisteredIsOpen /\ ReaderStartsLate
  BY StreamsAssumption
     DEF Init, NoLeakedConn, OneOwner, Untouched, RegisteredIsOpen, ReaderStartsLate,
         Idle, Opening, Closing
<1>3. NothingLost /\ SweepInv
  BY DEF Init, NothingLost, SweepInv
<1> QED  BY <1>1, <1>2, <1>3 DEF Inv

LEMMA InvStep ==
  ASSUME Inv, [Next]_vars
  PROVE  Inv'
<1>1. CASE Next
  <2>1. TypeOK'
    BY <1>1, TypeStep, BufferStep DEF Inv, TypeOK, ControlTypeOK, BufferOK
  <2> QED  BY <1>1, <2>1, ControlStep, BufferStep DEF Inv, ControlInv, BufferOK
<1>2. CASE UNCHANGED vars
  BY <1>2
     DEF vars, bufferVars, sweepVars, Inv, TypeOK, NoLeakedConn, OneOwner, NothingLost,
         Untouched, RegisteredIsOpen, ReaderStartsLate, SweepInv
<1> QED  BY <1>1, <1>2

LEMMA Invariance == Spec => []Inv
  BY InvInit, InvStep, PTL DEF Spec

\* Every variable of the stream service keeps its type.
THEOREM TypeCorrect == Spec => []TypeOK
<1>1. Inv => TypeOK
  BY DEF Inv
<1> QED  BY <1>1, Invariance, PTL

\* No path through GrpcStreamOpen, GrpcStreamClose and the cleanup ticker
\* leaks a connection.
THEOREM ConnsOwned == Spec => []NoLeakedConn
<1>1. Inv => NoLeakedConn
  BY DEF Inv
<1> QED  BY <1>1, Invariance, PTL

\* Taking a stream out of the maps under grpcStreamMu makes GrpcStreamClose
\* its only owner: no second close and no sweep cancels the same call.
THEOREM StreamOwned == Spec => []OneOwner
<1>1. Inv => OneOwner
  BY DEF Inv
<1> QED  BY <1>1, Invariance, PTL

\* Polls and the reader, in any interleaving, neither lose nor reorder a
\* message, and the end of a stream is its last message.
THEOREM BufferLossless == Spec => []NothingLost
<1>1. Inv => NothingLost
  BY DEF Inv
<1> QED  BY <1>1, Invariance, PTL

(***************************************************************************)
(* One call of the executor.  The target does not change while it is asked,*)
(* and what a file needs is the smallest set with it that is closed under  *)
(* imports.                                                                *)
(***************************************************************************)
\* The target stays, and with it what its files need.
LEMMA SameTarget ==
  ASSUME UNCHANGED target
  PROVE  /\ \A f : Needs(f)' = Needs(f)
         /\ \A s : Complete(s)' <=> Complete(s)
         /\ Reflects' <=> Reflects
<1>1. target' = target
  OBVIOUS
<1>2. ASSUME NEW f PROVE Needs(f)' = Needs(f)
  BY <1>1 DEF Needs, NewFiles
<1>3. ASSUME NEW s PROVE Complete(s)' <=> Complete(s)
  <2>1. Needs(target.fileOf[s])' = Needs(target.fileOf[s])
    BY <1>1 DEF Needs, NewFiles
  <2> QED
    BY <1>1, <2>1 DEF Complete
<1> QED
  BY <1>1, <1>2, <1>3 DEF Reflects

\* What a target is.
LEMMA TargetFacts ==
  ASSUME target \in Targets
  PROVE  /\ target.imports \in [Files -> SUBSET Files] /\ target.served \subseteq Files
         /\ target.fileOf \in [Symbols \union {Health, Reflection} -> Files]
         /\ DOMAIN target.fileOf = Symbols \union {Health, Reflection}
         /\ target.listed \subseteq Symbols \union {Health, Reflection}
         /\ target.brings \in BOOLEAN /\ target.reflection \in {"v1", "v1alpha", "none"}
BY TargetsAssumption

\* What a file needs: itself, and with a file all that this one imports.
LEMMA NeedsFacts ==
  ASSUME target \in Targets, NEW f \in Files
  PROVE  /\ Needs(f) \subseteq Files /\ f \in Needs(f)
         /\ \A g \in Needs(f) : target.imports[g] \subseteq Needs(f) /\ Needs(g) \subseteq Needs(f)
<1>1. Needs(f) \subseteq Files /\ f \in Needs(f)
  BY DEF Needs
<1>2. ASSUME NEW g \in Needs(f), NEW d \in target.imports[g]
      PROVE  d \in Needs(f)
  <2>1. g \in Files /\ d \in Files
    BY <1>1, <1>2, TargetFacts
  <2> QED
    BY <1>2, <2>1 DEF Needs, NewFiles
<1>3. ASSUME NEW g \in Needs(f), NEW d \in Needs(g)
      PROVE  d \in Needs(f)
  BY <1>3 DEF Needs
<1> QED
  BY <1>1, <1>2, <1>3

(***************************************************************************)
(* What is asked, and what a call comes to.                                *)
(***************************************************************************)
Services == Symbols \union {Health}
ExecRequests ==
  [op : {"execute", "serverStream", "open"}, service : Services, method : MethodKinds,
   known : BOOLEAN, protoset : Protosets]

\* The page knows only methods that are there, and chooses the handler for them.
Fitting(r) == r \in ExecRequests /\ r.op = executeCurrentGrpcRequest(r.method, r.known)
              /\ (r.known => r.method \in MethodsOf(r.service))

Listed == target.listed \ {Reflection}
AllComplete == \A s \in Listed : Complete(s)

\* The answer is what the properties ask for.
Right(h) ==
  /\ (h.request.op = "reflect" /\ h.request.protoset = {} /\ h.error \notin Outside /\ Reflects /\ AllComplete) =>
       h.error = "" /\ h.answer = UNION {{s} \X MethodsOf(s) : s \in Listed}
  /\ (h.request.op # "reflect" /\ h.request.known /\ Reflects /\ Complete(h.request.service)) =>
       h.error \in Outside \union {"", "invalid request JSON"}
  /\ (h.request.op = "execute" /\ h.request.service = Health) =>
       h.error \in (Outside \ {"broken"}) \union {"", "no method", "use server-stream", "invalid request JSON"}

\* Reflection is asked in its version v1 first, then in v1alpha.
Asking(h) == h.version \in {"v1", "v1alpha"} /\ (h.version = "v1alpha" => target.reflection # "v1")

ReflectRequest == [op |-> "reflect", protoset |-> {}]
AllNeeded(symbols) == UNION {Needs(target.fileOf[s]) : s \in symbols}

ListRec == [pc : {"list"}, request : {ReflectRequest}, version : {"v1", "v1alpha"}]
SearchRec ==
  [pc : {"symbols"}, request : ExecRequests \union {ReflectRequest}, version : {"v1", "v1alpha"},
   symbols : SUBSET Services, todo : SUBSET Services, files : SUBSET Files, nils : SUBSET Files,
   missing : SUBSET (Files \X Files), sent : SUBSET Files]
Asked(h) ==
  \/ h.request = ReflectRequest /\ h.symbols = Listed
  \/ Fitting(h.request) /\ h.symbols = {h.request.service}
\* The files of the symbols asked for stay at hand; from a target that serves
\* what they need, nothing else comes and no entry stays nil.
Searching(h) ==
  /\ h \in SearchRec /\ Asking(h) /\ Asked(h)
  /\ h.todo \subseteq h.symbols /\ h.files \subseteq target.served
  /\ \A s \in h.symbols \ h.todo : target.fileOf[s] \in h.files
  /\ (\A s \in h.symbols : Complete(s)) =>
       /\ h.nils = {} /\ h.files \subseteq AllNeeded(h.symbols)
       /\ \A p \in h.missing : p[2] \in AllNeeded(h.symbols)

CallInv ==
  /\ target \in Targets
  /\ handler.pc \in {"idle", "list", "protoset", "begin", "symbols", "done"}
  /\ handler.pc = "list" => handler \in ListRec /\ Asking(handler)
  /\ handler.pc \in {"protoset", "begin"} => Fitting(handler.request)
  /\ handler.pc = "protoset" =>
       /\ registryFromProtosetBase64(handler.request.protoset).ok
       /\ FindDescriptorByName(registryFromProtosetBase64(handler.request.protoset), handler.request.service)
  /\ handler.pc = "symbols" => Searching(handler)
  /\ handler.pc = "done" => Right(handler)

\* What is proved of a call is what the run checks.
LEMMA CallsAreRight == CallInv => CallTypeOK /\ ReflectionIsComplete /\ ListedIsCallable /\ HealthIsKnown
<1> SUFFICES ASSUME CallInv PROVE CallTypeOK /\ ReflectionIsComplete /\ ListedIsCallable /\ HealthIsKnown
  OBVIOUS
<1>1. CallTypeOK
  BY DEF CallInv, Searching, SearchRec, CallTypeOK
<1>2. handler.pc = "done" => Right(handler)
  BY DEF CallInv
<1>3. ReflectionIsComplete
  BY <1>2 DEF Right, Listed, AllComplete, ReflectionIsComplete
<1>4. ListedIsCallable
  BY <1>2 DEF Right, ListedIsCallable
<1>5. HealthIsKnown
  BY <1>2 DEF Right, HealthIsKnown
<1> QED
  BY <1>1, <1>3, <1>4, <1>5

\* A target of the constants is asked by nobody.
LEMMA CallsInitially == CallInit => CallInv
BY DEF CallInit, CallInv, NoCall

\* A step that leaves the target alone and ends in a handler of one of these kinds.
LEMMA Stays ==
  ASSUME CallInv, UNCHANGED target
  PROVE  /\ handler'.pc = "done" /\ Right(handler') => CallInv'
         /\ handler'.pc = "symbols" /\ Searching(handler') => CallInv'
         /\ handler'.pc = "list" /\ handler' \in ListRec /\ Asking(handler') => CallInv'
         /\ (/\ handler'.pc \in {"protoset", "begin"} /\ Fitting(handler'.request)
             /\ handler'.pc = "protoset" =>
                  /\ registryFromProtosetBase64(handler'.request.protoset).ok
                  /\ FindDescriptorByName(registryFromProtosetBase64(handler'.request.protoset), handler'.request.service)) => CallInv'
<1>0. target' = target /\ target' \in Targets
  BY DEF CallInv
<1>1. ASSUME handler'.pc = "done", Right(handler') PROVE CallInv'
  <2>1. Right(handler)'
    <3>1. Listed' = Listed
      BY <1>0 DEF Listed
    <3>2. AllComplete' <=> AllComplete
      BY <3>1, SameTarget DEF AllComplete
    <3>3. Complete(handler.request.service)' <=> Complete(handler'.request.service)
      BY SameTarget
    <3> QED
      BY <1>1, <3>1, <3>2, <3>3, SameTarget DEF Right
  <2> QED
    BY <1>0, <1>1, <2>1 DEF CallInv
<1>2. ASSUME handler'.pc = "symbols", Searching(handler') PROVE CallInv'
  <2>1. Searching(handler)'
    <3>1. Listed' = Listed
      BY <1>0 DEF Listed
    <3>2. AllNeeded(handler.symbols)' = AllNeeded(handler'.symbols)
      BY <1>0, SameTarget DEF AllNeeded
    <3>3. (\A s \in handler.symbols : Complete(s))' <=> \A s \in handler'.symbols : Complete(s)
      BY SameTarget
    <3> QED
      BY <1>0, <1>2, <3>1, <3>2, <3>3 DEF Searching, Asking, Asked
  <2> QED
    BY <1>0, <1>2, <2>1 DEF CallInv
<1>3. ASSUME handler'.pc = "list", handler' \in ListRec, Asking(handler') PROVE CallInv'
  BY <1>0, <1>3 DEF CallInv, Asking
<1>4. ASSUME handler'.pc \in {"protoset", "begin"}, Fitting(handler'.request),
             handler'.pc = "protoset" =>
               /\ registryFromProtosetBase64(handler'.request.protoset).ok
               /\ FindDescriptorByName(registryFromProtosetBase64(handler'.request.protoset), handler'.request.service)
      PROVE  CallInv'
  <2>1. Fitting(handler.request)'
    BY <1>4 DEF Fitting
  <2>2. registryFromProtosetBase64(handler.request.protoset)' = registryFromProtosetBase64(handler'.request.protoset)
    BY <1>0 DEF registryFromProtosetBase64, buildFileRegistry, NewFiles
  <2>3. handler'.pc = "protoset" =>
          FindDescriptorByName(registryFromProtosetBase64(handler.request.protoset), handler.request.service)'
    BY <1>0, <1>4, <2>2 DEF FindDescriptorByName
  <2> QED
    BY <1>0, <1>4, <2>1, <2>2, <2>3 DEF CallInv
<1> QED
  BY <1>1, <1>2, <1>3, <1>4

-----------------------------------------------------------------------------
\* Invoke answers what a found method is asked for.
LEMMA Invokes ==
  ASSUME target \in Targets, Fitting(handler.request), NEW found, Invoke(found),
         \/ FindDescriptorByName(found, handler.request.service)
         \/ handler.request.service # Health /\ ~(Reflects /\ Complete(handler.request.service))
  PROVE  handler'.pc = "done" /\ Right(handler')
<1> DEFINE r == handler.request
           m == r.method
<1>0. r.op # "reflect" /\ r \in ExecRequests
  BY DEF Fitting, ExecRequests
<1>1. ASSUME NEW why, handler' = Failed(r, why),
             r.known /\ Reflects /\ Complete(r.service) => why = "invalid request JSON",
             r.op = "execute" /\ r.service = Health => why \in {"no method", "use server-stream", "invalid request JSON"}
      PROVE  handler'.pc = "done" /\ Right(handler')
  <2>1. handler'.pc = "done" /\ handler'.request = r /\ handler'.error = why
    BY <1>1 DEF Failed
  <2> QED
    BY <1>0, <1>1, <2>1 DEF Right
<1>2. r.known => m \in MethodsOf(r.service) /\ Refusal(r.op, m) = ""
  BY DEF Fitting, executeCurrentGrpcRequest, grpcMethodFlags, Refusal, clientStreaming, serverStreaming
<1>3. r.op = "execute" /\ r.service = Health /\ m \in MethodsOf(Health) => Refusal(r.op, m) \in {"", "use server-stream"}
  BY DEF MethodsOf, Refusal, clientStreaming, serverStreaming
<1>4. CASE ~FindDescriptorByName(found, r.service) /\ handler' = Failed(r, "not found")
  BY <1>1, <1>4
<1>5. CASE m \notin MethodsOf(r.service) /\ handler' = Failed(r, "no method")
  BY <1>1, <1>2, <1>5
<1>6. CASE m \in MethodsOf(r.service) /\ Refusal(r.op, m) # "" /\ handler' = Failed(r, Refusal(r.op, m))
  BY <1>1, <1>2, <1>3, <1>6
<1>7. CASE handler' = Failed(r, "invalid request JSON")
  BY <1>1, <1>7
<1>8. CASE handler' = Ok(r, {<<r.service, m>>})
  <2>1. handler'.pc = "done" /\ handler'.request = r /\ handler'.error = ""
    BY <1>8 DEF Ok
  <2> QED
    BY <1>0, <2>1 DEF Right
<1> QED
  BY <1>4, <1>5, <1>6, <1>7, <1>8 DEF Invoke

\* The end of a search.
LEMMA Resolves ==
  ASSUME target \in Targets, Searching(handler), NEW result, Resolve(result),
         \/ result.ok /\ \A s \in handler.symbols : target.fileOf[s] \in result.files
         \/ \E why : result = NoRegistry(why) /\ (why \in {"broken"} \/ ~(Reflects /\ \A s \in handler.symbols : Complete(s)))
  PROVE  handler'.pc = "done" /\ Right(handler')
<1> DEFINE r == handler.request
<1>0. Listed \subseteq DOMAIN target.fileOf /\ Services \subseteq DOMAIN target.fileOf
  BY TargetFacts DEF Listed, Services
<1>1. CASE r = ReflectRequest /\ handler.symbols = Listed
  <2>0. r.op = "reflect"
    BY <1>1 DEF ReflectRequest
  <2>1. CASE result.ok /\ \A s \in handler.symbols : target.fileOf[s] \in result.files
    <3>1. handler' = Ok(r, reflectGrpcMethods(result, handler.symbols))
      BY <2>0, <2>1 DEF Resolve
    <3>2. reflectGrpcMethods(result, handler.symbols) = UNION {{s} \X MethodsOf(s) : s \in Listed}
      <4>1. {s \in handler.symbols : FindDescriptorByName(result, s)} = Listed
        BY <1>0, <1>1, <2>1 DEF FindDescriptorByName
      <4> QED
        BY <4>1 DEF reflectGrpcMethods
    <3>3. handler'.pc = "done" /\ handler'.request = r /\ handler'.error = ""
          /\ handler'.answer = UNION {{s} \X MethodsOf(s) : s \in Listed}
      BY <3>1, <3>2 DEF Ok
    <3> QED
      BY <2>0, <3>3 DEF Right
  <2>2. ASSUME NEW why, result = NoRegistry(why), why \in {"broken"} \/ ~(Reflects /\ \A s \in handler.symbols : Complete(s))
        PROVE  handler'.pc = "done" /\ Right(handler')
    <3>1. handler' = Failed(r, why)
      BY <2>0, <2>2 DEF Resolve, NoRegistry
    <3>2. handler'.pc = "done" /\ handler'.request = r /\ handler'.error = why
      BY <3>1 DEF Failed
    <3>3. why \in Outside \/ ~(Reflects /\ AllComplete)
      BY <1>1, <2>2 DEF AllComplete, Outside
    <3> QED
      BY <2>0, <3>2, <3>3 DEF Right
  <2> QED
    BY <2>1, <2>2
<1>2. CASE Fitting(r) /\ handler.symbols = {r.service}
  <2> DEFINE found == registryForService(result, r.service)
  <2>0. r.op # "reflect" /\ r \in ExecRequests /\ r.service \in Services
    BY <1>2 DEF Fitting, ExecRequests
  <2>1. CASE found.ok /\ (FindDescriptorByName(found, r.service))
    <3>1. Invoke(found)
      BY <2>0, <2>1 DEF Resolve
    <3> QED
      BY <1>2, <2>1, <3>1, Invokes
  <2>2. CASE result.ok /\ \A s \in handler.symbols : target.fileOf[s] \in result.files
    <3>1. FindDescriptorByName(result, r.service)
      BY <1>0, <1>2, <2>0, <2>2 DEF FindDescriptorByName
    <3>2. found = result
      BY <3>1 DEF registryForService
    <3> QED
      BY <2>1, <2>2, <3>1, <3>2
  <2>3. ASSUME NEW why, result = NoRegistry(why), why \in {"broken"} \/ ~(Reflects /\ \A s \in handler.symbols : Complete(s))
        PROVE  handler'.pc = "done" /\ Right(handler')
    <3>1. ~FindDescriptorByName(result, r.service) /\ ~result.ok /\ result.error = why
      BY <2>3 DEF NoRegistry, FindDescriptorByName
    <3>2. CASE r.service = Health
      <4> DEFINE known == [ok |-> TRUE, files |-> {target.fileOf[Health]}, error |-> ""]
      <4>0. known.ok /\ known.files = {target.fileOf[Health]}
        OBVIOUS
      <4>1. found = known
        BY <3>1, <3>2 DEF registryForService
      <4> HIDE DEF known
      <4>2. found.ok /\ found.files = {target.fileOf[r.service]}
        BY <3>2, <4>0, <4>1
      <4>3. FindDescriptorByName(found, r.service)
        BY <1>0, <2>0, <4>2 DEF FindDescriptorByName
      <4> QED
        BY <2>1, <4>2, <4>3
    <3>3. CASE r.service # Health
      <4>1. found = result
        BY <3>1, <3>3 DEF registryForService
      <4>2. handler' = Failed(r, why)
        BY <2>0, <3>1, <4>1 DEF Resolve
      <4>3. handler'.pc = "done" /\ handler'.request = r /\ handler'.error = why
        BY <4>2 DEF Failed
      <4>4. why \in Outside \/ ~(Reflects /\ Complete(r.service))
        BY <1>2, <2>3 DEF Outside
      <4> QED
        BY <2>0, <3>3, <4>3, <4>4 DEF Right
    <3> QED
      BY <3>2, <3>3
  <2> QED
    BY <2>2, <2>3
<1> QED
  BY <1>1, <1>2 DEF Searching, Asked

\* A request is taken: with a protoset, for the health service, or by reflection.
LEMMA Begins ==
  ASSUME target \in Targets, NEW request, NEW version, NEW symbols,
         request \in ExecRequests \union {ReflectRequest}, version \in {"v1", "v1alpha"},
         version = "v1alpha" => target.reflection # "v1",
         \/ request = ReflectRequest /\ symbols = Listed
         \/ Fitting(request) /\ symbols = {request.service}
  PROVE  Reflecting(request, version, symbols).pc = "symbols" /\ Searching(Reflecting(request, version, symbols))
<1> DEFINE h == Reflecting(request, version, symbols)
<1>1. symbols \subseteq Services
  BY TargetFacts DEF Fitting, ExecRequests, Listed, Services
<1>2. h \in SearchRec
  BY <1>1 DEF Reflecting, SearchRec
<1>3. /\ h.pc = "symbols" /\ h.request = request /\ h.version = version /\ h.symbols = symbols /\ h.todo = symbols
      /\ h.files = {} /\ h.nils = {} /\ h.missing = {}
  BY DEF Reflecting
<1> HIDE DEF h
<1>4. h.pc = "symbols" /\ Searching(h)
  BY <1>2, <1>3 DEF Searching, Asking, Asked
<1> QED
  BY <1>4 DEF h

\* What an answer with file f adds.
LEMMA Receives ==
  ASSUME target \in Targets, handler \in SearchRec, NEW h \in SearchRec, NEW f \in target.served
  PROVE  /\ f \in Brought(f) /\ Brought(f) \subseteq target.served /\ Brought(f) \subseteq Needs(f)
         /\ Receive(h, f) \in SearchRec
         /\ Receive(h, f).files = h.files \union Brought(f) /\ Receive(h, f).nils = h.nils \ Brought(f)
         /\ Receive(h, f).request = h.request /\ Receive(h, f).version = h.version
         /\ Receive(h, f).symbols = h.symbols /\ Receive(h, f).todo = h.todo
         /\ Receive(h, f).missing = h.missing
<1>0. target.served \subseteq Files /\ f \in Files /\ f \in Needs(f)
  BY TargetFacts, NeedsFacts
<1>1. f \in Brought(f) /\ Brought(f) \subseteq target.served /\ Brought(f) \subseteq Needs(f)
  BY <1>0 DEF Brought
<1>2. Brought(f) \subseteq Files
  BY <1>0, <1>1
<1> DEFINE B == Brought(f)
           g1 == [h EXCEPT !.files = h.files \union B]
           g2 == [g1 EXCEPT !.nils = h.nils \ B]
           g3 == [g2 EXCEPT !.sent = h.sent \union B]
<1>3. Receive(h, f) = g3
  BY DEF Receive, SearchRec
<1> HIDE DEF B
<1>4. B \subseteq Files
  BY <1>2 DEF B
<1>5. /\ g1 \in SearchRec /\ g1.files = h.files \union B /\ g1.nils = h.nils /\ g1.sent = h.sent
      /\ g1.request = h.request /\ g1.version = h.version /\ g1.symbols = h.symbols /\ g1.todo = h.todo
      /\ g1.missing = h.missing
  BY <1>4 DEF SearchRec
<1> HIDE DEF g1
<1>6. /\ g2 \in SearchRec /\ g2.files = h.files \union B /\ g2.nils = h.nils \ B /\ g2.sent = h.sent
      /\ g2.request = h.request /\ g2.version = h.version /\ g2.symbols = h.symbols /\ g2.todo = h.todo
      /\ g2.missing = h.missing
  BY <1>5 DEF SearchRec
<1> HIDE DEF g2
<1>7. /\ g3 \in SearchRec /\ g3.files = h.files \union B /\ g3.nils = h.nils \ B
      /\ g3.request = h.request /\ g3.version = h.version /\ g3.symbols = h.symbols /\ g3.todo = h.todo
      /\ g3.missing = h.missing
  BY <1>4, <1>6 DEF SearchRec
<1> HIDE DEF g3
<1> QED
  BY <1>1, <1>3, <1>7 DEF B

\* A file that is asked for leaves the missing ones, and stays with those that were sent for.
LEMMA Marks ==
  ASSUME handler \in SearchRec, NEW f \in Files, NEW d \in Files
  PROVE  /\ Marked(f, d) \in SearchRec
         /\ Marked(f, d).files = handler.files \ {d} /\ Marked(f, d).nils = handler.nils \union {d}
         /\ Marked(f, d).missing = handler.missing \ {<<f, d>>}
         /\ Marked(f, d).request = handler.request /\ Marked(f, d).version = handler.version
         /\ Marked(f, d).symbols = handler.symbols /\ Marked(f, d).todo = handler.todo
<1> DEFINE g1 == [handler EXCEPT !.missing = handler.missing \ {<<f, d>>}]
           g2 == [g1 EXCEPT !.files = handler.files \ {d}]
           g3 == [g2 EXCEPT !.nils = handler.nils \union {d}]
<1>1. Marked(f, d) = g3
  BY DEF Marked, SearchRec
<1>2. /\ g1 \in SearchRec /\ g1.files = handler.files /\ g1.nils = handler.nils
      /\ g1.missing = handler.missing \ {<<f, d>>}
      /\ g1.request = handler.request /\ g1.version = handler.version
      /\ g1.symbols = handler.symbols /\ g1.todo = handler.todo
  BY DEF SearchRec
<1> HIDE DEF g1
<1>3. /\ g2 \in SearchRec /\ g2.files = handler.files \ {d} /\ g2.nils = handler.nils
      /\ g2.missing = handler.missing \ {<<f, d>>}
      /\ g2.request = handler.request /\ g2.version = handler.version
      /\ g2.symbols = handler.symbols /\ g2.todo = handler.todo
  BY <1>2 DEF SearchRec
<1> HIDE DEF g2
<1>4. /\ g3 \in SearchRec /\ g3.files = handler.files \ {d} /\ g3.nils = handler.nils \union {d}
      /\ g3.missing = handler.missing \ {<<f, d>>}
      /\ g3.request = handler.request /\ g3.version = handler.version
      /\ g3.symbols = handler.symbols /\ g3.todo = handler.todo
  BY <1>3 DEF SearchRec
<1> HIDE DEF g3
<1> QED
  BY <1>1, <1>4

\* The needs of symbols are closed under imports, and are served if each
\* symbol is complete.
LEMMA NeededFacts ==
  ASSUME target \in Targets, NEW symbols \in SUBSET Services
  PROVE  /\ \A g \in AllNeeded(symbols) : target.imports[g] \subseteq AllNeeded(symbols) /\ Needs(g) \subseteq AllNeeded(symbols)
         /\ \A s \in symbols : target.fileOf[s] \in Files /\ target.fileOf[s] \in AllNeeded(symbols)
                              /\ Needs(target.fileOf[s]) \subseteq AllNeeded(symbols)
         /\ (\A s \in symbols : Complete(s)) => AllNeeded(symbols) \subseteq target.served
<1>1. \A s \in symbols : target.fileOf[s] \in Files
  BY TargetFacts DEF Services
<1>2. \A s \in symbols : target.fileOf[s] \in AllNeeded(symbols) /\ Needs(target.fileOf[s]) \subseteq AllNeeded(symbols)
  BY <1>1, NeedsFacts DEF AllNeeded
<1>3. ASSUME NEW g \in AllNeeded(symbols)
      PROVE  target.imports[g] \subseteq AllNeeded(symbols) /\ Needs(g) \subseteq AllNeeded(symbols)
  <2>1. PICK s \in symbols : g \in Needs(target.fileOf[s])
    BY <1>3 DEF AllNeeded
  <2>2. target.imports[g] \subseteq Needs(target.fileOf[s]) /\ Needs(g) \subseteq Needs(target.fileOf[s])
    BY <1>1, <2>1, NeedsFacts
  <2> QED
    BY <1>2, <2>2
<1>4. (\A s \in symbols : Complete(s)) => AllNeeded(symbols) \subseteq target.served
  BY DEF AllNeeded, Complete
<1> QED
  BY <1>1, <1>2, <1>3, <1>4

\* requestFileDescriptors asks for one symbol after the other and keeps the files of the answers.
LEMMA AskKept ==
  ASSUME CallInv, NEW s \in Services, AskSymbol(s)
  PROVE  CallInv'
<1>0. /\ target \in Targets /\ Searching(handler) /\ UNCHANGED target /\ handler \in SearchRec
      /\ s \in handler.todo /\ s \in handler.symbols /\ handler.symbols \in SUBSET Services
  BY DEF CallInv, AskSymbol, Searching, SearchRec
<1>1. CASE Answers = "falls back" /\ handler' = Reflecting(handler.request, "v1alpha", handler.symbols)
  <2>1. target.reflection # "v1" /\ handler.request \in ExecRequests \union {ReflectRequest}
    BY <1>0, <1>1 DEF Answers, SearchRec
  <2> QED
    BY <1>0, <1>1, <2>1, Begins, Stays DEF Searching, Asked
<1>2. CASE Answers = "unimplemented" /\ Resolve(NoRegistry("unimplemented"))
  <2>1. ~Reflects
    BY <1>0, <1>2 DEF Answers, Searching, Asking, Reflects
  <2> QED
    BY <1>0, <1>2, <2>1, Resolves, Stays
<1>3. CASE ~(s \in DOMAIN target.fileOf /\ s \in target.listed /\ target.fileOf[s] \in target.served)
           /\ Resolve(NoRegistry("symbol"))
  <2>1. ~Complete(s)
    BY <1>0, <1>3, NeededFacts, NeedsFacts, TargetFacts DEF Complete, Services
  <2> QED
    BY <1>0, <1>3, <2>1, Resolves, Stays
<1>4. CASE target.fileOf[s] \in target.served
           /\ handler' = [Receive(handler, target.fileOf[s]) EXCEPT !.todo = @ \ {s}]
  <2> DEFINE f == target.fileOf[s]
             h == Receive(handler, f)
  <2>1. /\ f \in Brought(f) /\ Brought(f) \subseteq target.served /\ Brought(f) \subseteq Needs(f)
        /\ h \in SearchRec
        /\ h.files = handler.files \union Brought(f) /\ h.nils = handler.nils \ Brought(f)
        /\ h.request = handler.request /\ h.version = handler.version
        /\ h.symbols = handler.symbols /\ h.todo = handler.todo /\ h.missing = handler.missing
    BY <1>0, <1>4, Receives
  <2>2. handler' = [h EXCEPT !.todo = h.todo \ {s}]
    BY <1>4, <2>1 DEF SearchRec
  <2> HIDE DEF h
  <2>3. /\ handler' \in SearchRec /\ handler'.pc = "symbols"
        /\ handler'.files = handler.files \union Brought(f) /\ handler'.nils = handler.nils \ Brought(f)
        /\ handler'.request = handler.request /\ handler'.version = handler.version
        /\ handler'.symbols = handler.symbols /\ handler'.todo = handler.todo \ {s} /\ handler'.missing = handler.missing
    BY <2>1, <2>2 DEF SearchRec
  <2>4. Needs(f) \subseteq AllNeeded(handler.symbols)
    BY <1>0, NeededFacts
  <2> HIDE DEF f
  <2>5. Searching(handler')
    <3>1. Asking(handler') /\ Asked(handler')
      BY <1>0, <2>3 DEF Searching, Asking, Asked
    <3>2. \A r \in handler.symbols \ handler'.todo : target.fileOf[r] \in handler'.files
      BY <1>0, <2>1, <2>3 DEF Searching, f
    <3>3. (\A r \in handler.symbols : Complete(r)) =>
            /\ handler'.nils = {} /\ handler'.files \subseteq AllNeeded(handler.symbols)
            /\ \A p \in handler'.missing : p[2] \in AllNeeded(handler.symbols)
      BY <1>0, <2>1, <2>3, <2>4 DEF Searching
    <3> QED
      BY <1>0, <2>1, <2>3, <3>1, <3>2, <3>3 DEF Searching
  <2> QED
    BY <1>0, <2>3, <2>5, Stays
<1> QED
  BY <1>1, <1>2, <1>3, <1>4 DEF AskSymbol

\* The scan of the files at hand finds the imports that are not at hand.
LEMMA ScanKept ==
  ASSUME CallInv, ScanMissing
  PROVE  CallInv'
<1>0. /\ target \in Targets /\ Searching(handler) /\ UNCHANGED target /\ handler \in SearchRec
      /\ handler.todo = {} /\ handler.symbols \in SUBSET Services /\ handler.files \subseteq Files
  BY DEF CallInv, ScanMissing, Searching, SearchRec
<1>1. CASE Missing = {} /\ Resolve(buildFileRegistry(handler.files))
  <2>1. CASE NewFiles(handler.files)
    <3> DEFINE built == [ok |-> TRUE, files |-> handler.files, error |-> ""]
    <3>1. built.ok /\ built.files = handler.files
      OBVIOUS
    <3>2. Resolve(built)
      BY <1>1, <2>1 DEF buildFileRegistry
    <3>3. \A s \in handler.symbols : target.fileOf[s] \in handler.files
      BY <1>0 DEF Searching
    <3> HIDE DEF built
    <3> QED
      BY <1>0, <3>1, <3>2, <3>3, Resolves, Stays
  <2>2. CASE ~NewFiles(handler.files)
    <3>1. Resolve(NoRegistry("imports"))
      BY <1>1, <2>2 DEF buildFileRegistry
    <3>2. handler.nils # {}
      <4>1. PICK f \in handler.files : ~(target.imports[f] \subseteq handler.files)
        BY <2>2 DEF NewFiles
      <4>2. PICK d \in target.imports[f] : d \notin handler.files
        BY <4>1
      <4>3. d \in Files
        BY <1>0, <4>1, <4>2, TargetFacts
      <4>4. <<f, d>> \notin Missing
        BY <1>1
      <4> QED
        BY <4>1, <4>2, <4>3, <4>4 DEF Missing
    <3>3. ~ \A s \in handler.symbols : Complete(s)
      BY <1>0, <3>2 DEF Searching
    <3> QED
      BY <1>0, <3>1, <3>3, Resolves, Stays
  <2> QED
    BY <2>1, <2>2
<1>2. CASE handler' = [handler EXCEPT !.missing = Missing]
  <2> DEFINE M == Missing
  <2>1. M \in SUBSET (Files \X Files) /\ \A p \in M : p[1] \in handler.files /\ p[2] \in target.imports[p[1]]
    BY <1>0 DEF Missing
  <2> HIDE DEF M
  <2>2. /\ handler' \in SearchRec /\ handler'.pc = "symbols" /\ handler'.missing = M
        /\ handler'.files = handler.files /\ handler'.nils = handler.nils
        /\ handler'.request = handler.request /\ handler'.version = handler.version
        /\ handler'.symbols = handler.symbols /\ handler'.todo = handler.todo
    BY <1>0, <1>2, <2>1 DEF SearchRec, M
  <2>3. Searching(handler')
    <3>1. Asking(handler') /\ Asked(handler')
      BY <1>0, <2>2 DEF Searching, Asking, Asked
    <3>2. (\A r \in handler.symbols : Complete(r)) => \A p \in M : p[2] \in AllNeeded(handler.symbols)
      BY <1>0, <2>1, NeededFacts DEF Searching
    <3> QED
      BY <1>0, <2>2, <3>1, <3>2 DEF Searching
  <2> QED
    BY <1>0, <2>2, <2>3, Stays
<1> QED
  BY <1>1, <1>2 DEF ScanMissing

\* fetchMissingDeps asks for a missing import, and keeps nil for it when the server does not serve it.
LEMMA FetchKept ==
  ASSUME CallInv, NEW f \in Files, NEW d \in Files, FetchMissing(f, d)
  PROVE  CallInv'
<1>0. /\ target \in Targets /\ Searching(handler) /\ UNCHANGED target /\ handler \in SearchRec
      /\ <<f, d>> \in handler.missing /\ handler.symbols \in SUBSET Services
      /\ handler.files \subseteq target.served
  BY DEF CallInv, FetchMissing, Searching, SearchRec
<1> DEFINE h == Marked(f, d)
<1>1. /\ h \in SearchRec
      /\ h.files = handler.files \ {d} /\ h.nils = handler.nils \union {d}
      /\ h.missing = handler.missing \ {<<f, d>>}
      /\ h.request = handler.request /\ h.version = handler.version
      /\ h.symbols = handler.symbols /\ h.todo = handler.todo
  BY <1>0, Marks
<1>2. (\A s \in handler.symbols : Complete(s)) => d \in AllNeeded(handler.symbols) /\ d \in target.served
  <2>1. <<f, d>>[2] = d
    OBVIOUS
  <2> QED
    BY <1>0, <2>1, NeededFacts DEF Searching
<1>3. handler' = IF d \in target.served THEN Receive(h, d) ELSE h
  BY DEF FetchMissing
<1> HIDE DEF h
<1>4. CASE d \in target.served
  <2>1. /\ d \in Brought(d) /\ Brought(d) \subseteq target.served /\ Brought(d) \subseteq Needs(d)
        /\ handler' \in SearchRec
        /\ handler'.files = h.files \union Brought(d) /\ handler'.nils = h.nils \ Brought(d)
        /\ handler'.request = h.request /\ handler'.version = h.version
        /\ handler'.symbols = h.symbols /\ handler'.todo = h.todo /\ handler'.missing = h.missing
    BY <1>0, <1>1, <1>3, <1>4, Receives
  <2>2. Asking(handler') /\ Asked(handler')
    BY <1>0, <1>1, <2>1 DEF Searching, Asking, Asked
  <2>3. handler.files \subseteq handler'.files
    BY <1>1, <2>1
  <2>4. (\A r \in handler.symbols : Complete(r)) =>
          /\ handler'.nils = {} /\ handler'.files \subseteq AllNeeded(handler.symbols)
          /\ \A p \in handler'.missing : p[2] \in AllNeeded(handler.symbols)
    <3> SUFFICES ASSUME \A r \in handler.symbols : Complete(r)
                 PROVE  /\ handler'.nils = {} /\ handler'.files \subseteq AllNeeded(handler.symbols)
                        /\ \A p \in handler'.missing : p[2] \in AllNeeded(handler.symbols)
      OBVIOUS
    <3>1. Brought(d) \subseteq AllNeeded(handler.symbols)
      BY <1>0, <1>2, <2>1, NeededFacts
    <3>2. /\ handler.nils = {} /\ handler.files \subseteq AllNeeded(handler.symbols)
          /\ \A p \in handler.missing : p[2] \in AllNeeded(handler.symbols)
      BY <1>0 DEF Searching
    <3> QED
      BY <1>1, <2>1, <3>1, <3>2
  <2>5. Searching(handler')
    BY <1>0, <1>1, <2>1, <2>2, <2>3, <2>4 DEF Searching
  <2>6. handler'.pc = "symbols"
    BY <2>1 DEF SearchRec
  <2> QED
    BY <1>0, <2>5, <2>6, Stays
<1>5. CASE d \notin target.served
  <2>1. handler' = h /\ h.files = handler.files /\ h.pc = "symbols"
    BY <1>0, <1>1, <1>3, <1>5 DEF SearchRec
  <2>2. Asking(h) /\ Asked(h)
    BY <1>0, <1>1 DEF Searching, Asking, Asked
  <2>3. Searching(h)
    BY <1>0, <1>1, <1>2, <1>5, <2>1, <2>2 DEF Searching
  <2> QED
    BY <1>0, <2>1, <2>3, Stays
<1> QED
  BY <1>4, <1>5

\* Each step of a call keeps the invariant.
LEMMA CallKept ==
  ASSUME CallInv, [CallNext]_callVars
  PROVE  CallInv'
<1>0. target \in Targets
  BY DEF CallInv
<1>1. ASSUME NEW ps \in Protosets, GrpcReflect(ps) PROVE CallInv'
  <2> DEFINE request == [op |-> "reflect", protoset |-> ps]
  <2>0. request.op = "reflect" /\ request.protoset = ps /\ UNCHANGED target
    BY <1>1 DEF GrpcReflect
  <2>1. ASSUME NEW why, handler' = Failed(request, why), why \in Outside \/ ps # {} PROVE CallInv'
    <3>1. handler'.pc = "done" /\ handler'.request = request /\ handler'.error = why
      BY <2>1 DEF Failed
    <3>2. Right(handler')
      BY <2>0, <2>1, <3>1 DEF Right
    <3> QED
      BY <2>0, <3>1, <3>2, Stays
  <2>2. ASSUME NEW what, handler' = Ok(request, what), ps # {} PROVE CallInv'
    <3>1. handler'.pc = "done" /\ handler'.request = request
      BY <2>2 DEF Ok
    <3>2. Right(handler')
      BY <2>0, <2>2, <3>1 DEF Right
    <3> QED
      BY <2>0, <3>1, <3>2, Stays
  <2>3. CASE ps = {} /\ handler' = [pc |-> "list", request |-> request, version |-> "v1"]
    <3>1. handler' \in ListRec /\ handler'.pc = "list" /\ handler'.version = "v1"
      BY <2>3 DEF ReflectRequest, ListRec
    <3>2. Asking(handler')
      BY <3>1 DEF Asking
    <3> QED
      BY <2>0, <3>1, <3>2, Stays
  <2>4. "incomplete" \in Outside /\ "no connection" \in Outside
    BY DEF Outside
  <2> QED
    BY <1>1, <2>1, <2>2, <2>3, <2>4 DEF GrpcReflect, grpcClientConn
<1>2. ASSUME NEW s \in Services, NEW m \in MethodKinds, NEW known \in BOOLEAN, NEW ps \in Protosets,
             known => m \in MethodsOf(s), GrpcExecute(s, m, known, ps)
      PROVE  CallInv'
  <2> DEFINE request == [op |-> executeCurrentGrpcRequest(m, known), service |-> s, method |-> m,
                         known |-> known, protoset |-> ps]
             found == registryFromProtosetBase64(ps)
  <2>0. /\ request.op = executeCurrentGrpcRequest(m, known) /\ request.op \in {"execute", "serverStream", "open"}
        /\ request.service = s /\ request.method = m
        /\ request.known = known /\ request.protoset = ps /\ UNCHANGED target
    BY <1>2 DEF GrpcExecute, executeCurrentGrpcRequest
  <2>1. Fitting(request)
    <3>1. request \in ExecRequests
      BY <2>0 DEF ExecRequests
    <3> QED
      BY <1>2, <2>0, <3>1 DEF Fitting
  <2>2. ASSUME NEW e \in {"incomplete", "no connection"}, handler' = Failed(request, e) PROVE CallInv'
    <3>1. handler'.pc = "done" /\ handler'.request = request /\ handler'.error = e
      BY <2>2 DEF Failed
    <3>2. Right(handler')
      BY <2>0, <2>2, <3>1 DEF Right, Outside
    <3> QED
      BY <2>0, <3>1, <3>2, Stays
  <2>3. CASE handler' = [pc |-> IF ps # {} /\ found.ok /\ FindDescriptorByName(found, s)
                                THEN "protoset" ELSE "begin", request |-> request]
    <3>1. /\ handler'.request = request /\ handler'.pc \in {"protoset", "begin"}
          /\ handler'.pc = "protoset" => found.ok /\ FindDescriptorByName(found, s)
      BY <2>3
    <3> QED
      BY <2>0, <2>1, <3>1, Stays
  <2> QED
    BY <1>2, <2>2, <2>3 DEF GrpcExecute, grpcClientConn
<1>3. ASSUME FromProtoset PROVE CallInv'
  BY <1>0, <1>3, Invokes, Stays DEF FromProtoset, CallInv
<1>4. ASSUME FromReflection PROVE CallInv'
  <2>1. Fitting(handler.request) /\ handler.request \in ExecRequests
    BY <1>4 DEF FromReflection, CallInv, Fitting
  <2> QED
    BY <1>0, <1>4, <2>1, Begins, Stays DEF FromReflection
<1>5. ASSUME listGrpcServices PROVE CallInv'
  <2>1. /\ handler \in ListRec /\ handler.request = ReflectRequest /\ Asking(handler)
        /\ UNCHANGED target /\ handler.pc = "list"
    BY <1>5 DEF listGrpcServices, CallInv, ListRec
  <2>2. CASE Answers = "falls back" /\ handler' = [handler EXCEPT !.version = "v1alpha"]
    <3>1. handler.version = "v1" /\ target.reflection # "v1"
      BY <2>1, <2>2 DEF Answers
    <3>2. handler' \in ListRec /\ handler'.pc = "list" /\ Asking(handler')
      BY <2>1, <2>2, <3>1 DEF ListRec, Asking
    <3> QED
      BY <2>1, <3>2, Stays
  <2>3. CASE Answers = "unimplemented" /\ handler' = Failed(handler.request, "unimplemented")
    <3>1. ~Reflects
      BY <2>1, <2>3 DEF Answers, Asking, Reflects
    <3>2. handler'.pc = "done" /\ handler'.request = ReflectRequest
      BY <2>1, <2>3 DEF Failed
    <3>3. handler'.request.op = "reflect"
      BY <3>2 DEF ReflectRequest
    <3>4. Right(handler')
      BY <3>1, <3>3 DEF Right
    <3> QED
      BY <2>1, <3>2, <3>4, Stays
  <2>4. CASE handler' = Reflecting(handler.request, "v1", {s \in target.listed : ~isReflectionService(s)})
    <3>1. {s \in target.listed : ~isReflectionService(s)} = Listed
      BY DEF isReflectionService, Listed
    <3> QED
      BY <1>0, <2>1, <2>4, <3>1, Begins, Stays
  <2> QED
    BY <1>5, <2>2, <2>3, <2>4 DEF listGrpcServices
<1>6. CASE UNCHANGED callVars
  <2>1. UNCHANGED target /\ handler' = handler
    BY <1>6 DEF callVars
  <2>2. CASE handler.pc = "idle"
    BY <1>0, <2>1, <2>2 DEF CallInv
  <2> QED
    BY <2>1, <2>2, Stays DEF CallInv
<1>7. ASSUME ReflectionBreaks PROVE CallInv'
  <2>1. CASE handler.pc = "list" /\ handler' = Failed(handler.request, "broken")
    <3>1. handler'.pc = "done" /\ handler'.request = ReflectRequest /\ handler'.error = "broken"
      BY <2>1 DEF CallInv, ListRec, Failed
    <3>2. Right(handler')
      BY <3>1 DEF Right, Outside, ReflectRequest
    <3> QED
      BY <1>7, <3>1, <3>2, Stays DEF ReflectionBreaks
  <2>2. CASE handler.pc = "symbols" /\ Resolve(NoRegistry("broken"))
    BY <1>0, <1>7, <2>2, Resolves, Stays DEF ReflectionBreaks, CallInv
  <2> QED
    BY <1>7, <2>1, <2>2 DEF ReflectionBreaks
<1> QED
  BY <1>1, <1>2, <1>3, <1>4, <1>5, <1>6, <1>7, AskKept, ScanKept, FetchKept DEF CallNext, CallStep, Services

(***************************************************************************)
(* The calls of the page.  The controls alone are not inductive: what a    *)
(* call may do next depends on its kind, and that a single call can always *)
(* be stopped rests on which of the page's fields it holds in each state.  *)
(***************************************************************************)
PageState ==
  [streaming : BOOLEAN, streamCtl : GrpcCallIds \union {NoGrpc}, execCtl : GrpcCallIds \union {NoGrpc},
   streamId : GrpcCallIds \union {NoGrpc}, deadline : GrpcCallIds \union {NoGrpc},
   response : GrpcCallIds \union {NoGrpc}, messages : SUBSET GrpcCallIds, received : SUBSET GrpcCallIds]
CallState ==
  [pc : {"idle", "script", "asked", "post", "filing", "reading", "ended", "opening", "open", "done"},
   kind : {"unary", "server", "client", "bidi"}, timed : BOOLEAN, timer : {"off", "armed", "closing"},
   reader : BOOLEAN, closes : 0..MaxCloses]

\* A call does what its kind does.
Fits(k) ==
  /\ k.pc \in {"post", "filing"} => k.kind = "unary"
  /\ k.pc \in {"reading", "ended"} => k.kind = "server"
  /\ k.pc \in {"opening", "open"} \/ k.reader \/ k.closes > 0 \/ k.timer = "closing" => k.kind \in {"client", "bidi"}
  /\ k.pc = "asked" => k.kind \in {"unary", "server"}

\* What the page holds is held for a call that is not over, and each control is
\* that of a call of its kind.
PageFits ==
  /\ \A c \in GrpcCallIds :
       /\ grpcPage.execCtl = c => grpcCalls[c].kind = "unary" /\ grpcCalls[c].pc \in {"asked", "post"}
       /\ grpcPage.streamCtl = c => grpcCalls[c].kind # "unary" /\ grpcCalls[c].pc \in {"asked", "reading", "open"}
       /\ grpcPage.streamId = c => grpcCalls[c].pc = "open"
       /\ grpcPage.deadline = c => grpcCalls[c].pc \in {"asked", "post", "reading", "opening", "open"}
  /\ grpcPage.streaming =>
       \/ grpcPage.streamId # NoGrpc
       \/ \E c \in GrpcCallIds : grpcCalls[c].kind # "unary" /\ grpcCalls[c].pc \in {"asked", "reading", "opening"}

\* Calls that were made one after the other.
OneAtATime ==
  /\ \A c, d \in GrpcCallIds : ~AtRest(grpcCalls[c]) /\ ~AtRest(grpcCalls[d]) => c = d
  /\ \A c \in GrpcCallIds :
       /\ grpcCalls[c].kind = "unary" /\ grpcCalls[c].pc = "asked" => grpcPage.execCtl = c
       /\ grpcCalls[c].kind = "server" /\ grpcCalls[c].pc \in {"asked", "reading"} =>
            grpcPage.streamCtl = c /\ grpcPage.streaming /\ grpcPage.messages \subseteq {c}
       /\ grpcCalls[c].pc = "open" => grpcPage.streamId = c
       /\ grpcCalls[c].pc \in {"opening", "open"} \/ grpcCalls[c].reader => grpcPage.received \subseteq {c}
  /\ \A x, y \in grpcPage.messages : x = y
  /\ \A x, y \in grpcPage.received : x = y

PagesInv ==
  /\ grpcPage \in PageState /\ grpcCalls \in [GrpcCallIds -> CallState] /\ alone \in BOOLEAN
  /\ \A c \in GrpcCallIds : Fits(grpcCalls[c])
  /\ PageFits
  /\ alone => OneAtATime

\* The page begins with no call.
LEMMA PagesInitially == GrpcInit => PagesInv
BY GrpcCallsAssumption DEF GrpcInit, PagesInv, PageState, CallState, Fits, PageFits, OneAtATime, Unused, AtRest

\* The invariant of the page gives what the run checks.
LEMMA PagesProperties == PagesInv => GrpcTypeOK /\ ControlsAreLive /\ AloneCanBeStopped
<1> SUFFICES ASSUME PagesInv PROVE GrpcTypeOK /\ ControlsAreLive /\ AloneCanBeStopped
  OBVIOUS
<1>1. GrpcTypeOK
  <2>1. \A f \in {"streamCtl", "execCtl", "streamId", "deadline", "response"} :
          grpcPage[f] \in GrpcCallIds \union {NoGrpc}
    BY DEF PagesInv, PageState
  <2> QED
    BY <2>1 DEF PagesInv, PageState, CallState, GrpcTypeOK
<1>2. ControlsAreLive
  BY DEF PagesInv, PageFits, ControlsAreLive
<1>3. ASSUME NEW S, \A x, y \in S : x = y
      PROVE  Cardinality(S) <= 1
  <2>1. CASE S = {}
    BY <2>1, FS_EmptySet
  <2>2. CASE S # {}
    <3>1. PICK x \in S : TRUE
      BY <2>2
    <3>2. S = {x}
      BY <1>3, <3>1
    <3>3. Cardinality(S) = 1
      BY <3>2, FS_Singleton
    <3> QED  BY <3>3
  <2> QED  BY <2>1, <2>2
<1>4. AloneCanBeStopped
  <2> SUFFICES ASSUME alone PROVE AloneCanBeStopped
    BY DEF AloneCanBeStopped
  <2>1. Cardinality(grpcPage.messages) <= 1 /\ Cardinality(grpcPage.received) <= 1
    BY <1>3 DEF PagesInv, OneAtATime
  <2> QED
    BY <2>1 DEF PagesInv, OneAtATime, AloneCanBeStopped
<1> QED
  BY <1>1, <1>2, <1>4

\* A call that streams, or is about to.
Streams1(k) == k.kind # "unary" /\ k.pc \in {"asked", "reading", "opening"}

\* What the page p must be like for the call c to be k.
Agrees(p, c, k) ==
  /\ p.execCtl = c => k.kind = "unary" /\ k.pc \in {"asked", "post"}
  /\ p.streamCtl = c => k.kind # "unary" /\ k.pc \in {"asked", "reading", "open"}
  /\ p.streamId = c => k.pc = "open"
  /\ p.deadline = c => k.pc \in {"asked", "post", "reading", "opening", "open"}
Stoppable(p, c, k) ==
  /\ k.kind = "unary" /\ k.pc = "asked" => p.execCtl = c
  /\ k.kind = "server" /\ k.pc \in {"asked", "reading"} =>
       p.streamCtl = c /\ p.streaming /\ p.messages \subseteq {c}
  /\ k.pc = "open" => p.streamId = c
  /\ k.pc \in {"opening", "open"} \/ k.reader => p.received \subseteq {c}
  /\ \A x, y \in p.messages : x = y
  /\ \A x, y \in p.received : x = y

\* A step of one call that is not at rest, and what it writes to the page.
LEMMA OneCall ==
  ASSUME PagesInv, NEW c \in GrpcCallIds, NEW k \in CallState, Call(c, k), Fits(k),
         NEW p \in PageState, grpcPage' = p, UNCHANGED alone, ~AtRest(grpcCalls[c]),
         Agrees(p, c, k),
         p.execCtl \in {grpcPage.execCtl, NoGrpc, c}, p.streamCtl \in {grpcPage.streamCtl, NoGrpc, c},
         p.streamId \in {grpcPage.streamId, NoGrpc, c}, p.deadline \in {grpcPage.deadline, NoGrpc, c},
         p.streaming => \/ p.streamId # NoGrpc \/ Streams1(k)
                        \/ grpcPage.streaming /\ p.streamId = grpcPage.streamId /\ ~Streams1(grpcCalls[c]),
         alone => Stoppable(p, c, k)
  PROVE  PagesInv'
<1>0. /\ grpcCalls \in [GrpcCallIds -> CallState] /\ NoGrpc \notin GrpcCallIds
      /\ \A d \in GrpcCallIds : grpcCalls'[d] = IF d = c THEN k ELSE grpcCalls[d]
      /\ grpcCalls' \in [GrpcCallIds -> CallState]
  BY GrpcCallsAssumption DEF PagesInv, Call
<1>1. \A d \in GrpcCallIds : Fits(grpcCalls[d])'
  BY <1>0 DEF PagesInv, Fits
<1>2. PageFits'
  <2>1. ASSUME NEW d \in GrpcCallIds
        PROVE  /\ grpcPage'.execCtl = d => grpcCalls'[d].kind = "unary" /\ grpcCalls'[d].pc \in {"asked", "post"}
               /\ grpcPage'.streamCtl = d => grpcCalls'[d].kind # "unary" /\ grpcCalls'[d].pc \in {"asked", "reading", "open"}
               /\ grpcPage'.streamId = d => grpcCalls'[d].pc = "open"
               /\ grpcPage'.deadline = d => grpcCalls'[d].pc \in {"asked", "post", "reading", "opening", "open"}
    <3>1. CASE d = c
      BY <1>0, <3>1 DEF Agrees
    <3>2. CASE d # c
      BY <1>0, <3>2 DEF PagesInv, PageFits
    <3> QED  BY <3>1, <3>2
  <2>2. ASSUME grpcPage'.streaming
        PROVE  \/ grpcPage'.streamId # NoGrpc
               \/ \E d \in GrpcCallIds : grpcCalls'[d].kind # "unary" /\ grpcCalls'[d].pc \in {"asked", "reading", "opening"}
    <3>1. CASE Streams1(k)
      BY <1>0, <3>1 DEF Streams1
    <3>2. CASE grpcPage.streaming /\ p.streamId = grpcPage.streamId /\ ~Streams1(grpcCalls[c]) /\ p.streamId = NoGrpc
      <4>1. PICK d \in GrpcCallIds : Streams1(grpcCalls[d])
        BY <3>2 DEF PagesInv, PageFits, Streams1
      <4> QED
        BY <1>0, <3>2, <4>1 DEF Streams1
    <3> QED  BY <2>2, <3>1, <3>2
  <2> QED
    BY <2>1, <2>2 DEF PageFits
<1>3. ASSUME alone PROVE OneAtATime'
  <2>1. \A d \in GrpcCallIds \ {c} : AtRest(grpcCalls[d]) /\ grpcCalls'[d] = grpcCalls[d]
    BY <1>0, <1>3 DEF PagesInv, OneAtATime
  <2>2. \A d \in GrpcCallIds \ {c} : grpcCalls'[d].pc \in {"idle", "done"} /\ ~grpcCalls'[d].reader /\ AtRest(grpcCalls'[d])
    BY <2>1 DEF AtRest
  <2>3. grpcCalls'[c] = k /\ Stoppable(p, c, k)
    BY <1>0, <1>3
  <2> QED
    BY <2>2, <2>3 DEF OneAtATime, Stoppable, AtRest
<1> QED
  BY <1>0, <1>1, <1>2, <1>3 DEF PagesInv

\* The ends of calls, as they leave the page.
LEMMA Ends ==
  ASSUME grpcPage \in PageState
  PROVE  /\ ExecuteOver \in PageState
         /\ ExecuteOver.execCtl = NoGrpc /\ ExecuteOver.deadline = NoGrpc
         /\ ExecuteOver.streaming = grpcPage.streaming /\ ExecuteOver.streamCtl = grpcPage.streamCtl
         /\ ExecuteOver.streamId = grpcPage.streamId /\ ExecuteOver.messages = grpcPage.messages
         /\ ExecuteOver.received = grpcPage.received
         /\ StreamOver \in PageState
         /\ StreamOver.streaming = FALSE /\ StreamOver.streamCtl = NoGrpc /\ StreamOver.deadline = NoGrpc
         /\ StreamOver.execCtl = grpcPage.execCtl /\ StreamOver.streamId = grpcPage.streamId
         /\ StreamOver.messages = grpcPage.messages /\ StreamOver.received = grpcPage.received
         /\ StreamGone \in PageState
         /\ StreamGone.streaming = FALSE /\ StreamGone.streamCtl = NoGrpc /\ StreamGone.deadline = NoGrpc
         /\ StreamGone.execCtl = grpcPage.execCtl /\ StreamGone.streamId = NoGrpc
         /\ StreamGone.messages = grpcPage.messages /\ StreamGone.received = grpcPage.received
<1>1. /\ ExecuteOver \in PageState
      /\ ExecuteOver.execCtl = NoGrpc /\ ExecuteOver.deadline = NoGrpc
      /\ ExecuteOver.streaming = grpcPage.streaming /\ ExecuteOver.streamCtl = grpcPage.streamCtl
      /\ ExecuteOver.streamId = grpcPage.streamId /\ ExecuteOver.messages = grpcPage.messages
      /\ ExecuteOver.received = grpcPage.received
  BY DEF ExecuteOver, PageState
<1>2. /\ StreamOver \in PageState
      /\ StreamOver.streaming = FALSE /\ StreamOver.streamCtl = NoGrpc /\ StreamOver.deadline = NoGrpc
      /\ StreamOver.execCtl = grpcPage.execCtl /\ StreamOver.streamId = grpcPage.streamId
      /\ StreamOver.messages = grpcPage.messages /\ StreamOver.received = grpcPage.received
  BY DEF StreamOver, PageState
<1>3. /\ StreamGone \in PageState
      /\ StreamGone.streaming = FALSE /\ StreamGone.streamCtl = NoGrpc /\ StreamGone.deadline = NoGrpc
      /\ StreamGone.execCtl = grpcPage.execCtl /\ StreamGone.streamId = NoGrpc
      /\ StreamGone.messages = grpcPage.messages /\ StreamGone.received = grpcPage.received
  BY <1>2 DEF StreamGone, PageState
<1> QED
  BY <1>1, <1>2, <1>3

\* Unary calls.
LEMMA UnaryKept ==
  ASSUME PagesInv, NEW c \in GrpcCallIds,
         runGrpcUnary(c) \/ UnaryAnswered(c) \/ UnaryCaught(c) \/ UnaryShown(c) \/ UnaryFiled(c)
  PROVE  PagesInv'
<1> DEFINE q == grpcCalls[c]
<1>0. q \in CallState /\ grpcPage \in PageState /\ Fits(q) /\ NoGrpc \notin GrpcCallIds
  BY GrpcCallsAssumption DEF PagesInv
<1>1. CASE runGrpcUnary(c)
  <2> DEFINE k == [Moved(c, "asked") EXCEPT !.timer = IF grpcCalls[c].timed THEN "armed" ELSE "off"]
             p == [grpcPage EXCEPT !.execCtl = c, !.response = NoGrpc, !.messages = {}, !.deadline = Deadline(c)]
  <2>1. k \in CallState /\ k.pc = "asked" /\ k.kind = "unary" /\ k.reader = q.reader /\ k.closes = q.closes /\ k.timer # "closing"
    BY <1>0, <1>1 DEF runGrpcUnary, Moved, CallState
  <2>2. /\ p \in PageState /\ p.execCtl = c /\ p.deadline \in {c, NoGrpc} /\ p.messages = {}
        /\ p.streaming = grpcPage.streaming /\ p.streamCtl = grpcPage.streamCtl /\ p.streamId = grpcPage.streamId
        /\ p.received = grpcPage.received
    BY <1>0 DEF PageState, Deadline
  <2>3. q.pc = "script" /\ q.kind = "unary" /\ ~AtRest(q) /\ grpcPage.streamCtl # c /\ grpcPage.streamId # c
    BY <1>1 DEF runGrpcUnary, AtRest, PagesInv, PageFits
  <2>4. Call(c, k) /\ grpcPage' = p /\ UNCHANGED alone
    BY <1>1 DEF runGrpcUnary
  <2> HIDE DEF k, p
  <2>5. Fits(k)
    BY <1>0, <2>1, <2>3 DEF Fits, CallState
  <2>6. alone => Stoppable(p, c, k)
    BY <1>0, <2>1, <2>2, <2>3 DEF Stoppable, PagesInv, OneAtATime, Fits
  <2>7. Agrees(p, c, k)
    BY <1>0, <2>1, <2>2, <2>3 DEF Agrees
  <2> QED
    BY <2>1, <2>2, <2>3, <2>4, <2>5, <2>6, <2>7, OneCall DEF Streams1
<1>2. CASE UnaryAnswered(c)
  <2> DEFINE k == [Moved(c, "post") EXCEPT !.timer = "off"]
  <2>1. /\ k \in CallState /\ k.pc = "post" /\ k.kind = "unary" /\ k.reader = q.reader /\ k.closes = q.closes
        /\ k.timer = "off" /\ q.pc = "asked" /\ ~AtRest(q)
    BY <1>0, <1>2 DEF UnaryAnswered, Moved, CallState, AtRest
  <2>2. Call(c, k) /\ grpcPage' = grpcPage /\ UNCHANGED alone /\ q.kind = "unary"
    BY <1>2 DEF UnaryAnswered
  <2> HIDE DEF k
  <2>3. Fits(k) /\ Agrees(grpcPage, c, k)
    BY <1>0, <2>1, <2>2 DEF Fits, Agrees, PagesInv, PageFits
  <2>4. alone => Stoppable(grpcPage, c, k)
    BY <1>0, <2>1, <2>2 DEF Stoppable, PagesInv, OneAtATime, Fits
  <2> QED
    BY <1>0, <2>1, <2>2, <2>3, <2>4, OneCall DEF Streams1
<1>3. CASE UnaryCaught(c)
  <2> DEFINE k == Over(c)
  <2>1. /\ k \in CallState /\ k.pc = "done" /\ k.kind = "unary" /\ k.reader = q.reader /\ k.closes = q.closes
        /\ k.timer = "off" /\ q.pc \in {"asked", "post", "filing"} /\ ~AtRest(q)
    BY <1>0, <1>3 DEF UnaryCaught, Over, CallState, AtRest
  <2>2. Call(c, k) /\ grpcPage' = ExecuteOver /\ UNCHANGED alone /\ q.kind = "unary"
    BY <1>3 DEF UnaryCaught
  <2> HIDE DEF k
  <2>3. Fits(k) /\ Agrees(ExecuteOver, c, k)
    BY <1>0, <2>1, <2>2, Ends DEF Fits, Agrees, PagesInv, PageFits
  <2>4. alone => Stoppable(ExecuteOver, c, k)
    BY <1>0, <2>1, <2>2, Ends DEF Stoppable, PagesInv, OneAtATime, Fits
  <2> QED
    BY <1>0, <2>1, <2>2, <2>3, <2>4, Ends, OneCall DEF Streams1
<1>4. CASE UnaryShown(c)
  <2> DEFINE k == Moved(c, "filing")
             p == [ExecuteOver EXCEPT !.response = c]
  <2>1. /\ k \in CallState /\ k.pc = "filing" /\ k.kind = q.kind /\ k.reader = q.reader /\ k.closes = q.closes
        /\ k.timer = q.timer /\ q.pc = "post" /\ ~AtRest(q)
    BY <1>0, <1>4 DEF UnaryShown, Moved, CallState, AtRest
  <2>2. Call(c, k) /\ grpcPage' = p /\ UNCHANGED alone /\ q.kind = "unary"
    BY <1>0, <1>4 DEF UnaryShown, Fits
  <2>3. /\ p \in PageState /\ p.execCtl = NoGrpc /\ p.deadline = NoGrpc
        /\ p.streaming = grpcPage.streaming /\ p.streamCtl = grpcPage.streamCtl
        /\ p.streamId = grpcPage.streamId /\ p.messages = grpcPage.messages
        /\ p.received = grpcPage.received
    BY <1>0, Ends DEF PageState
  <2> HIDE DEF k, p
  <2>4. Fits(k) /\ Agrees(p, c, k)
    BY <1>0, <2>1, <2>2, <2>3 DEF Fits, Agrees, PagesInv, PageFits
  <2>5. alone => Stoppable(p, c, k)
    BY <1>0, <2>1, <2>2, <2>3 DEF Stoppable, PagesInv, OneAtATime, Fits
  <2> QED
    BY <1>0, <2>1, <2>2, <2>3, <2>4, <2>5, OneCall DEF Streams1
<1>5. CASE UnaryFiled(c)
  <2> DEFINE k == Moved(c, "done")
  <2>1. /\ k \in CallState /\ k.pc = "done" /\ k.kind = q.kind /\ k.reader = q.reader /\ k.closes = q.closes
        /\ k.timer = q.timer /\ q.pc = "filing" /\ ~AtRest(q)
    BY <1>0, <1>5 DEF UnaryFiled, Moved, CallState, AtRest
  <2>2. Call(c, k) /\ grpcPage' = grpcPage /\ UNCHANGED alone /\ q.kind = "unary"
    BY <1>0, <1>5 DEF UnaryFiled, Fits
  <2> HIDE DEF k
  <2>3. Fits(k) /\ Agrees(grpcPage, c, k)
    BY <1>0, <2>1, <2>2 DEF Fits, Agrees, PagesInv, PageFits
  <2>4. alone => Stoppable(grpcPage, c, k)
    BY <1>0, <2>1, <2>2 DEF Stoppable, PagesInv, OneAtATime, Fits
  <2> QED
    BY <1>0, <2>1, <2>2, <2>3, <2>4, OneCall DEF Streams1
<1> QED
  BY <1>1, <1>2, <1>3, <1>4, <1>5

\* Server streams.
LEMMA ServerKept ==
  ASSUME PagesInv, NEW c \in GrpcCallIds,
         runGrpcServerStream(c) \/ ServerStreamBegins(c) \/ ServerStreamLast(c)
         \/ ServerStreamEnds(c) \/ ServerStreamCaught(c)
  PROVE  PagesInv'
<1> DEFINE q == grpcCalls[c]
<1>0. /\ q \in CallState /\ grpcPage \in PageState /\ Fits(q) /\ NoGrpc \notin GrpcCallIds
      /\ grpcCalls \in [GrpcCallIds -> CallState]
  BY GrpcCallsAssumption DEF PagesInv
<1>1. CASE runGrpcServerStream(c)
  <2> DEFINE k == [Moved(c, "asked") EXCEPT !.timer = IF grpcCalls[c].timed THEN "armed" ELSE "off"]
             p == [grpcPage EXCEPT !.streaming = TRUE, !.streamCtl = c, !.response = NoGrpc,
                                 !.messages = {}, !.deadline = Deadline(c)]
  <2>1. /\ k \in CallState /\ k.pc = "asked" /\ k.kind = "server" /\ k.reader = q.reader
        /\ k.closes = q.closes /\ k.timer # "closing" /\ ~AtRest(q)
    BY <1>0, <1>1 DEF runGrpcServerStream, CallState, AtRest, Fits, Moved
  <2>2. Call(c, k) /\ grpcPage' = p /\ UNCHANGED alone /\ q.kind = "server" /\ q.pc = "script"
    BY <1>0, <1>1 DEF runGrpcServerStream, Fits, Managed
  <2>3. /\ p \in PageState /\ p.execCtl = grpcPage.execCtl /\ p.streamCtl = c
        /\ p.streamId = grpcPage.streamId /\ p.deadline \in {c, NoGrpc} /\ p.streaming = TRUE
        /\ p.messages = {} /\ p.received = grpcPage.received
    BY <1>0, Ends DEF PageState, Deadline
  <2> HIDE DEF k, p
  <2>4. Fits(k) /\ Agrees(p, c, k)
    BY <1>0, <2>1, <2>2, <2>3 DEF Fits, Agrees, Managed, CallState, PagesInv, PageFits
  <2>5. alone => Stoppable(p, c, k)
    BY <1>0, <2>1, <2>2, <2>3 DEF Stoppable, Managed, CallState, PagesInv, OneAtATime, Fits
  <2> QED
    BY <1>0, <2>1, <2>2, <2>3, <2>4, <2>5, OneCall DEF Streams1, Managed
<1>2. CASE ServerStreamBegins(c)
  <2> DEFINE k == Moved(c, "reading")
  <2>1. /\ k \in CallState /\ k.pc = "reading" /\ k.kind = q.kind /\ k.reader = q.reader
        /\ k.closes = q.closes /\ k.timer = q.timer /\ ~AtRest(q)
    BY <1>0, <1>2 DEF ServerStreamBegins, CallState, AtRest, Fits, Moved
  <2>2. Call(c, k) /\ grpcPage' = grpcPage /\ UNCHANGED alone /\ q.kind = "server" /\ q.pc = "asked"
    BY <1>0, <1>2 DEF ServerStreamBegins, Fits, Managed
  <2>3. grpcPage \in PageState
    BY <1>0
  <2> HIDE DEF k
  <2>4. Fits(k) /\ Agrees(grpcPage, c, k)
    BY <1>0, <2>1, <2>2, <2>3 DEF Fits, Agrees, Managed, CallState, PagesInv, PageFits
  <2>5. alone => Stoppable(grpcPage, c, k)
    BY <1>0, <2>1, <2>2, <2>3 DEF Stoppable, Managed, CallState, PagesInv, OneAtATime, Fits
  <2> QED
    BY <1>0, <2>1, <2>2, <2>3, <2>4, <2>5, OneCall DEF Streams1, Managed
<1>3. CASE ServerStreamLast(c)
  <2> DEFINE k == [Moved(c, "ended") EXCEPT !.timer = "off"]
             p == [StreamOver EXCEPT !.messages = StreamOver.messages \union {c}]
  <2>1. /\ k \in CallState /\ k.pc = "ended" /\ k.kind = q.kind /\ k.reader = q.reader
        /\ k.closes = q.closes /\ k.timer = "off" /\ ~AtRest(q)
    BY <1>0, <1>3 DEF ServerStreamLast, CallState, AtRest, Fits, Moved
  <2>2. Call(c, k) /\ grpcPage' = p /\ UNCHANGED alone /\ q.kind = "server" /\ q.pc = "reading"
    BY <1>0, <1>3 DEF ServerStreamLast, Fits, Managed, GrpcServerStream, serverStream
  <2>3. /\ p \in PageState /\ p.execCtl = grpcPage.execCtl /\ p.streamCtl = NoGrpc
        /\ p.streamId = grpcPage.streamId /\ p.deadline = NoGrpc /\ p.streaming = FALSE
        /\ p.messages = grpcPage.messages \union {c} /\ p.received = grpcPage.received
    BY <1>0, Ends DEF PageState
  <2> HIDE DEF k, p
  <2>4. Fits(k) /\ Agrees(p, c, k)
    BY <1>0, <2>1, <2>2, <2>3 DEF Fits, Agrees, Managed, CallState, PagesInv, PageFits
  <2>5. alone => Stoppable(p, c, k)
    BY <1>0, <2>1, <2>2, <2>3 DEF Stoppable, Managed, CallState, PagesInv, OneAtATime, Fits
  <2> QED
    BY <1>0, <2>1, <2>2, <2>3, <2>4, <2>5, OneCall DEF Streams1, Managed
<1>4. CASE ServerStreamEnds(c)
  <2> DEFINE k == Moved(c, "done")
  <2>1. /\ k \in CallState /\ k.pc = "done" /\ k.kind = q.kind /\ k.reader = q.reader
        /\ k.closes = q.closes /\ k.timer = q.timer /\ ~AtRest(q)
    BY <1>0, <1>4 DEF ServerStreamEnds, CallState, AtRest, Fits, Moved
  <2>2. Call(c, k) /\ grpcPage' = grpcPage /\ UNCHANGED alone /\ q.kind = "server" /\ q.pc = "ended"
    BY <1>0, <1>4 DEF ServerStreamEnds, Fits, Managed
  <2>3. grpcPage \in PageState
    BY <1>0
  <2> HIDE DEF k
  <2>4. Fits(k) /\ Agrees(grpcPage, c, k)
    BY <1>0, <2>1, <2>2, <2>3 DEF Fits, Agrees, Managed, CallState, PagesInv, PageFits
  <2>5. alone => Stoppable(grpcPage, c, k)
    BY <1>0, <2>1, <2>2, <2>3 DEF Stoppable, Managed, CallState, PagesInv, OneAtATime, Fits
  <2> QED
    BY <1>0, <2>1, <2>2, <2>3, <2>4, <2>5, OneCall DEF Streams1, Managed
<1>5. CASE ServerStreamCaught(c)
  <2> DEFINE k == Over(c)
  <2>1. /\ k \in CallState /\ k.pc = "done" /\ k.kind = q.kind /\ k.reader = q.reader
        /\ k.closes = q.closes /\ k.timer = "off" /\ ~AtRest(q)
    BY <1>0, <1>5 DEF ServerStreamCaught, CallState, AtRest, Fits, Over
  <2>2. Call(c, k) /\ grpcPage' = StreamOver /\ UNCHANGED alone /\ q.kind = "server" /\ q.pc \in {"asked", "reading", "ended"}
    BY <1>0, <1>5 DEF ServerStreamCaught, Fits, Managed
  <2>3. grpcPage \in PageState
    BY <1>0
  <2> HIDE DEF k
  <2>4. Fits(k) /\ Agrees(StreamOver, c, k)
    BY <1>0, <2>1, <2>2, <2>3, Ends DEF Fits, Agrees, Managed, CallState, PagesInv, PageFits
  <2>5. alone => Stoppable(StreamOver, c, k)
    BY <1>0, <2>1, <2>2, <2>3, Ends DEF Stoppable, Managed, CallState, PagesInv, OneAtATime, Fits
  <2> QED
    BY <1>0, <2>1, <2>2, <2>3, <2>4, <2>5, Ends, OneCall DEF Streams1, Managed
<1> QED
  BY <1>1, <1>2, <1>3, <1>4, <1>5

\* Managed streams.
LEMMA ManagedKept ==
  ASSUME PagesInv, NEW c \in GrpcCallIds,
         openGrpcClientStream(c) \/ StreamOpened(c) \/ StreamNotOpened(c) \/ ManagedStreamLast(c)
         \/ EventsLost(c) \/ ManagedDeadline(c) \/ ManagedDeadlineDone(c)
  PROVE  PagesInv'
<1> DEFINE q == grpcCalls[c]
<1>0. /\ q \in CallState /\ grpcPage \in PageState /\ Fits(q) /\ NoGrpc \notin GrpcCallIds
      /\ grpcCalls \in [GrpcCallIds -> CallState]
  BY GrpcCallsAssumption DEF PagesInv
<1>1. CASE openGrpcClientStream(c)
  <2> DEFINE k == Moved(c, "opening")
             p == [grpcPage EXCEPT !.streaming = TRUE, !.received = {}, !.deadline = Deadline(c)]
  <2>1. /\ k \in CallState /\ k.pc = "opening" /\ k.kind = q.kind /\ k.reader = q.reader
        /\ k.closes = q.closes /\ k.timer = q.timer /\ ~AtRest(q)
    BY <1>0, <1>1 DEF openGrpcClientStream, CallState, AtRest, Fits, Moved
  <2>2. Call(c, k) /\ grpcPage' = p /\ UNCHANGED alone /\ q.kind \in Managed /\ q.pc = "script"
    BY <1>0, <1>1 DEF openGrpcClientStream, Fits, Managed
  <2>3. /\ p \in PageState /\ p.execCtl = grpcPage.execCtl /\ p.streamCtl = grpcPage.streamCtl
        /\ p.streamId = grpcPage.streamId /\ p.deadline \in {c, NoGrpc} /\ p.streaming = TRUE
        /\ p.messages = grpcPage.messages /\ p.received = {}
    BY <1>0, Ends DEF PageState, Deadline
  <2> HIDE DEF k, p
  <2>4. Fits(k) /\ Agrees(p, c, k)
    BY <1>0, <2>1, <2>2, <2>3 DEF Fits, Agrees, Managed, CallState, PagesInv, PageFits
  <2>5. alone => Stoppable(p, c, k)
    BY <1>0, <2>1, <2>2, <2>3 DEF Stoppable, Managed, CallState, PagesInv, OneAtATime, Fits
  <2> QED
    BY <1>0, <2>1, <2>2, <2>3, <2>4, <2>5, OneCall DEF Streams1, Managed
<1>2. CASE StreamOpened(c)
  <2> DEFINE k == [Moved(c, "open") EXCEPT !.timer = IF grpcCalls[c].timed THEN "armed" ELSE "off",
                                      !.reader = grpcCalls[c].kind = "bidi"]
             p == [grpcPage EXCEPT !.streamId = c, !.streamCtl = c]
  <2>1. /\ k \in CallState /\ k.pc = "open" /\ k.kind = q.kind /\ k.reader \in BOOLEAN
        /\ k.closes = q.closes /\ k.timer # "closing" /\ ~AtRest(q)
    BY <1>0, <1>2 DEF StreamOpened, CallState, AtRest, Fits, Moved, Managed
  <2>2. Call(c, k) /\ grpcPage' = p /\ UNCHANGED alone /\ q.kind \in Managed /\ q.pc = "opening"
    BY <1>0, <1>2 DEF StreamOpened, Fits, Managed
  <2>3. /\ p \in PageState /\ p.execCtl = grpcPage.execCtl /\ p.streamCtl = c
        /\ p.streamId = c /\ p.deadline = grpcPage.deadline /\ p.streaming = grpcPage.streaming
        /\ p.messages = grpcPage.messages /\ p.received = grpcPage.received
    BY <1>0, Ends DEF PageState
  <2> HIDE DEF k, p
  <2>4. Fits(k) /\ Agrees(p, c, k)
    BY <1>0, <2>1, <2>2, <2>3 DEF Fits, Agrees, Managed, CallState, PagesInv, PageFits
  <2>5. alone => Stoppable(p, c, k)
    BY <1>0, <2>1, <2>2, <2>3 DEF Stoppable, Managed, CallState, PagesInv, OneAtATime, Fits
  <2> QED
    BY <1>0, <2>1, <2>2, <2>3, <2>4, <2>5, OneCall DEF Streams1, Managed
<1>3. CASE StreamNotOpened(c)
  <2> DEFINE k == Moved(c, "done")
             p == [grpcPage EXCEPT !.streaming = FALSE, !.deadline = NoGrpc]
  <2>1. /\ k \in CallState /\ k.pc = "done" /\ k.kind = q.kind /\ k.reader = q.reader
        /\ k.closes = q.closes /\ k.timer = q.timer /\ ~AtRest(q)
    BY <1>0, <1>3 DEF StreamNotOpened, CallState, AtRest, Fits, Moved
  <2>2. Call(c, k) /\ grpcPage' = p /\ UNCHANGED alone /\ q.kind \in Managed /\ q.pc = "opening"
    BY <1>0, <1>3 DEF StreamNotOpened, Fits, Managed
  <2>3. /\ p \in PageState /\ p.execCtl = grpcPage.execCtl /\ p.streamCtl = grpcPage.streamCtl
        /\ p.streamId = grpcPage.streamId /\ p.deadline = NoGrpc /\ p.streaming = FALSE
        /\ p.messages = grpcPage.messages /\ p.received = grpcPage.received
    BY <1>0, Ends DEF PageState
  <2> HIDE DEF k, p
  <2>4. Fits(k) /\ Agrees(p, c, k)
    BY <1>0, <2>1, <2>2, <2>3 DEF Fits, Agrees, Managed, CallState, PagesInv, PageFits
  <2>5. alone => Stoppable(p, c, k)
    BY <1>0, <2>1, <2>2, <2>3 DEF Stoppable, Managed, CallState, PagesInv, OneAtATime, Fits
  <2> QED
    BY <1>0, <2>1, <2>2, <2>3, <2>4, <2>5, OneCall DEF Streams1, Managed
<1>4. CASE ManagedStreamLast(c)
  <2> DEFINE k == [Moved(c, "done") EXCEPT !.reader = FALSE, !.timer = IF @ = "armed" THEN "off" ELSE @]
             p == [StreamGone EXCEPT !.received = StreamGone.received \union {c}]
  <2>1. /\ k \in CallState /\ k.pc = "done" /\ k.kind = q.kind /\ k.reader = FALSE
        /\ k.closes = q.closes /\ k.timer \in {q.timer, "off"} /\ ~AtRest(q)
    BY <1>0, <1>4 DEF ManagedStreamLast, CallState, AtRest, Fits, Moved
  <2>2. Call(c, k) /\ grpcPage' = p /\ UNCHANGED alone /\ q.kind \in Managed /\ q.reader
    BY <1>0, <1>4 DEF ManagedStreamLast, Fits, Managed
  <2>3. /\ p \in PageState /\ p.execCtl = grpcPage.execCtl /\ p.streamCtl = NoGrpc
        /\ p.streamId = NoGrpc /\ p.deadline = NoGrpc /\ p.streaming = FALSE
        /\ p.messages = grpcPage.messages /\ p.received = grpcPage.received \union {c}
    BY <1>0, Ends DEF PageState
  <2> HIDE DEF k, p
  <2>4. Fits(k) /\ Agrees(p, c, k)
    BY <1>0, <2>1, <2>2, <2>3 DEF Fits, Agrees, Managed, CallState, PagesInv, PageFits
  <2>5. alone => Stoppable(p, c, k)
    BY <1>0, <2>1, <2>2, <2>3 DEF Stoppable, Managed, CallState, PagesInv, OneAtATime, Fits
  <2> QED
    BY <1>0, <2>1, <2>2, <2>3, <2>4, <2>5, OneCall DEF Streams1, Managed
<1>5. CASE EventsLost(c)
  <2> DEFINE k == [grpcCalls[c] EXCEPT !.reader = FALSE]
  <2>1. /\ k \in CallState /\ k.pc = q.pc /\ k.kind = q.kind /\ k.reader = FALSE
        /\ k.closes = q.closes /\ k.timer = q.timer /\ ~AtRest(q)
    BY <1>0, <1>5 DEF EventsLost, CallState, AtRest, Fits
  <2>2. Call(c, k) /\ grpcPage' = grpcPage /\ UNCHANGED alone /\ q.kind \in Managed /\ q.reader
    BY <1>0, <1>5 DEF EventsLost, Fits, Managed
  <2>3. grpcPage \in PageState
    BY <1>0
  <2> HIDE DEF k
  <2>4. Fits(k) /\ Agrees(grpcPage, c, k)
    BY <1>0, <2>1, <2>2, <2>3 DEF Fits, Agrees, Managed, CallState, PagesInv, PageFits
  <2>5. alone => Stoppable(grpcPage, c, k)
    BY <1>0, <2>1, <2>2, <2>3 DEF Stoppable, Managed, CallState, PagesInv, OneAtATime, Fits
  <2> QED
    BY <1>0, <2>1, <2>2, <2>3, <2>4, <2>5, OneCall DEF Streams1, Managed
<1>6. CASE ManagedDeadline(c)
  <2> DEFINE k == [grpcCalls[c] EXCEPT !.timer = "closing"]
  <2>1. /\ k \in CallState /\ k.pc = q.pc /\ k.kind = q.kind /\ k.reader = q.reader
        /\ k.closes = q.closes /\ k.timer = "closing" /\ ~AtRest(q)
    BY <1>0, <1>6 DEF ManagedDeadline, CallState, AtRest, Fits
  <2>2. Call(c, k) /\ grpcPage' = grpcPage /\ UNCHANGED alone /\ q.kind \in Managed /\ q.timer = "armed"
    BY <1>0, <1>6 DEF ManagedDeadline, Fits, Managed
  <2>3. grpcPage \in PageState
    BY <1>0
  <2> HIDE DEF k
  <2>4. Fits(k) /\ Agrees(grpcPage, c, k)
    BY <1>0, <2>1, <2>2, <2>3 DEF Fits, Agrees, Managed, CallState, PagesInv, PageFits
  <2>5. alone => Stoppable(grpcPage, c, k)
    BY <1>0, <2>1, <2>2, <2>3 DEF Stoppable, Managed, CallState, PagesInv, OneAtATime, Fits
  <2> QED
    BY <1>0, <2>1, <2>2, <2>3, <2>4, <2>5, OneCall DEF Streams1, Managed
<1>7. CASE ManagedDeadlineDone(c)
  <2> DEFINE k == [Over(c) EXCEPT !.reader = FALSE]
  <2>1. /\ k \in CallState /\ k.pc = "done" /\ k.kind = q.kind /\ k.reader = FALSE
        /\ k.closes = q.closes /\ k.timer = "off" /\ ~AtRest(q)
    BY <1>0, <1>7 DEF ManagedDeadlineDone, CallState, AtRest, Fits, Over
  <2>2. Call(c, k) /\ grpcPage' = StreamGone /\ UNCHANGED alone /\ q.kind \in Managed
    BY <1>0, <1>7 DEF ManagedDeadlineDone, Fits, Managed
  <2>3. grpcPage \in PageState
    BY <1>0
  <2> HIDE DEF k
  <2>4. Fits(k) /\ Agrees(StreamGone, c, k)
    BY <1>0, <2>1, <2>2, <2>3, Ends DEF Fits, Agrees, Managed, CallState, PagesInv, PageFits
  <2>5. alone => Stoppable(StreamGone, c, k)
    BY <1>0, <2>1, <2>2, <2>3, Ends DEF Stoppable, Managed, CallState, PagesInv, OneAtATime, Fits
  <2> QED
    BY <1>0, <2>1, <2>2, <2>3, <2>4, <2>5, Ends, OneCall DEF Streams1, Managed
<1> QED
  BY <1>1, <1>2, <1>3, <1>4, <1>5, <1>6, <1>7

\* Clicks on Close Stream that are answered with an error, or not yet answered.
LEMMA ClicksKept ==
  ASSUME PagesInv, NEW c \in GrpcCallIds, closeGrpcStream(c) \/ closeGrpcStreamFailed(c)
  PROVE  PagesInv'
<1> DEFINE q == grpcCalls[c]
<1>0. /\ q \in CallState /\ grpcPage \in PageState /\ Fits(q) /\ MaxCloses \in Nat
      /\ q.kind \in Managed /\ ~AtRest(q) /\ UNCHANGED alone /\ grpcPage' = grpcPage
      /\ q.closes \in Nat /\ q.closes <= MaxCloses
  <2>1. q \in CallState /\ grpcPage \in PageState /\ Fits(q) /\ MaxCloses \in Nat
    BY GrpcCallsAssumption DEF PagesInv
  <2>2. q.pc = "open" \/ q.closes > 0
    BY DEF closeGrpcStream, closeGrpcStreamFailed, PagesInv, PageFits
  <2>3. q.closes \in Nat /\ q.closes <= MaxCloses
    BY <2>1 DEF CallState
  <2> QED
    BY <2>1, <2>2, <2>3 DEF closeGrpcStream, closeGrpcStreamFailed, Fits, AtRest, Managed
<1>1. PICK n \in 0..MaxCloses : Call(c, [q EXCEPT !.closes = n])
  <2>1. CASE closeGrpcStream(c)
    <3>1. q.closes + 1 \in 0..MaxCloses /\ Call(c, [q EXCEPT !.closes = q.closes + 1])
      BY <1>0, <2>1 DEF closeGrpcStream
    <3> QED  BY <3>1
  <2>2. CASE closeGrpcStreamFailed(c)
    <3>1. q.closes - 1 \in 0..MaxCloses /\ Call(c, [q EXCEPT !.closes = q.closes - 1])
      BY <1>0, <2>2 DEF closeGrpcStreamFailed
    <3> QED  BY <3>1
  <2> QED  BY <2>1, <2>2
<1> DEFINE k == [q EXCEPT !.closes = n]
<1>2. k \in CallState /\ k.pc = q.pc /\ k.kind = q.kind /\ k.reader = q.reader /\ k.timer = q.timer
  BY <1>0 DEF CallState
<1> HIDE DEF k
<1>3. Call(c, k)
  BY <1>1 DEF k
<1>4. Fits(k) /\ Agrees(grpcPage, c, k)
  BY <1>0, <1>2 DEF Fits, Agrees, Managed, PagesInv, PageFits
<1>5. alone => Stoppable(grpcPage, c, k)
  BY <1>0, <1>2 DEF Stoppable, Managed, PagesInv, OneAtATime
<1> QED
  BY <1>0, <1>2, <1>3, <1>4, <1>5, OneCall DEF Streams1

\* Messages of streams.
LEMMA MessagesKept ==
  ASSUME PagesInv, NEW c \in GrpcCallIds, StreamMessage(c)
  PROVE  PagesInv'
<1> DEFINE q == grpcCalls[c]
<1>0. /\ q \in CallState /\ grpcPage \in PageState /\ UNCHANGED <<grpcCalls, alone>>
      /\ grpcPage.messages \subseteq GrpcCallIds /\ grpcPage.received \subseteq GrpcCallIds
  BY DEF PagesInv, PageState, StreamMessage
<1>1. CASE q.pc = "reading" /\ grpcPage' = [grpcPage EXCEPT !.messages = grpcPage.messages \union {c}]
  <2>1. /\ grpcPage' \in PageState /\ grpcPage'.messages = grpcPage.messages \union {c}
        /\ grpcPage'.execCtl = grpcPage.execCtl /\ grpcPage'.streamCtl = grpcPage.streamCtl
        /\ grpcPage'.streamId = grpcPage.streamId /\ grpcPage'.deadline = grpcPage.deadline
        /\ grpcPage'.streaming = grpcPage.streaming /\ grpcPage'.received = grpcPage.received
    BY <1>0, <1>1 DEF PageState
  <2>2. alone => grpcPage'.messages \subseteq {c} /\ \A d \in GrpcCallIds : AtRest(grpcCalls[d]) \/ d = c
    BY <1>0, <1>1, <2>1 DEF PagesInv, Fits, OneAtATime, AtRest
  <2>3. alone => OneAtATime'
    BY <1>0, <2>1, <2>2 DEF PagesInv, OneAtATime, AtRest
  <2> QED
    BY <1>0, <2>1, <2>3 DEF PagesInv, PageFits, Fits
<1>2. CASE q.reader /\ grpcPage' = [grpcPage EXCEPT !.received = grpcPage.received \union {c}]
  <2>1. /\ grpcPage' \in PageState /\ grpcPage'.received = grpcPage.received \union {c}
        /\ grpcPage'.execCtl = grpcPage.execCtl /\ grpcPage'.streamCtl = grpcPage.streamCtl
        /\ grpcPage'.streamId = grpcPage.streamId /\ grpcPage'.deadline = grpcPage.deadline
        /\ grpcPage'.streaming = grpcPage.streaming /\ grpcPage'.messages = grpcPage.messages
    BY <1>0, <1>2 DEF PageState
  <2>2. alone => grpcPage'.received \subseteq {c} /\ \A d \in GrpcCallIds : AtRest(grpcCalls[d]) \/ d = c
    BY <1>0, <1>2, <2>1 DEF PagesInv, OneAtATime, AtRest
  <2>3. alone => OneAtATime'
    BY <1>0, <2>1, <2>2 DEF PagesInv, OneAtATime, AtRest
  <2> QED
    BY <1>0, <2>1, <2>3 DEF PagesInv, PageFits, Fits
<1> QED
  BY <1>1, <1>2 DEF StreamMessage

\* A call begins when the page shows nothing running.
LEMMA ExecuteKept ==
  ASSUME PagesInv, NEW c \in GrpcCallIds, NEW way \in {"unary", "server"} \union Managed,
         NEW timed \in BOOLEAN, Execute(c, way, timed)
  PROVE  PagesInv'
<1> DEFINE k == [Unused EXCEPT !.pc = "script", !.kind = way, !.timed = timed]
<1>1. /\ k \in CallState /\ k.pc = "script" /\ k.timer = "off" /\ ~k.reader /\ k.closes = 0
  <2> DEFINE k1 == [Unused EXCEPT !.pc = "script"]
             k2 == [k1 EXCEPT !.kind = way]
             k3 == [k2 EXCEPT !.timed = timed]
  <2>1. k1 \in CallState /\ k1.pc = "script" /\ k1.timer = "off" /\ ~k1.reader /\ k1.closes = 0
    <3>1. 0 \in 0..MaxCloses
      BY GrpcCallsAssumption
    <3>2. /\ Unused \in CallState /\ Unused.timer = "off" /\ Unused.reader = FALSE /\ Unused.closes = 0
      BY <3>1 DEF Unused, CallState
    <3> QED
      BY <3>2 DEF CallState
  <2> HIDE DEF k1
  <2>2. k2 \in CallState /\ k2.pc = "script" /\ k2.timer = "off" /\ ~k2.reader /\ k2.closes = 0
    BY <2>1 DEF CallState, Managed
  <2> HIDE DEF k2
  <2>3. k3 \in CallState /\ k3.pc = "script" /\ k3.timer = "off" /\ ~k3.reader /\ k3.closes = 0
    BY <2>2 DEF CallState
  <2> QED
    BY <2>3 DEF k1, k2
<1> HIDE DEF k
<1>2. /\ \A d \in GrpcCallIds : grpcCalls'[d] = IF d = c THEN k ELSE grpcCalls[d]
      /\ grpcCalls' \in [GrpcCallIds -> CallState] /\ UNCHANGED grpcPage /\ ~grpcPage.streaming
      /\ grpcCalls[c].pc = "idle" /\ alone' \in BOOLEAN
      /\ alone' => alone /\ \A d \in GrpcCallIds : AtRest(grpcCalls[d])
  BY <1>1 DEF Execute, Call, PagesInv, k
<1>3. Fits(k)
  BY <1>1 DEF Fits
<1>4. PageFits' /\ \A d \in GrpcCallIds : Fits(grpcCalls[d])'
  BY <1>1, <1>2, <1>3 DEF PagesInv, PageFits, Fits
<1>5. alone' => OneAtATime'
  BY <1>1, <1>2 DEF PagesInv, OneAtATime, AtRest
<1> QED
  BY <1>2, <1>4, <1>5 DEF PagesInv

\* What aborting its controller makes of a call.
LEMMA AbortedFacts ==
  ASSUME NEW k \in CallState, Fits(k)
  PROVE  /\ Aborted(k) \in CallState /\ Fits(Aborted(k)) /\ Aborted(k).kind = k.kind /\ Aborted(k).closes = k.closes
         /\ Aborted(k).pc \in {k.pc, "done"} /\ (Aborted(k).reader => k.reader)
         /\ k.kind = "unary" => Aborted(k).pc # "asked"
         /\ k.kind = "server" => Aborted(k).pc \notin {"asked", "reading", "ended"}
         /\ k.kind \in Managed => Aborted(k).pc = k.pc /\ ~Aborted(k).reader
<1> DEFINE a == [k EXCEPT !.pc = "done", !.timer = "off"]
           b == [k EXCEPT !.reader = FALSE]
<1>1. a \in CallState /\ a.kind = k.kind /\ a.closes = k.closes /\ a.pc = "done" /\ a.reader = k.reader /\ a.timer = "off"
  BY DEF CallState
<1>2. b \in CallState /\ b.kind = k.kind /\ b.closes = k.closes /\ b.pc = k.pc /\ ~b.reader /\ b.timer = k.timer
  BY DEF CallState
<1>3. \/ Aborted(k) = a /\ k.kind \in {"unary", "server"}
      \/ Aborted(k) = b /\ k.kind \in Managed
      \/ Aborted(k) = k /\ k.kind = "unary" /\ k.pc # "asked"
      \/ Aborted(k) = k /\ k.kind = "server" /\ k.pc \notin {"asked", "reading", "ended"}
  BY DEF Aborted, CallState, Managed
<1> HIDE DEF a, b
<1> QED
  BY <1>1, <1>2, <1>3 DEF Fits, Managed

\* A deadline and the two stop buttons abort a call and leave the page as its end does.
LEMMA AbortKept ==
  ASSUME PagesInv, \/ \E c \in GrpcCallIds : CallDeadline(c)
                   \/ cancelGrpcStream \/ cancelGrpcExecute
  PROVE  PagesInv'
<1>0. /\ grpcPage \in PageState /\ NoGrpc \notin GrpcCallIds
      /\ grpcCalls \in [GrpcCallIds -> CallState] /\ \A c \in GrpcCallIds : Fits(grpcCalls[c])
      /\ UNCHANGED alone
  BY GrpcCallsAssumption DEF PagesInv, CallDeadline, cancelGrpcStream, cancelGrpcExecute
<1>1. ASSUME NEW c \in GrpcCallIds, grpcCalls' = Abort(c, grpcCalls), ~AtRest(grpcCalls[c]),
             \/ grpcPage' = ExecuteOver /\ grpcCalls[c].kind = "unary"
             \/ grpcPage' = StreamOver /\ grpcCalls[c].kind = "server"
             \/ grpcPage' = StreamOver /\ grpcCalls[c].kind \in Managed /\ grpcCalls[c].pc = "open"
                 /\ grpcPage.streamId = NoGrpc
      PROVE  PagesInv'
  <2> DEFINE q == grpcCalls[c]
             k == Aborted(q)
  <2>1. Call(c, k) /\ q \in CallState /\ Fits(q)
    BY <1>0, <1>1 DEF Call, Abort
  <2>2. /\ k \in CallState /\ Fits(k) /\ k.kind = q.kind /\ k.closes = q.closes
        /\ k.pc \in {q.pc, "done"} /\ (k.reader => q.reader)
        /\ q.kind = "unary" => k.pc # "asked"
        /\ q.kind = "server" => k.pc \notin {"asked", "reading", "ended"}
        /\ q.kind \in Managed => k.pc = q.pc /\ ~k.reader
    BY <2>1, AbortedFacts
  <2> HIDE DEF k
  <2>3. CASE grpcPage' = ExecuteOver /\ q.kind = "unary"
    <3>1. Agrees(ExecuteOver, c, k)
      BY <1>0, <2>1, <2>2, <2>3, Ends DEF Agrees, Fits, PagesInv, PageFits
    <3>2. alone => Stoppable(ExecuteOver, c, k)
      BY <1>0, <2>1, <2>2, <2>3, Ends DEF Stoppable, Fits, PagesInv, OneAtATime
    <3> QED
      BY <1>0, <1>1, <2>1, <2>2, <2>3, <3>1, <3>2, Ends, OneCall DEF Streams1
  <2>4. CASE grpcPage' = StreamOver /\ q.kind # "unary" /\ (q.kind = "server" \/ (q.pc = "open" /\ grpcPage.streamId = NoGrpc))
    <3>1. Agrees(StreamOver, c, k)
      BY <1>0, <2>1, <2>2, <2>4, Ends DEF Agrees, Fits, PagesInv, PageFits
    <3>2. alone => Stoppable(StreamOver, c, k)
      BY <1>0, <2>1, <2>2, <2>4, Ends DEF Stoppable, Fits, Managed, CallState, PagesInv, OneAtATime
    <3> QED
      BY <1>0, <1>1, <2>1, <2>2, <2>4, <3>1, <3>2, Ends, OneCall DEF Streams1
  <2> QED
    BY <1>1, <2>3, <2>4 DEF Managed
<1>2. ASSUME NEW c \in GrpcCallIds, CallDeadline(c) PROVE PagesInv'
  BY <1>0, <1>1, <1>2 DEF CallDeadline, AtRest, CallState, Managed
<1>3. CASE cancelGrpcExecute
  <2>1. grpcPage.execCtl \in GrpcCallIds
    BY <1>0, <1>3 DEF cancelGrpcExecute, PageState
  <2>2. grpcCalls[grpcPage.execCtl].kind = "unary" /\ ~AtRest(grpcCalls[grpcPage.execCtl])
    BY <2>1 DEF PagesInv, PageFits, AtRest
  <2> QED
    BY <1>1, <1>3, <2>1, <2>2 DEF cancelGrpcExecute
<1>4. CASE cancelGrpcStream
  <2>1. CASE grpcPage.streamCtl \in GrpcCallIds
    <3>1. /\ grpcCalls[grpcPage.streamCtl].kind # "unary" /\ ~AtRest(grpcCalls[grpcPage.streamCtl])
          /\ grpcCalls[grpcPage.streamCtl].pc \in {"asked", "reading", "open"}
      BY <2>1 DEF PagesInv, PageFits, AtRest
    <3>2. \/ grpcCalls[grpcPage.streamCtl].kind = "server"
          \/ grpcCalls[grpcPage.streamCtl].kind \in Managed /\ grpcCalls[grpcPage.streamCtl].pc = "open"
      BY <1>0, <2>1, <3>1 DEF Fits, Managed, CallState
    <3> QED
      BY <1>1, <1>4, <2>1, <3>1, <3>2 DEF cancelGrpcStream
  <2>2. CASE grpcPage.streamCtl = NoGrpc
    <3>1. grpcCalls' = grpcCalls /\ grpcPage' = StreamOver
      BY <1>0, <1>4, <2>2 DEF cancelGrpcStream, Abort
    <3>2. PageFits' /\ \A c \in GrpcCallIds : Fits(grpcCalls[c])'
      <4>1. \A c \in GrpcCallIds : Fits(grpcCalls[c])'
        BY <1>0, <3>1 DEF Fits
      <4>2. /\ grpcPage'.execCtl = grpcPage.execCtl /\ grpcPage'.streamCtl = NoGrpc
            /\ grpcPage'.streamId = grpcPage.streamId /\ grpcPage'.deadline = NoGrpc /\ grpcPage'.streaming = FALSE
        BY <1>0, <3>1, Ends
      <4>3. PageFits'
        BY <1>0, <3>1, <4>2 DEF PagesInv, PageFits
      <4> QED  BY <4>1, <4>3
    <3>3. alone => OneAtATime'
      BY <1>0, <2>2, <3>1, Ends DEF PagesInv, OneAtATime, AtRest
    <3> QED
      BY <1>0, <3>1, <3>2, <3>3, Ends DEF PagesInv
  <2> QED
    BY <1>0, <2>1, <2>2 DEF PageState
<1> QED
  BY <1>2, <1>3, <1>4

\* The answer to Close Stream ends the stream that was closed, and the one
\* that the page shows by then.
LEMMA ClosedKept ==
  ASSUME PagesInv, NEW c \in GrpcCallIds, NEW body \in BOOLEAN, closeGrpcStreamAnswered(c, body)
  PROVE  PagesInv'
<1> DEFINE q == grpcCalls[c]
           n == q.closes - 1
           last == IF q.pc = "open" THEN "done" ELSE q.pc
           k1 == [q EXCEPT !.closes = n]
           k == [k1 EXCEPT !.pc = last]
           p == [StreamGone EXCEPT !.response = IF body THEN c ELSE NoGrpc]
           ctl == grpcPage.streamCtl
<1>0. /\ grpcPage \in PageState /\ NoGrpc \notin GrpcCallIds /\ q \in CallState
      /\ grpcCalls \in [GrpcCallIds -> CallState] /\ \A d \in GrpcCallIds : Fits(grpcCalls[d])
      /\ UNCHANGED alone /\ MaxCloses \in Nat /\ q.closes > 0 /\ ctl \in GrpcCallIds \union {NoGrpc}
  BY GrpcCallsAssumption DEF PagesInv, PageState, closeGrpcStreamAnswered
<1>1. /\ p \in PageState /\ p.streaming = FALSE /\ p.streamCtl = NoGrpc /\ p.deadline = NoGrpc
      /\ p.execCtl = grpcPage.execCtl /\ p.streamId = NoGrpc
      /\ p.messages = grpcPage.messages /\ p.received = grpcPage.received
  BY <1>0, Ends DEF PageState
<1>2. grpcPage' = p /\ grpcCalls' = Abort(ctl, [grpcCalls EXCEPT ![c] = k])
  BY <1>0 DEF closeGrpcStreamAnswered, CallState
<1>3. n \in 0..MaxCloses /\ q.kind \in Managed /\ ~AtRest(q)
  <2>1. q.closes \in 0..MaxCloses
    BY <1>0 DEF CallState
  <2> QED
    BY <1>0, <2>1 DEF Fits, AtRest, Managed
<1>4. k \in CallState /\ k.kind = q.kind /\ k.reader = q.reader /\ k.pc = last
  <2>1. k1 \in CallState /\ k1.kind = q.kind /\ k1.reader = q.reader
    BY <1>0, <1>3 DEF CallState
  <2>2. last \in {q.pc, "done"}
    OBVIOUS
  <2> HIDE DEF k1, last
  <2> QED
    BY <1>0, <2>1, <2>2 DEF CallState
<1>5. last # "open" /\ (last = q.pc \/ last = "done")
  OBVIOUS
<1> HIDE DEF p, k, last
<1>6. Fits(k)
  BY <1>0, <1>3, <1>4, <1>5 DEF Fits, Managed
<1>7. ASSUME NEW a \in CallState, Fits(a), a.kind = q.kind, a.pc = last, a.reader => q.reader, Call(c, a)
      PROVE  PagesInv'
  <2>1. Agrees(p, c, a)
    BY <1>0, <1>1, <1>3, <1>7 DEF Agrees, PagesInv, PageFits, Managed
  <2>2. alone => Stoppable(p, c, a)
    BY <1>0, <1>1, <1>3, <1>5, <1>7 DEF Stoppable, PagesInv, OneAtATime, Managed
  <2> QED
    BY <1>0, <1>1, <1>2, <1>3, <1>7, <2>1, <2>2, OneCall
<1>8. CASE ctl = NoGrpc
  <2>1. Call(c, k)
    BY <1>0, <1>2, <1>8 DEF Abort, Call
  <2> QED
    BY <1>4, <1>6, <1>7, <2>1
<1>9. CASE ctl = c
  <2>1. Call(c, Aborted(k))
    BY <1>0, <1>2, <1>9 DEF Abort, Call
  <2>2. Aborted(k) \in CallState /\ Fits(Aborted(k)) /\ Aborted(k).kind = k.kind /\ Aborted(k).pc = k.pc /\ ~Aborted(k).reader
    BY <1>3, <1>4, <1>6, AbortedFacts
  <2> QED
    BY <1>4, <1>7, <2>1, <2>2
<1>10. CASE ctl \in GrpcCallIds /\ ctl # c
  <2> DEFINE a == Aborted(grpcCalls[ctl])
  <2>1. \A d \in GrpcCallIds : grpcCalls'[d] = IF d = c THEN k ELSE IF d = ctl THEN a ELSE grpcCalls[d]
    BY <1>0, <1>2, <1>10 DEF Abort
  <2>2. grpcCalls[ctl].kind # "unary" /\ ~AtRest(grpcCalls[ctl]) /\ grpcCalls[ctl] \in CallState /\ Fits(grpcCalls[ctl])
    BY <1>0, <1>10 DEF PagesInv, PageFits, AtRest
  <2>3. a \in CallState /\ Fits(a)
    BY <2>2, AbortedFacts
  <2>4. ~alone
    BY <1>3, <1>10, <2>2 DEF PagesInv, OneAtATime
  <2> HIDE DEF a
  <2>5. grpcCalls' \in [GrpcCallIds -> CallState]
    <3>1. grpcCalls' = [d \in GrpcCallIds |-> grpcCalls'[d]]
      BY <1>2 DEF Abort
    <3> QED  BY <1>0, <1>4, <2>1, <2>3, <3>1
  <2>6. PageFits' /\ \A d \in GrpcCallIds : Fits(grpcCalls[d])'
    <3>1. \A d \in GrpcCallIds : Fits(grpcCalls[d])'
      BY <1>0, <1>6, <2>1, <2>3 DEF Fits
    <3>2. /\ grpcPage'.execCtl = grpcPage.execCtl /\ grpcPage'.streamCtl = NoGrpc
          /\ grpcPage'.streamId = NoGrpc /\ grpcPage'.deadline = NoGrpc /\ grpcPage'.streaming = FALSE
      BY <1>1, <1>2
    <3>3. \A d \in GrpcCallIds : grpcPage.execCtl = d => d # c /\ d # ctl
      BY <1>3, <2>2 DEF PagesInv, PageFits, Managed
    <3>4. \A d \in GrpcCallIds : grpcPage'.execCtl = d => grpcCalls'[d].kind = "unary" /\ grpcCalls'[d].pc \in {"asked", "post"}
      BY <2>1, <3>2, <3>3 DEF PagesInv, PageFits
    <3>5. PageFits'
      BY <1>0, <3>2, <3>4 DEF PageFits
    <3> QED  BY <3>1, <3>5
  <2> QED
    BY <1>0, <1>1, <1>2, <2>4, <2>5, <2>6 DEF PagesInv
<1> QED
  BY <1>0, <1>8, <1>9, <1>10

\* Each handler, answer, message and timer of the page keeps the invariant.
LEMMA PagesKept ==
  ASSUME PagesInv, [GrpcNext]_grpcVars
  PROVE  PagesInv'
<1>1. CASE UNCHANGED grpcVars
  BY <1>1 DEF grpcVars, PagesInv, PageFits, Fits, OneAtATime, AtRest
<1> QED
  BY <1>1, UnaryKept, ServerKept, ManagedKept, ClicksKept, MessagesKept, ExecuteKept, AbortKept, ClosedKept
     DEF GrpcNext, Settle, Begin, Expire

(***************************************************************************)
(* The parts share no state, so that each step is a step of one of them    *)
(* and leaves the others alone.                                            *)
(***************************************************************************)
\* Each part begins in an initial state of its own.
LEMMA PartsInitially == MCInit => Init /\ CallInit /\ GrpcInit
BY DEF MCInit

\* Each step is a step of one part.
LEMMA PartsStep ==
  [MCNext]_<<vars, callVars, grpcVars, area>>
    => [Next]_vars /\ [CallNext]_callVars /\ [GrpcNext]_grpcVars
<1> SUFFICES ASSUME [MCNext]_<<vars, callVars, grpcVars, area>>
             PROVE  [Next]_vars /\ [CallNext]_callVars /\ [GrpcNext]_grpcVars
  OBVIOUS
<1>1. CASE Next /\ UNCHANGED <<callVars, grpcVars>>
  BY <1>1
<1>2. CASE CallNext /\ UNCHANGED <<vars, grpcVars>>
  BY <1>2
<1>3. CASE GrpcNext /\ UNCHANGED <<vars, callVars>>
  BY <1>3
<1>4. CASE UNCHANGED <<vars, callVars, grpcVars>>
  BY <1>4
<1> QED
  BY <1>1, <1>2, <1>3, <1>4 DEF MCNext

\* What the page offers is there: reflection lists every method of a target that
\* serves what its services need, a listed method can be called, the health
\* service is found without reflection, a control of the page belongs to a call
\* that is not over, and a single call can be stopped (handleReflect,
\* resolveGrpcMethodDescriptor, the handlers of useGrpcStream).
THEOREM OffersStayCallable == MCSpec => []OffersAreCallable
<1>1. CallInv /\ PagesInv => OffersAreCallable
  BY CallsAreRight, PagesProperties DEF OffersAreCallable
<1> QED
  BY <1>1, PartsInitially, PartsStep, CallsInitially, CallKept, PagesInitially, PagesKept, PTL DEF MCSpec
=============================================================================
