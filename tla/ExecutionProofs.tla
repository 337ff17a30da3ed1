-------------------------- MODULE ExecutionProofs --------------------------
(***************************************************************************)
(* Proofs about the execution of a request: the sends of the page, for any *)
(* number of clicks and retries, the runs of scripts, for any requests and *)
(* any number of calls of the API, the calls of the executor, for any      *)
(* number of concurrent calls, any settings and any limits, and what of a  *)
(* request goes out, for any headers, authorization and body.              *)
(***************************************************************************)
EXTENDS MCExecution, FiniteSetTheorems, TLAPS

-----------------------------------------------------------------------------
(* The sends of the page.                                                  *)

Waiting == {"probe", "fetch", "backoff"}
Executing == Waiting \union {"file", "show"}

PageRec == [loading : BOOLEAN, streaming : BOOLEAN, loadController : Sends \union {NoSend},
            response : Sends \union {NoSend}, sessionVariables : SUBSET Sends]
SendRec == [pc : UnderWay \union {"idle", "done", "failed"}, mode : {"server", "apq", "browser", "stream"},
            session : SUBSET Sends, tries : Nat, attempt : Nat,
            aborted : BOOLEAN, cut : BOOLEAN, alone : BOOLEAN]

\* Of one send: its requests are its attempts, and the probe; what was cut by
\* the cancel button waits for nothing but its failure.
SendOK(r) ==
  /\ r.pc \in {"idle", "script", "token"} => r.tries = 0 /\ r.attempt = 0
  /\ r.pc = "probe" => r.tries = 1 /\ r.attempt = 0 /\ r.mode = "apq"
  /\ r.pc = "backoff" => r.attempt < MaxRetries /\ r.mode \in {"server", "apq"}
  /\ r.attempt <= MaxRetries
  /\ r.tries <= r.attempt + (IF r.mode = "apq" THEN 2 ELSE 1)
  /\ r.cut => r.aborted /\ r.pc \in Waiting \union {"failed"}

SendTypes ==
  /\ page \in PageRec /\ sends \in [Sends -> SendRec] /\ filed \in Seq(Sends)
  /\ \A s \in Sends : SendOK(sends[s])

\* What the store says is under way is.
BusyIsTrue ==
  /\ page.loading \/ page.loadController # NoSend =>
       \E s \in Sends : sends[s].mode # "stream" /\ sends[s].pc \in Executing
  /\ page.streaming => \E s \in Sends : sends[s].mode = "stream" /\ sends[s].pc \in Executing

\* The history is of the sends that were answered, each of them once.
FiledIsTrue ==
  /\ \A i \in DOMAIN filed : sends[filed[i]].pc \in {"show", "done"}
  /\ \A s \in Sends : sends[s].pc = "show" => \E i \in DOMAIN filed : filed[i] = s
  /\ \A i, j \in DOMAIN filed : filed[i] = filed[j] => i = j
  /\ page.response # NoSend => \E i \in DOMAIN filed : filed[i] = page.response

\* A send that none overlapped is the only one under way.
AloneIsAlone ==
  \A s \in Sends : sends[s].alone /\ sends[s].pc \in UnderWay =>
    /\ \A t \in Sends : sends[t].pc \in UnderWay => t = s
    /\ page.sessionVariables = sends[s].session
    /\ sends[s].pc \in Waiting =>
         IF sends[s].mode = "stream" THEN page.streaming
         ELSE page.loading /\ page.loadController = s

ExecutionInv == SendTypes /\ BusyIsTrue /\ FiledIsTrue /\ AloneIsAlone

\* A page that was just opened.
LEMMA ExecutionInitial == ExecutionInit => ExecutionInv
<1> SUFFICES ASSUME ExecutionInit PROVE ExecutionInv
  OBVIOUS
<1> DEFINE new == [pc |-> "idle", mode |-> "server", session |-> {}, tries |-> 0, attempt |-> 0,
                   aborted |-> FALSE, cut |-> FALSE, alone |-> TRUE]
<1>1. new \in SendRec /\ SendOK(new) /\ new.pc = "idle"
  BY SendsAssumption DEF SendRec, SendOK
<1>2. page \in PageRec /\ page.loading = FALSE /\ page.streaming = FALSE
      /\ page.loadController = NoSend /\ page.response = NoSend
  BY DEF ExecutionInit, PageRec
<1>3. filed = <<>> /\ filed \in Seq(Sends) /\ DOMAIN filed = {}
  BY DEF ExecutionInit
<1>4. sends = [s \in Sends |-> new]
  BY DEF ExecutionInit
<1> HIDE DEF new
<1>5. SendTypes
  BY <1>1, <1>2, <1>3, <1>4 DEF SendTypes
<1>6. \A s \in Sends : sends[s].pc = "idle"
  BY <1>1, <1>4
<1>7. FiledIsTrue
  BY <1>2, <1>3, <1>6 DEF FiledIsTrue
<1>8. BusyIsTrue /\ AloneIsAlone
  BY <1>2, <1>6 DEF BusyIsTrue, AloneIsAlone, UnderWay
<1> QED
  BY <1>5, <1>7, <1>8 DEF ExecutionInv

\* A send goes on, or is cancelled, and the page and the history stay.
LEMMA QuietStep ==
  ASSUME ExecutionInv, NEW s \in Sends, NEW r \in SendRec, SendOK(r),
         sends' = [sends EXCEPT ![s] = r], page' = page, filed' = filed,
         r.mode = sends[s].mode, r.alone = sends[s].alone, r.session = sends[s].session,
         r.pc \in UnderWay <=> sends[s].pc \in UnderWay,
         r.pc \in Executing <=> sends[s].pc \in Executing,
         r.pc \in Waiting => sends[s].pc \in Waiting,
         r.pc = "show" <=> sends[s].pc = "show", r.pc = "done" <=> sends[s].pc = "done"
  PROVE  ExecutionInv'
<1>1. \A q \in Sends : sends'[q] = IF q = s THEN r ELSE sends[q]
  BY DEF ExecutionInv, SendTypes
<1>2. SendTypes'
  BY <1>1 DEF ExecutionInv, SendTypes
<1>3. BusyIsTrue'
  BY <1>1 DEF ExecutionInv, BusyIsTrue
<1>4. FiledIsTrue'
  <2>1. filed \in Seq(Sends)
    BY DEF ExecutionInv, SendTypes
  <2>2. \A i \in DOMAIN filed : filed[i] \in Sends
    BY <2>1
  <2> QED
    BY <1>1, <2>2 DEF ExecutionInv, FiledIsTrue
<1>5. AloneIsAlone'
  BY <1>1 DEF ExecutionInv, AloneIsAlone
<1> QED
  BY <1>2, <1>3, <1>4, <1>5 DEF ExecutionInv

\* What the catch clauses leave of the page.
LEMMA EndedFacts ==
  ASSUME page \in PageRec, NEW streamed \in BOOLEAN
  PROVE  /\ Ended(streamed) \in PageRec
         /\ streamed => /\ ~Ended(streamed).streaming /\ Ended(streamed).loading = page.loading
                        /\ Ended(streamed).loadController = page.loadController
         /\ ~streamed => /\ ~Ended(streamed).loading /\ Ended(streamed).loadController = NoSend
                         /\ Ended(streamed).streaming = page.streaming
         /\ Ended(streamed).response = page.response
         /\ Ended(streamed).sessionVariables = page.sessionVariables
BY DEF Ended, PageRec

\* A send ends, in a failure or in what is shown: only what the store says of
\* its own kind is reset.
LEMMA EndStep ==
  ASSUME ExecutionInv, NEW s \in Sends, NEW pc \in {"failed", "done"},
         sends[s].pc \in Executing, sends' = [sends EXCEPT ![s].pc = pc], filed' = filed,
         page' \in PageRec, pc = "done" => sends[s].pc = "show" /\ ~sends[s].cut,
         pc = "failed" => sends[s].pc # "show",
         page'.loading = Ended(sends[s].mode = "stream").loading,
         page'.streaming = Ended(sends[s].mode = "stream").streaming,
         page'.loadController = Ended(sends[s].mode = "stream").loadController,
         page'.response = IF pc = "done" THEN s ELSE page.response
  PROVE  ExecutionInv'
<1> DEFINE r == [sends[s] EXCEPT !.pc = pc]
<1>1. sends[s] \in SendRec /\ SendOK(sends[s]) /\ page \in PageRec
  BY DEF ExecutionInv, SendTypes
<1>2. r \in SendRec /\ r.pc = pc /\ r.mode = sends[s].mode /\ SendOK(r)
  BY <1>1 DEF SendRec, SendOK, Executing, Waiting
<1>3. \A q \in Sends : sends'[q] = IF q = s THEN r ELSE sends[q]
  BY DEF ExecutionInv, SendTypes
<1> HIDE DEF r
<1>4. SendTypes'
  BY <1>2, <1>3 DEF ExecutionInv, SendTypes
<1>5. BusyIsTrue'
  <2>1. CASE sends[s].mode = "stream"
    BY <1>1, <1>2, <1>3, <2>1, EndedFacts DEF ExecutionInv, BusyIsTrue
  <2>2. CASE sends[s].mode # "stream"
    <3>1. ~page'.loading /\ page'.loadController = NoSend /\ page'.streaming = page.streaming
      BY <1>1, <2>2, EndedFacts
    <3> QED
      BY <1>2, <1>3, <2>2, <3>1 DEF ExecutionInv, BusyIsTrue
  <2> QED
    BY <2>1, <2>2
<1>6. FiledIsTrue'
  <2>1. \A i \in DOMAIN filed : filed[i] \in Sends
    BY DEF ExecutionInv, SendTypes
  <2>2. \A i \in DOMAIN filed : filed[i] = s => pc = "done"
    BY <1>1 DEF ExecutionInv, FiledIsTrue, Executing, Waiting
  <2>3. pc = "done" => \E i \in DOMAIN filed : filed[i] = s
    BY DEF ExecutionInv, FiledIsTrue
  <2> QED
    BY <1>2, <1>3, <2>1, <2>2, <2>3 DEF ExecutionInv, FiledIsTrue
<1>7. AloneIsAlone'
  BY <1>2, <1>3 DEF ExecutionInv, AloneIsAlone, UnderWay, Executing, Waiting
<1> QED
  BY <1>4, <1>5, <1>6, <1>7 DEF ExecutionInv

\* The click: every send under way is now overlapped.
LEMMA ClickStep ==
  ASSUME ExecutionInv, NEW s \in Sends, handleSend(s)
  PROVE  ExecutionInv'
<1>1. /\ sends \in [Sends -> SendRec] /\ page \in PageRec /\ filed \in Seq(Sends)
      /\ sends[s].pc = "idle" /\ ~page.loading /\ ~page.streaming
      /\ page' = page /\ filed' = filed
  BY DEF ExecutionInv, SendTypes, handleSend
<1>2. PICK mode \in {"server", "apq", "browser", "stream"} :
        sends' = [t \in Sends |->
          IF t = s
          THEN [sends[s] EXCEPT !.pc = "script", !.mode = mode, !.session = page.sessionVariables,
                                !.alone = ~\E u \in Sends : Active(u)]
          ELSE [sends[t] EXCEPT !.alone = @ /\ ~Active(t)]]
  BY DEF handleSend
<1>3. /\ sends'[s].pc = "script" /\ sends'[s].session = page.sessionVariables
      /\ sends'[s].alone = ~\E u \in Sends : sends[u].pc \in UnderWay
      /\ sends'[s] \in SendRec /\ SendOK(sends'[s])
  <2>1. sends[s] \in SendRec /\ SendOK(sends[s])
    BY <1>1 DEF ExecutionInv, SendTypes
  <2> DEFINE a == ~\E u \in Sends : Active(u)
  <2>2. a \in BOOLEAN /\ a = ~\E u \in Sends : sends[u].pc \in UnderWay
    BY DEF Active
  <2>3. sends'[s] = [sends[s] EXCEPT !.pc = "script", !.mode = mode, !.session = page.sessionVariables,
                                     !.alone = a]
    BY <1>2
  <2> HIDE DEF a
  <2>4. page.sessionVariables \in SUBSET Sends
    BY <1>1 DEF PageRec
  <2>5. sends'[s] \in SendRec
    BY <2>1, <2>2, <2>3, <2>4 DEF SendRec, UnderWay
  <2>6. /\ sends'[s].pc = "script" /\ sends'[s].session = page.sessionVariables
        /\ sends'[s].alone = a /\ sends'[s].tries = sends[s].tries
        /\ sends'[s].attempt = sends[s].attempt /\ sends'[s].cut = sends[s].cut
    BY <2>1, <2>3 DEF SendRec
  <2>7. SendOK(sends'[s])
    BY <1>1, <2>1, <2>5, <2>6, SendsAssumption DEF SendOK, Waiting, SendRec
  <2> QED
    BY <2>2, <2>5, <2>6, <2>7
<1>4. ASSUME NEW t \in Sends, t # s
      PROVE  /\ sends'[t] \in SendRec /\ SendOK(sends'[t])
             /\ sends'[t].pc = sends[t].pc /\ sends'[t].mode = sends[t].mode
             /\ sends'[t].alone => sends[t].pc \notin UnderWay
  <2>1. sends[t] \in SendRec /\ SendOK(sends[t])
    BY DEF ExecutionInv, SendTypes
  <2>2. sends'[t] = [sends[t] EXCEPT !.alone = sends[t].alone /\ ~(sends[t].pc \in UnderWay)]
    BY <1>2, <1>4, <2>1 DEF Active, SendRec
  <2>3. /\ sends'[t].alone = (sends[t].alone /\ ~(sends[t].pc \in UnderWay))
        /\ sends'[t] \in SendRec
    BY <2>1, <2>2 DEF SendRec
  <2>4. SendOK(sends'[t])
    BY <2>1, <2>2 DEF SendOK, SendRec
  <2> QED
    BY <2>1, <2>2, <2>3, <2>4 DEF SendRec
<1>5. SendTypes'
  BY <1>1, <1>2, <1>3, <1>4 DEF SendTypes
<1>6. BusyIsTrue'
  BY <1>1, <1>4 DEF ExecutionInv, BusyIsTrue, Executing, Waiting
<1>7. FiledIsTrue'
  <2>1. \A i \in DOMAIN filed : filed[i] \in Sends
    BY <1>1
  <2>2. \A i \in DOMAIN filed : filed[i] # s
    BY <1>1 DEF ExecutionInv, FiledIsTrue
  <2> QED
    BY <1>1, <1>3, <1>4, <2>1, <2>2 DEF ExecutionInv, FiledIsTrue
<1>8. AloneIsAlone'
  BY <1>1, <1>3, <1>4 DEF AloneIsAlone, Waiting, UnderWay
<1> QED
  BY <1>5, <1>6, <1>7, <1>8 DEF ExecutionInv

\* The execution begins: the store says so, and a buffered one can be cancelled.
LEMMA BeginStep ==
  ASSUME ExecutionInv, NEW s \in Sends, BeginExecution(s)
  PROVE  ExecutionInv'
<1> DEFINE streamed == sends[s].mode = "stream"
           r == [sends[s] EXCEPT !.pc = IF sends[s].mode = "apq" THEN "probe" ELSE "fetch", !.tries = 1]
<1>1. /\ sends[s] \in SendRec /\ SendOK(sends[s]) /\ page \in PageRec /\ filed' = filed
      /\ sends[s].pc = "token"
  BY DEF ExecutionInv, SendTypes, BeginExecution
<1>2. /\ r \in SendRec /\ r.pc = (IF sends[s].mode = "apq" THEN "probe" ELSE "fetch") /\ SendOK(r)
      /\ r.mode = sends[s].mode /\ r.alone = sends[s].alone /\ r.session = sends[s].session
  <2>1. r \in SendRec
    BY <1>1 DEF SendRec, UnderWay
  <2>2. /\ r.pc = (IF sends[s].mode = "apq" THEN "probe" ELSE "fetch") /\ r.tries = 1
        /\ r.mode = sends[s].mode /\ r.alone = sends[s].alone /\ r.session = sends[s].session
        /\ r.attempt = sends[s].attempt /\ r.cut = sends[s].cut
    BY <1>1 DEF SendRec
  <2>3. sends[s].attempt = 0 /\ ~sends[s].cut
    BY <1>1 DEF SendOK, Waiting
  <2> HIDE DEF r
  <2>4. SendOK(r)
    BY <2>1, <2>2, <2>3, SendsAssumption DEF SendOK
  <2> QED
    BY <2>1, <2>2, <2>4
<1>3. \A q \in Sends : sends'[q] = IF q = s THEN r ELSE sends[q]
  BY DEF ExecutionInv, SendTypes, BeginExecution
<1>4. sends' \in [Sends -> SendRec]
  BY <1>2, <1>3 DEF ExecutionInv, SendTypes, BeginExecution
<1>5. /\ page' \in PageRec /\ page'.response = NoSend /\ page'.sessionVariables = page.sessionVariables
      /\ streamed => page'.streaming /\ ~page'.loading /\ page'.loadController = page.loadController
      /\ ~streamed => page'.loading /\ page'.loadController = s /\ page'.streaming = page.streaming
  BY <1>1 DEF BeginExecution, runStreamingRequest, runBufferedRequest, PageRec
<1> HIDE DEF r
<1>6. SendTypes'
  BY <1>1, <1>2, <1>3, <1>4, <1>5 DEF ExecutionInv, SendTypes
<1>7. r.pc \in Waiting /\ r.pc \in Executing /\ sends[s].pc \notin Executing
  BY <1>1, <1>2 DEF Waiting, Executing
<1>8. BusyIsTrue'
  BY <1>2, <1>3, <1>5, <1>7 DEF ExecutionInv, BusyIsTrue
<1>9. FiledIsTrue'
  <2>1. \A i \in DOMAIN filed : filed[i] \in Sends
    BY DEF ExecutionInv, SendTypes
  <2>2. \A i \in DOMAIN filed : filed[i] # s
    BY <1>1 DEF ExecutionInv, FiledIsTrue
  <2> QED
    BY <1>1, <1>2, <1>3, <1>5, <2>1, <2>2 DEF ExecutionInv, FiledIsTrue
<1>10. AloneIsAlone'
  BY <1>1, <1>2, <1>3, <1>5 DEF ExecutionInv, AloneIsAlone, UnderWay
<1> QED
  BY <1>6, <1>8, <1>9, <1>10 DEF ExecutionInv

\* An answer is added to the history.
LEMMA FileStep ==
  ASSUME ExecutionInv, NEW s \in Sends, sends[s].pc = "file",
         filed' = Append(filed, s), sends' = [sends EXCEPT ![s].pc = "show"], page' = page
  PROVE  ExecutionInv'
<1> DEFINE r == [sends[s] EXCEPT !.pc = "show"]
<1>1. /\ sends[s] \in SendRec /\ SendOK(sends[s]) /\ filed \in Seq(Sends)
  BY DEF ExecutionInv, SendTypes
<1>2. /\ r \in SendRec /\ r.pc = "show" /\ SendOK(r)
      /\ r.mode = sends[s].mode /\ r.alone = sends[s].alone /\ r.session = sends[s].session
  BY <1>1 DEF SendRec, SendOK, UnderWay, Waiting
<1>3. \A q \in Sends : sends'[q] = IF q = s THEN r ELSE sends[q]
  BY DEF ExecutionInv, SendTypes
<1>4. /\ filed' \in Seq(Sends) /\ DOMAIN filed' = 1..(Len(filed) + 1) /\ filed'[Len(filed) + 1] = s
      /\ \A i \in DOMAIN filed : filed'[i] = filed[i] /\ i \in DOMAIN filed' /\ filed[i] \in Sends
      /\ \A i \in DOMAIN filed' : i \in DOMAIN filed \/ i = Len(filed) + 1
      /\ Len(filed) + 1 \in DOMAIN filed'
  BY <1>1
<1> HIDE DEF r
<1>5. SendTypes'
  BY <1>2, <1>3, <1>4 DEF ExecutionInv, SendTypes
<1>6. BusyIsTrue'
  BY <1>2, <1>3 DEF ExecutionInv, BusyIsTrue, Executing
<1>7. FiledIsTrue'
  <2>1. \A i \in DOMAIN filed : filed[i] # s
    BY DEF ExecutionInv, FiledIsTrue
  <2>2. \A i \in DOMAIN filed' : sends'[filed'[i]].pc \in {"show", "done"}
    BY <1>2, <1>3, <1>4, <2>1 DEF ExecutionInv, FiledIsTrue
  <2>3. \A i, j \in DOMAIN filed' : filed'[i] = filed'[j] => i = j
    BY <1>4, <2>1 DEF ExecutionInv, FiledIsTrue
  <2>4. \A q \in Sends : sends'[q].pc = "show" => \E i \in DOMAIN filed' : filed'[i] = q
    BY <1>2, <1>3, <1>4 DEF ExecutionInv, FiledIsTrue
  <2>5. page.response # NoSend => \E i \in DOMAIN filed' : filed'[i] = page.response
    BY <1>4 DEF ExecutionInv, FiledIsTrue
  <2> QED
    BY <2>2, <2>3, <2>4, <2>5 DEF FiledIsTrue
<1>8. AloneIsAlone'
  BY <1>2, <1>3 DEF ExecutionInv, AloneIsAlone, UnderWay, Waiting
<1> QED
  BY <1>5, <1>6, <1>7, <1>8 DEF ExecutionInv

\* A cut, a retry or an answer: the send goes on among the ones that execute.
LEMMA ProgressStep ==
  ASSUME ExecutionInv, NEW s \in Sends, Progress(s)
  PROVE  ExecutionInv'
<1>0. /\ sends[s] \in SendRec /\ SendOK(sends[s]) /\ page \in PageRec
      /\ sends \in [Sends -> SendRec]
  BY DEF ExecutionInv, SendTypes
<1> USE SendsAssumption
<1>1. ASSUME NEW pc \in {"token", "backoff", "file"}, Move(s, pc), page' = page, filed' = filed,
             \/ sends[s].pc = "script" /\ pc = "token"
             \/ sends[s].pc = "fetch" /\ pc = "backoff" /\ sends[s].attempt < MaxRetries
                /\ sends[s].mode \in {"server", "apq"}
             \/ sends[s].pc \in {"probe", "fetch"} /\ pc = "file" /\ ~sends[s].aborted
      PROVE  ExecutionInv'
  <2> DEFINE r == [sends[s] EXCEPT !.pc = pc]
  <2>1. /\ r \in SendRec /\ r.pc = pc /\ SendOK(r)
        /\ r.mode = sends[s].mode /\ r.alone = sends[s].alone /\ r.session = sends[s].session
    BY <1>0, <1>1 DEF SendRec, SendOK, UnderWay, Waiting
  <2>2. sends' = [sends EXCEPT ![s] = r]
    BY <1>1 DEF Move
  <2> HIDE DEF r
  <2>3. /\ r.pc \in UnderWay <=> sends[s].pc \in UnderWay
        /\ r.pc \in Executing <=> sends[s].pc \in Executing
        /\ r.pc \in Waiting => sends[s].pc \in Waiting
        /\ r.pc # "show" /\ sends[s].pc # "show" /\ r.pc # "done" /\ sends[s].pc # "done"
    BY <1>1, <2>1 DEF UnderWay, Executing, Waiting
  <2> QED
    BY <1>1, <2>1, <2>2, <2>3, QuietStep
<1>2. ASSUME NEW n \in {0, 1}, page' = page, filed' = filed, sends[s].attempt + n <= MaxRetries,
             sends' = [sends EXCEPT ![s] = [sends[s] EXCEPT !.pc = "fetch", !.tries = @ + 1, !.attempt = @ + n]],
             (sends[s].pc = "probe" /\ n = 0) \/ (sends[s].pc = "backoff" /\ n = 1)
      PROVE  ExecutionInv'
  <2> DEFINE r == [sends[s] EXCEPT !.pc = "fetch", !.tries = @ + 1, !.attempt = @ + n]
  <2>1. /\ r.pc = "fetch" /\ r.tries = sends[s].tries + 1 /\ r.attempt = sends[s].attempt + n
        /\ r.mode = sends[s].mode /\ r.alone = sends[s].alone /\ r.session = sends[s].session
        /\ r.cut = sends[s].cut /\ r.aborted = sends[s].aborted
    BY <1>0 DEF SendRec
  <2>2. r \in SendRec
    <3> DEFINE tried == sends[s].tries + 1
               attempt == sends[s].attempt + n
    <3>1. tried \in Nat /\ attempt \in Nat
      BY <1>0 DEF SendRec
    <3>2. r = [sends[s] EXCEPT !.pc = "fetch", !.tries = tried, !.attempt = attempt]
      OBVIOUS
    <3> HIDE DEF tried, attempt
    <3> QED
      BY <1>0, <3>1, <3>2 DEF SendRec, UnderWay
  <2>3. sends' = [sends EXCEPT ![s] = r]
    BY <1>2
  <2> HIDE DEF r
  <2>4. SendOK(r)
    BY <1>0, <1>2, <2>1 DEF SendOK, Waiting, SendRec
  <2>5. /\ r.pc \in UnderWay <=> sends[s].pc \in UnderWay
        /\ r.pc \in Executing <=> sends[s].pc \in Executing
        /\ r.pc \in Waiting => sends[s].pc \in Waiting
        /\ r.pc # "show" /\ sends[s].pc # "show" /\ r.pc # "done" /\ sends[s].pc # "done"
    BY <1>2, <2>1 DEF UnderWay, Executing, Waiting
  <2> QED
    BY <1>2, <2>1, <2>2, <2>3, <2>4, <2>5, QuietStep
<1>3. ASSUME ExecutionFails(s), sends[s].pc \in {"probe", "fetch", "backoff", "file"}
      PROVE  ExecutionInv'
  <2>1. /\ sends' = [sends EXCEPT ![s].pc = "failed"] /\ filed' = filed
        /\ page' = Ended(sends[s].mode = "stream")
    BY <1>3 DEF ExecutionFails, Move
  <2>2. page' \in PageRec /\ page'.response = page.response
    BY <1>0, <2>1, EndedFacts
  <2>3. sends[s].pc \in Executing /\ sends[s].pc # "show"
    BY <1>3 DEF Executing, Waiting
  <2> DEFINE pc == "failed"
  <2>4. pc \in {"failed", "done"} /\ pc # "done" /\ sends' = [sends EXCEPT ![s].pc = pc]
    BY <2>1
  <2> HIDE DEF pc
  <2> QED
    BY <2>1, <2>2, <2>3, <2>4, EndStep
<1>4. CASE resolveWithPreRequestScript(s)
  BY <1>1, <1>4 DEF resolveWithPreRequestScript
<1>5. CASE BeginExecution(s)
  BY <1>5, BeginStep
<1>6. CASE Answer(s)
  BY <1>1, <1>3, <1>6 DEF Answer, Retry
<1>7. CASE ProbeAnswer(s)
  <2>1. CASE sends' = [sends EXCEPT ![s].pc = "fetch", ![s].tries = @ + 1] /\ UNCHANGED <<page, filed>>
    <3>1. sends[s].attempt + 0 = sends[s].attempt /\ sends[s].attempt <= MaxRetries
      BY <1>0 DEF SendRec, SendOK
    <3>2. [sends EXCEPT ![s].pc = "fetch", ![s].tries = @ + 1]
            = [sends EXCEPT ![s] = [sends[s] EXCEPT !.pc = "fetch", !.tries = @ + 1, !.attempt = @ + 0]]
      BY <1>0, <3>1 DEF SendRec
    <3> QED
      BY <1>2, <1>7, <2>1, <3>1, <3>2 DEF ProbeAnswer
  <2> QED
    BY <1>1, <1>3, <1>7, <2>1 DEF ProbeAnswer
<1>8. CASE BackoffOver(s)
  <2>1. CASE sends[s].aborted /\ ExecutionFails(s)
    BY <1>3, <1>8, <2>1 DEF BackoffOver
  <2>2. CASE /\ ~sends[s].aborted /\ UNCHANGED <<page, filed>>
             /\ sends' = [sends EXCEPT ![s].pc = "fetch", ![s].tries = @ + 1, ![s].attempt = @ + 1]
    <3>1. sends[s].pc = "backoff" /\ sends[s].attempt + 1 <= MaxRetries
      BY <1>0, <1>8 DEF BackoffOver, SendOK, SendRec
    <3>2. sends' = [sends EXCEPT ![s] = [sends[s] EXCEPT !.pc = "fetch", !.tries = @ + 1, !.attempt = @ + 1]]
      BY <1>0, <2>2
    <3> QED
      BY <1>2, <2>2, <3>1, <3>2
  <2> QED
    BY <1>8, <2>1, <2>2 DEF BackoffOver
<1>9. CASE Aborted(s)
  BY <1>3, <1>9 DEF Aborted
<1>10. CASE addHistory(s)
  BY <1>3, <1>10, FileStep DEF addHistory, Move
<1>11. CASE finalizeExecution(s)
  <2>1. /\ sends[s].pc = "show" /\ sends' = [sends EXCEPT ![s].pc = "done"] /\ filed' = filed
        /\ page' = [Ended(sends[s].mode = "stream") EXCEPT
                      !.response = s, !.sessionVariables = sends[s].session \union {s}]
    BY <1>11 DEF finalizeExecution, Move
  <2>2. /\ page' \in PageRec /\ page'.response = s
        /\ page'.loading = Ended(sends[s].mode = "stream").loading
        /\ page'.streaming = Ended(sends[s].mode = "stream").streaming
        /\ page'.loadController = Ended(sends[s].mode = "stream").loadController
    <3>1. Ended(sends[s].mode = "stream") \in PageRec /\ sends[s].session \subseteq Sends
      BY <1>0, EndedFacts DEF SendRec
    <3> QED
      BY <2>1, <3>1 DEF PageRec
  <2>3. sends[s].pc \in Executing /\ ~sends[s].cut
    BY <1>0, <2>1 DEF Executing, SendOK, Waiting
  <2> DEFINE pc == "done"
  <2>4. pc \in {"failed", "done"} /\ pc = "done" /\ sends' = [sends EXCEPT ![s].pc = pc]
    BY <2>1
  <2> HIDE DEF pc
  <2> QED
    BY <2>1, <2>2, <2>3, <2>4, EndStep
<1> QED
  BY <1>4, <1>5, <1>6, <1>7, <1>8, <1>9, <1>10, <1>11 DEF Progress

\* The cancel button.
LEMMA CancelStep ==
  ASSUME ExecutionInv, NEW s \in Sends, Cancel(s)
  PROVE  ExecutionInv'
<1> DEFINE r == [sends[s] EXCEPT !.aborted = TRUE, !.cut = sends[s].pc \in {"probe", "fetch", "backoff"}]
<1>1. /\ sends[s] \in SendRec /\ SendOK(sends[s]) /\ page' = page /\ filed' = filed
      /\ sends' = [sends EXCEPT ![s] = r]
  BY DEF ExecutionInv, SendTypes, Cancel
<1>2. /\ r \in SendRec /\ r.pc = sends[s].pc /\ SendOK(r)
      /\ r.mode = sends[s].mode /\ r.alone = sends[s].alone /\ r.session = sends[s].session
  <2> DEFINE b == sends[s].pc \in {"probe", "fetch", "backoff"}
  <2>1. b \in BOOLEAN /\ r = [sends[s] EXCEPT !.aborted = TRUE, !.cut = b]
    OBVIOUS
  <2> HIDE DEF b
  <2>2. /\ r \in SendRec /\ r.pc = sends[s].pc /\ r.aborted = TRUE /\ r.cut = b
        /\ r.mode = sends[s].mode /\ r.alone = sends[s].alone /\ r.session = sends[s].session
        /\ r.tries = sends[s].tries /\ r.attempt = sends[s].attempt
    BY <1>1, <2>1 DEF SendRec
  <2> HIDE DEF r
  <2>3. SendOK(r)
    BY <1>1, <2>2 DEF SendOK, Waiting, b
  <2> QED
    BY <2>2, <2>3
<1> HIDE DEF r
<1> QED
  BY <1>1, <1>2, QuietStep

\* Every step of the page keeps the invariant.
LEMMA ExecutionStep == ExecutionInv /\ [ExecutionNext]_executionVars => ExecutionInv'
<1>1. CASE UNCHANGED executionVars
  BY <1>1 DEF executionVars, ExecutionInv, SendTypes, BusyIsTrue, FiledIsTrue, AloneIsAlone
<1> QED
  BY <1>1, ClickStep, ProgressStep, CancelStep DEF ExecutionNext

\* The part of the property that is about the page.
LEMMA PageFacts ==
  ASSUME ExecutionInv
  PROVE  ExecutionTypeOK /\ ReadyWhenSettled /\ ShownIsFiled /\ AloneIsSafe
<1>1. /\ page \in PageRec /\ sends \in [Sends -> SendRec] /\ filed \in Seq(Sends)
      /\ \A s \in Sends : SendOK(sends[s])
  BY DEF ExecutionInv, SendTypes
<1>2. ExecutionTypeOK
  BY <1>1 DEF ExecutionTypeOK, PageRec, SendRec
<1>3. ReadyWhenSettled
  <2>1. \A s \in Sends : sends[s].pc \in Executing => Active(s)
    BY DEF Active, UnderWay, Executing, Waiting
  <2> QED
    BY <2>1 DEF ReadyWhenSettled, ExecutionInv, BusyIsTrue
<1>4. ShownIsFiled
  <2>1. \A s \in Sends : sends[s].tries <= MaxRetries + (IF sends[s].mode = "apq" THEN 2 ELSE 1)
    <3> TAKE s \in Sends
    <3>1. sends[s] \in SendRec /\ SendOK(sends[s])
      BY <1>1
    <3> QED
      BY <3>1, SendsAssumption DEF SendRec, SendOK
  <2> QED
    BY <2>1 DEF ShownIsFiled, ExecutionInv, FiledIsTrue
<1>5. AloneIsSafe
  BY DEF AloneIsSafe, Active, ExecutionInv, AloneIsAlone, Waiting, UnderWay
<1> QED
  BY <1>2, <1>3, <1>4, <1>5

\* What was cut makes no request and shows no answer.
LEMMA CutStaysCut ==
  ASSUME ExecutionInv, ExecutionNext, NEW s \in Sends, sends[s].cut
  PROVE  sends'[s].tries = sends[s].tries /\ sends'[s].pc \notin {"file", "show", "done"}
<1>1. /\ sends \in [Sends -> SendRec] /\ sends[s] \in SendRec /\ sends[s].aborted
      /\ sends[s].pc \in {"probe", "fetch", "backoff", "failed"}
  BY DEF ExecutionInv, SendTypes, SendOK, Waiting
<1>2. PICK t \in Sends : handleSend(t) \/ Progress(t) \/ Cancel(t)
  BY DEF ExecutionNext
<1>3. CASE t # s
  <2>1. CASE handleSend(t)
    <3>1. sends'[s] = [sends[s] EXCEPT !.alone = sends[s].alone /\ ~Active(s)]
      BY <1>1, <1>3, <2>1 DEF handleSend, SendRec
    <3> QED
      BY <1>1, <3>1 DEF SendRec
  <2>2. CASE Progress(t) \/ Cancel(t)
    <3>1. sends'[s] = sends[s]
      BY <1>1, <1>3, <2>2 DEF Progress, Cancel, Move, resolveWithPreRequestScript, BeginExecution,
           Answer, Retry, ExecutionFails, ProbeAnswer, BackoffOver, Aborted, addHistory, finalizeExecution
    <3> QED
      BY <1>1, <3>1
  <2> QED
    BY <1>2, <2>1, <2>2
<1>4. CASE t = s
  <2>1. ASSUME ExecutionFails(s)
        PROVE  sends'[s].tries = sends[s].tries /\ sends'[s].pc = "failed"
    BY <1>1, <2>1 DEF ExecutionFails, Move, SendRec
  <2>2. ~handleSend(s) /\ ~Cancel(s)
    BY <1>1 DEF handleSend, Cancel
  <2>3. Progress(s) => ExecutionFails(s)
    BY <1>1 DEF Progress, resolveWithPreRequestScript, BeginExecution, Answer, ProbeAnswer, BackoffOver,
         Aborted, addHistory, finalizeExecution
  <2> QED
    BY <1>2, <1>4, <2>1, <2>2, <2>3
<1> QED
  BY <1>3, <1>4

-----------------------------------------------------------------------------
(* The runs of scripts.                                                    *)

Askeds == UNION {[D -> ScriptValues] : D \in SUBSET {key[1] : key \in ScriptKeys}}
ScriptRec == [pc : {"idle", "running", "waits", "loops", "resolved", "rejected", "ended"},
              mode : {"worker", "inline"}, on : {"caller", "copy"}, timer : BOOLEAN, worker : BOOLEAN,
              workerUrl : BOOLEAN, outcome : {"pending", "resolved", "rejected"}, skipped : BOOLEAN,
              calls : 0..MaxApiCalls, asked : Askeds]

\* A script holds the copy, and what it holds of a worker it has given back
\* when it has settled.
ScriptInv ==
  /\ script \in ScriptRec /\ script.on = "copy" /\ DOMAIN requests = {"caller", "copy"}
  /\ script.pc = "idle" =>
       script.outcome = "pending" /\ ~script.worker /\ ~script.workerUrl /\ ~script.timer
  /\ WorkerReleased

\* Before a script runs.
LEMMA ScriptInitial == ScriptInit => ScriptInv
<1> SUFFICES ASSUME ScriptInit PROVE ScriptInv
  OBVIOUS
<1>1. [k \in {} |-> 0] \in Askeds
  <2>1. [k \in {} |-> 0] \in [{} -> ScriptValues]
    OBVIOUS
  <2>2. {} \in SUBSET {key[1] : key \in ScriptKeys}
    OBVIOUS
  <2> QED
    BY <2>1, <2>2 DEF Askeds
<1>2. 0 \in 0..MaxApiCalls
  BY ScriptAssumption
<1>3. DOMAIN requests = {"caller", "copy"}
  BY DEF ScriptInit
<1> DEFINE none == [k \in {} |-> 0]
<1>4. script = [pc |-> "idle", mode |-> "worker", on |-> "copy", timer |-> FALSE, worker |-> FALSE,
                workerUrl |-> FALSE, outcome |-> "pending", skipped |-> FALSE, calls |-> 0,
                asked |-> none] /\ none \in Askeds
  BY <1>1 DEF ScriptInit
<1> HIDE DEF none
<1> QED
  BY <1>2, <1>3, <1>4 DEF ScriptInv, ScriptRec, WorkerReleased

\* A call of the API, or the end of the code of a script: the run stays
\* unsettled if it was, and keeps its timer and its worker.
LEMMA ApiStep ==
  ASSUME ScriptInv, NEW pc \in {"running", "waits", "loops", "resolved", "rejected"},
         NEW calls_ \in 0..MaxApiCalls, NEW skipped \in BOOLEAN, NEW asked \in Askeds,
         script' = [script EXCEPT !.pc = pc, !.calls = calls_, !.skipped = skipped, !.asked = asked],
         DOMAIN requests' = DOMAIN requests
  PROVE  ScriptInv'
BY DEF ScriptInv, ScriptRec, WorkerReleased

\* A worker is let go with its outcome.
LEMMA ReleaseStep ==
  ASSUME ScriptInv, NEW outcome \in {"resolved", "rejected"},
         script' = [Released EXCEPT !.outcome = Settled(outcome)], requests' = requests
  PROVE  ScriptInv'
<1> DEFINE o == Settled(outcome)
<1>1. o \in {"resolved", "rejected"}
  BY DEF ScriptInv, ScriptRec, Settled
<1>2. script' = [script EXCEPT !.timer = FALSE, !.worker = FALSE, !.workerUrl = FALSE, !.pc = "ended",
                               !.outcome = o]
  BY DEF Released
<1> HIDE DEF o
<1> QED
  BY <1>1, <1>2 DEF ScriptInv, ScriptRec, WorkerReleased

\* Every step of a script keeps its invariant, and the caller's request.
LEMMA ScriptStep ==
  ASSUME ScriptInv, ScriptNext
  PROVE  ScriptInv' /\ requests'["caller"] = requests["caller"]
<1>0. /\ script \in ScriptRec /\ script.on = "copy" /\ DOMAIN requests = {"caller", "copy"}
      /\ script.pc = "idle" =>
            script.outcome = "pending" /\ ~script.worker /\ ~script.workerUrl /\ ~script.timer
  BY DEF ScriptInv
<1>1. ASSUME NEW r, requests' = [requests EXCEPT !["copy"] = r]
      PROVE  DOMAIN requests' = {"caller", "copy"} /\ requests'["caller"] = requests["caller"]
  BY <1>0, <1>1
<1>2. script.calls \in 0..MaxApiCalls /\ script.skipped \in BOOLEAN /\ script.asked \in Askeds
  BY <1>0 DEF ScriptRec
<1>3. CASE runScript
  <2>1. requests' = [requests EXCEPT !["copy"] = requests["caller"]]
    BY <1>3 DEF runScript, clonePlain
  <2>2. script' = [script EXCEPT !.pc = "ended", !.outcome = "resolved"] /\ script.pc = "idle"
    BY <1>3 DEF runScript
  <2>3. ScriptInv'
    BY <1>0, <1>1, <2>1, <2>2 DEF ScriptInv, ScriptRec, WorkerReleased
  <2> QED
    BY <1>1, <2>1, <2>3
<1>4. CASE runInWorker
  <2>1. requests' = [requests EXCEPT !["copy"] = requests["caller"]]
    BY <1>4 DEF runInWorker, clonePlain
  <2>2. /\ script.pc = "idle"
        /\ script' = [script EXCEPT !.pc = "running", !.mode = "worker", !.on = "copy",
                                    !.timer = TRUE, !.worker = TRUE, !.workerUrl = TRUE]
    BY <1>4 DEF runInWorker, clonePlain
  <2>3. ScriptInv'
    BY <1>0, <1>1, <2>1, <2>2 DEF ScriptInv, ScriptRec, WorkerReleased
  <2> QED
    BY <1>1, <2>1, <2>3
<1>5. CASE runInline
  <2>1. requests' = [requests EXCEPT !["copy"] = requests["caller"]]
    BY <1>5 DEF runInline, clonePlain
  <2>2. /\ script.pc = "idle"
        /\ script' = [script EXCEPT !.pc = "running", !.mode = "inline", !.on = "copy", !.timer = TRUE]
    BY <1>5 DEF runInline, clonePlain
  <2>3. ScriptInv'
    BY <1>0, <1>1, <2>1, <2>2 DEF ScriptInv, ScriptRec, WorkerReleased
  <2> QED
    BY <1>1, <2>1, <2>3
<1>6. ASSUME NEW key \in ScriptKeys, NEW value \in ScriptValues, setHeader(key, value)
      PROVE  ScriptInv' /\ requests'["caller"] = requests["caller"]
  <2> DEFINE asked == [k \in DOMAIN script.asked \union {key[1]} |->
                         IF k = key[1] THEN value ELSE script.asked[k]]
  <2>1. asked \in Askeds
    <3>1. PICK D \in SUBSET {k[1] : k \in ScriptKeys} : script.asked \in [D -> ScriptValues]
      BY <1>2 DEF Askeds
    <3>2. D \union {key[1]} \in SUBSET {k[1] : k \in ScriptKeys}
      OBVIOUS
    <3>3. asked \in [D \union {key[1]} -> ScriptValues]
      BY <3>1
    <3> QED
      BY <3>2, <3>3 DEF Askeds
  <2>2. /\ script.pc = "running" /\ script.calls + 1 \in 0..MaxApiCalls
        /\ script' = [script EXCEPT !.calls = script.calls + 1, !.asked = asked]
    BY <1>2, <1>6, ScriptAssumption DEF setHeader, ApiCall
  <2>3. requests' = [requests EXCEPT !["copy"] =
                       [requests["copy"] EXCEPT !.headers = upsertKeyValue(@, key, value)]]
    BY <1>0, <1>6 DEF setHeader
  <2>4. DOMAIN requests' = DOMAIN requests /\ requests'["caller"] = requests["caller"]
    BY <1>0, <1>1, <2>3
  <2> HIDE DEF asked
  <2>5. script' = [script EXCEPT !.pc = "running", !.calls = script.calls + 1, !.skipped = script.skipped,
                                 !.asked = asked]
    BY <1>0, <2>2 DEF ScriptRec
  <2> DEFINE counted == script.calls + 1
             skipped == script.skipped
             pc == "running"
  <2>6. /\ counted \in 0..MaxApiCalls /\ skipped \in BOOLEAN
        /\ pc \in {"running", "waits", "loops", "resolved", "rejected"}
        /\ script' = [script EXCEPT !.pc = pc, !.calls = counted, !.skipped = skipped, !.asked = asked]
    BY <1>2, <2>2, <2>5
  <2> HIDE DEF counted, skipped, pc
  <2>7. ScriptInv'
    BY <2>1, <2>4, <2>6, ApiStep
  <2> QED
    BY <2>4, <2>7
<1>7. ASSUME NEW vs, ApiCall, script' = [script EXCEPT !.calls = @ + 1],
             requests' = [requests EXCEPT !["copy"] = [requests["copy"] EXCEPT !.variables = vs]]
      PROVE  ScriptInv' /\ requests'["caller"] = requests["caller"]
  <2>1. script.pc = "running" /\ script.calls + 1 \in 0..MaxApiCalls
    BY <1>2, <1>7, ScriptAssumption DEF ApiCall
  <2>2. script' = [script EXCEPT !.pc = "running", !.calls = script.calls + 1, !.skipped = script.skipped,
                                 !.asked = script.asked]
    BY <1>0, <1>7, <2>1 DEF ScriptRec
  <2>3. DOMAIN requests' = DOMAIN requests /\ requests'["caller"] = requests["caller"]
    BY <1>0, <1>1, <1>7
  <2> QED
    BY <1>2, <2>1, <2>2, <2>3, ApiStep
<1>8. CASE \E name \in VariableNames : setVariable(name) \/ unsetVariable(name)
  BY <1>0, <1>7, <1>8 DEF setVariable, unsetVariable
<1>9. CASE skip
  <2>1. script.pc = "running" /\ script.calls + 1 \in 0..MaxApiCalls /\ requests' = requests
    BY <1>2, <1>9, ScriptAssumption DEF skip, ApiCall
  <2>2. script' = [script EXCEPT !.pc = "running", !.calls = script.calls + 1, !.skipped = TRUE,
                                 !.asked = script.asked]
    BY <1>0, <1>9, <2>1 DEF ScriptRec, skip
  <2> QED
    BY <1>2, <2>1, <2>2, ApiStep
<1>10. ASSUME NEW pc \in {"waits", "loops", "resolved", "rejected"},
              script' = [script EXCEPT !.pc = pc], requests' = requests
       PROVE  ScriptInv'
  <2>1. script' = [script EXCEPT !.pc = pc, !.calls = script.calls, !.skipped = script.skipped,
                                 !.asked = script.asked]
    BY <1>0, <1>10 DEF ScriptRec
  <2> DEFINE counted == script.calls
             skipped == script.skipped
             asked == script.asked
  <2>2. /\ counted \in 0..MaxApiCalls /\ skipped \in BOOLEAN /\ asked \in Askeds
        /\ pc \in {"running", "waits", "loops", "resolved", "rejected"}
        /\ script' = [script EXCEPT !.pc = pc, !.calls = counted, !.skipped = skipped, !.asked = asked]
    BY <1>2, <2>1
  <2> HIDE DEF counted, skipped, asked
  <2> QED
    BY <1>10, <2>2, ApiStep
<1>11. CASE \E how \in {"waits", "loops"} : Hangs(how)
  BY <1>10, <1>11 DEF Hangs
<1>12. CASE \E outcome \in {"resolved", "rejected"} : executeScript(outcome)
  <2>1. PICK outcome \in {"resolved", "rejected"} : executeScript(outcome)
    BY <1>12
  <2>2. CASE script.mode = "worker"
    BY <1>10, <2>1, <2>2 DEF executeScript
  <2>3. CASE script.mode = "inline"
    <3>1. Settled(outcome) \in {"resolved", "rejected"}
      BY <1>0 DEF Settled, ScriptRec
    <3>2. script' = [script EXCEPT !.pc = "ended", !.outcome = Settled(outcome)] /\ requests' = requests
      BY <2>1, <2>3 DEF executeScript
    <3> QED
      BY <1>0, <2>3, <3>1, <3>2 DEF ScriptInv, ScriptRec, WorkerReleased
  <2> QED
    BY <1>0, <2>1, <2>2, <2>3 DEF ScriptRec, executeScript
<1>13. CASE onmessage
  BY <1>13, ReleaseStep DEF onmessage
<1>14. CASE onerror
  BY <1>14, ReleaseStep DEF onerror
<1>15. CASE Timeout
  <2>1. CASE script.mode = "worker"
    BY <1>15, <2>1, ReleaseStep DEF Timeout
  <2>2. CASE script.mode = "inline"
    <3>1. Settled("rejected") \in {"resolved", "rejected"}
      BY <1>0 DEF Settled, ScriptRec
    <3>2. script' = [script EXCEPT !.timer = FALSE, !.outcome = Settled("rejected")]
          /\ requests' = requests /\ script.timer
      BY <1>15, <2>2 DEF Timeout
    <3> QED
      BY <1>0, <2>2, <3>1, <3>2 DEF ScriptInv, ScriptRec, WorkerReleased
  <2> QED
    BY <1>0, <1>15, <2>1, <2>2 DEF ScriptRec, Timeout
<1> QED
  BY <1>3, <1>4, <1>5, <1>6, <1>8, <1>9, <1>11, <1>12, <1>13, <1>14, <1>15
     DEF ScriptNext, onmessage, onerror, Hangs, skip

-----------------------------------------------------------------------------
(* The theorems about the page and the scripts it runs.                    *)

\* Both invariants hold in every state, and every step is one of the page, of
\* a script, or of neither.
LEMMA PageInvariant == Spec => [](ExecutionInv /\ ScriptInv)
<1>1. Init => ExecutionInv /\ ScriptInv
  BY ExecutionInitial, ScriptInitial DEF Init
<1>2. ExecutionInv /\ ScriptInv /\ [Next]_vars => (ExecutionInv /\ ScriptInv)'
  <2> SUFFICES ASSUME ExecutionInv, ScriptInv, [Next]_vars PROVE ExecutionInv' /\ ScriptInv'
    OBVIOUS
  <2>1. UNCHANGED executionVars \/ ExecutionNext
    BY DEF Next, vars
  <2>2. UNCHANGED scriptVars \/ ScriptNext
    BY DEF Next, vars
  <2>3. UNCHANGED scriptVars => ScriptInv'
    BY DEF scriptVars, ScriptInv, WorkerReleased
  <2> QED
    BY <2>1, <2>2, <2>3, ExecutionStep, ScriptStep
<1> QED
  BY <1>1, <1>2, PTL DEF Spec

\* A request that the cancel button cut is not tried again, and no answer of
\* it is filed or shown.
THEOREM CutsAreFinal == Spec => CancelHolds
<1>1. ExecutionInv /\ [Next]_vars =>
        [\A s \in Sends : sends[s].cut =>
           /\ sends'[s].tries = sends[s].tries
           /\ sends'[s].pc \notin {"file", "show", "done"}]_executionVars
  <2> SUFFICES ASSUME ExecutionInv, [Next]_vars, ~UNCHANGED executionVars, NEW s \in Sends, sends[s].cut
               PROVE  sends'[s].tries = sends[s].tries /\ sends'[s].pc \notin {"file", "show", "done"}
    OBVIOUS
  <2>1. ExecutionNext
    BY DEF Next, vars
  <2> QED
    BY <2>1, CutStaysCut
<1> QED
  BY <1>1, PageInvariant, PTL DEF Spec, CancelHolds

\* No script touches the request of its caller, whenever it ends.
THEOREM CallersAreKept == Spec => CallerKept
<1>1. ScriptInv /\ [Next]_vars => [requests'["caller"] = requests["caller"]]_scriptVars
  <2> SUFFICES ASSUME ScriptInv, [Next]_vars, ~UNCHANGED scriptVars
               PROVE  requests'["caller"] = requests["caller"]
    OBVIOUS
  <2>1. ScriptNext
    BY DEF Next, vars
  <2> QED
    BY <2>1, ScriptStep
<1> QED
  BY <1>1, PageInvariant, PTL DEF Spec, CallerKept

-----------------------------------------------------------------------------
(* The calls of the executor.                                              *)

Transports == [of : Settings, by : Calls]
Errors == {Ok, "blocked", "url is required", "invalid", "transport", "network", "read", "executor",
           "stopped after maximum redirects", "BODY_TRUNCATED"}
OpenEvents == {<<>>, <<"chunk">>}
ClosedEvents == {Append(e, "final") : e \in OpenEvents}
Events == OpenEvents \union ClosedEvents
Kinds == {"failed", "redirect", "answer"}
CallPcs == {"guard", "load", "store", "send", "read", "done"}
CallRec == [pc : CallPcs, settings : Settings, stream : BOOLEAN,
            follow : RedirectLimits \union {0}, digest : BOOLEAN, second : BOOLEAN,
            transport : Transports \union {Idle}, attempts : Seq(Kinds),
            size : 0..BodyMax, challenge : BOOLEAN, body : 0..BodyMax, sent : 0..BodyMax,
            events : Events, error : Errors, asked : Nat]

Bound(r) == IF r.follow = 0 THEN 1 ELSE r.follow

\* Of one call: what it has read and told, until it is done and then.
BodyOK(r) ==
  /\ ~r.stream => r.events = <<>>
  /\ r.stream => r.events \in (IF r.pc = "done" THEN ClosedEvents ELSE OpenEvents)
  /\ r.pc # "done" => r.error = Ok
  /\ r.pc \in {"guard", "load", "store", "send"} => r.body = 0 /\ r.sent = 0
  /\ r.pc = "read" => r.sent = r.body /\ r.body <= r.size
  /\ r.pc = "done" =>
       /\ r.error = Ok => r.body = r.size
       /\ r.error = "BODY_TRUNCATED" => r.body >= BodyLimit
       /\ r.stream /\ r.error # "executor" => r.sent = r.body

\* Of one call: the requests it made.
AskedBound(r) ==
  /\ Len(r.attempts) <= Bound(r)
  /\ r.asked <= Len(r.attempts) + (IF r.second THEN Bound(r) ELSE 0)
  /\ r.error = "stopped after maximum redirects" =>
       Len(r.attempts) = r.follow /\ \A i \in 1..r.follow : r.attempts[i] = "redirect"

AskedOK(r) ==
  /\ AskedBound(r)
  /\ r.pc \in {"guard", "load", "store"} => r.attempts = <<>>
  /\ r.pc = "send" =>
       /\ Len(r.attempts) < Bound(r)
       /\ \A i \in 1..Len(r.attempts) : r.attempts[i] = "redirect"

CallOK(r) == BodyOK(r) /\ AskedOK(r)

\* The cache has each transport under the key of its settings, and a call that
\* may dial has the one of the cache.
CacheIsKeyed ==
  /\ \A k \in DOMAIN transportCache :
       transportCache[k] \in Transports /\ buildTransportKey(transportCache[k].of) = k
  /\ \A c \in Calls : calls[c].pc \in {"send", "read"} =>
       LET key == buildTransportKey(calls[c].settings)
       IN  key \in DOMAIN transportCache /\ calls[c].transport = transportCache[key]

ExecutorInv ==
  /\ calls \in [Calls -> CallRec \union {Idle}]
  /\ \A c \in Calls : calls[c] # Idle => CallOK(calls[c])
  /\ CacheIsKeyed

\* A call that is not idle is one.
LEMMA CallFacts ==
  ASSUME ExecutorInv, NEW c \in Calls
  PROVE  /\ calls[c].pc # "idle" => calls[c] \in CallRec /\ CallOK(calls[c])
         /\ calls[c] \in CallRec => calls[c].pc # "idle"
BY DEF ExecutorInv, CallRec, CallPcs, Idle

\* What is known of the numbers of a call.
LEMMA RecFacts ==
  ASSUME NEW r \in CallRec
  PROVE  /\ r.follow \in Nat /\ r.asked \in Nat /\ r.attempts \in Seq(Kinds) /\ Len(r.attempts) \in Nat
         /\ r.size \in 0..BodyMax /\ r.body \in 0..BodyMax /\ r.sent \in 0..BodyMax
         /\ BodyMax \in Nat /\ r.second \in BOOLEAN /\ r.settings \in Settings
         /\ Bound(r) \in Nat /\ Bound(r) >= 1
<1>1. /\ r.follow \in RedirectLimits \union {0} /\ r.asked \in Nat /\ r.attempts \in Seq(Kinds)
      /\ r.size \in 0..BodyMax /\ r.body \in 0..BodyMax /\ r.sent \in 0..BodyMax
      /\ r.second \in BOOLEAN /\ r.settings \in Settings
  BY DEF CallRec
<1>2. r.follow \in Nat /\ BodyMax \in Nat
  <2>1. BodyMax \in Nat /\ \A n \in RedirectLimits : n \in Nat
    BY ExecutorAssumption
  <2> QED
    BY <1>1, <2>1
<1>3. Bound(r) \in Nat /\ Bound(r) >= 1
  BY <1>2 DEF Bound
<1>4. Len(r.attempts) \in Nat
  BY <1>1
<1> QED
  BY <1>1, <1>2, <1>3, <1>4

\* A call whose requests and bounds are those of another one.
LEMMA AskedKept ==
  ASSUME NEW r \in CallRec, NEW q \in CallRec, AskedOK(r), q.error = r.error,
         q.attempts = r.attempts, q.asked = r.asked, q.second = r.second, q.follow = r.follow,
         q.pc \in {"load", "store", "send"} => r.pc \in {"guard", "load", "store"},
         q.pc # "guard"
  PROVE  AskedOK(q)
<1>1. Bound(q) = Bound(r) /\ Bound(r) >= 1 /\ Bound(r) \in Nat
  BY RecFacts DEF Bound
<1>2. AskedBound(q)
  BY <1>1 DEF AskedOK, AskedBound
<1>3. q.pc \in {"load", "store", "send"} => q.attempts = <<>>
  BY DEF AskedOK
<1>4. q.attempts = <<>> => Len(q.attempts) = 0 /\ Len(q.attempts) < Bound(q) /\ \A i \in 1..Len(q.attempts) : FALSE
  BY <1>1
<1>5. q.pc = "send" => /\ Len(q.attempts) < Bound(q)
                       /\ \A i \in 1..Len(q.attempts) : q.attempts[i] = "redirect"
  BY <1>3, <1>4
<1> QED
  BY <1>2, <1>3, <1>5 DEF AskedOK

\* A call that made no request yet.
LEMMA NothingAsked ==
  ASSUME NEW r \in CallRec, r.attempts = <<>>, r.error = Ok,
         r.asked <= IF r.second THEN Bound(r) ELSE 0
  PROVE  AskedOK(r)
<1>1. /\ Len(r.attempts) = 0 /\ Bound(r) \in Nat /\ Bound(r) >= 1 /\ r.asked \in Nat
      /\ \A i \in 1..Len(r.attempts) : FALSE
  BY RecFacts
<1>2. r.error # "stopped after maximum redirects"
  BY DEF Ok
<1>3. r.asked <= Len(r.attempts) + (IF r.second THEN Bound(r) ELSE 0)
  BY <1>1
<1>4. Len(r.attempts) <= Bound(r) /\ Len(r.attempts) < Bound(r)
  BY <1>1
<1> QED
  BY <1>1, <1>2, <1>3, <1>4 DEF AskedOK, AskedBound

\* Before any call.
LEMMA ExecutorInitial == ExecutorInit => ExecutorInv
<1> SUFFICES ASSUME ExecutorInit PROVE ExecutorInv
  OBVIOUS
<1>1. calls \in [Calls -> CallRec \union {Idle}] /\ \A c \in Calls : calls[c] = Idle
  BY DEF ExecutorInit
<1>2. DOMAIN transportCache = {}
  BY DEF ExecutorInit
<1> QED
  BY <1>1, <1>2 DEF ExecutorInv, CacheIsKeyed, Idle

\* One call goes on, and the cache stays.
LEMMA CallStep ==
  ASSUME ExecutorInv, NEW c \in Calls, NEW r \in CallRec, CallOK(r), To(c, r), UNCHANGED transportCache,
         r.pc \in {"send", "read"} =>
           LET key == buildTransportKey(r.settings)
           IN  key \in DOMAIN transportCache /\ r.transport = transportCache[key]
  PROVE  ExecutorInv'
<1>1. \A d \in Calls : calls'[d] = IF d = c THEN r ELSE calls[d]
  BY DEF ExecutorInv, To
<1>2. calls' \in [Calls -> CallRec \union {Idle}]
  BY DEF ExecutorInv, To
<1>3. \A d \in Calls : calls'[d] # Idle => CallOK(calls'[d])
  BY <1>1 DEF ExecutorInv
<1>4. CacheIsKeyed'
  BY <1>1 DEF ExecutorInv, CacheIsKeyed
<1> QED
  BY <1>2, <1>3, <1>4 DEF ExecutorInv

\* How a call ends: a stream with its final event.
LEMMA FinishedFacts ==
  ASSUME NEW r \in CallRec, r.events \in OpenEvents, ~r.stream => r.events = <<>>, NEW e \in Errors,
         e = Ok => r.body = r.size, e = "BODY_TRUNCATED" => r.body >= BodyLimit,
         r.stream /\ e # "executor" => r.sent = r.body,
         Len(r.attempts) <= Bound(r), r.asked <= Len(r.attempts) + (IF r.second THEN Bound(r) ELSE 0),
         e = "stopped after maximum redirects" =>
           Len(r.attempts) = r.follow /\ \A i \in 1..r.follow : r.attempts[i] = "redirect"
  PROVE  /\ Finished(r, e) \in CallRec /\ CallOK(Finished(r, e)) /\ Finished(r, e).pc = "done"
         /\ Finished(r, e).stream = r.stream /\ Finished(r, e).size = r.size
<1> DEFINE events == IF r.stream THEN Append(r.events, "final") ELSE r.events
           f == Finished(r, e)
<1>1. f = [r EXCEPT !.pc = "done", !.error = e, !.events = events]
  BY DEF Finished
<1>2. r.stream => Append(r.events, "final") \in ClosedEvents
  BY DEF ClosedEvents
<1>3. /\ r.stream => events \in ClosedEvents
      /\ ~r.stream => events = <<>>
      /\ events \in Events
  BY <1>2 DEF Events, OpenEvents
<1> HIDE DEF events, f
<1>4. f \in CallRec
  BY <1>1, <1>3 DEF CallRec, CallPcs
<1>5. /\ f.pc = "done" /\ f.error = e /\ f.events = events /\ f.stream = r.stream /\ f.body = r.body
      /\ f.sent = r.sent /\ f.size = r.size /\ f.attempts = r.attempts /\ f.follow = r.follow
      /\ f.asked = r.asked /\ f.second = r.second
  BY <1>1 DEF CallRec
<1>6. BodyOK(f)
  BY <1>3, <1>5 DEF BodyOK
<1>7. AskedOK(f)
  BY <1>5 DEF AskedOK, AskedBound, Bound
<1> QED
  BY <1>4, <1>5, <1>6, <1>7 DEF CallOK, f

\* A call of a handler, at its start.
Fresh(r, s, stream, follow) ==
  /\ r \in CallRec /\ r.pc = "guard" /\ r.settings = s /\ r.stream = stream /\ r.follow = follow
  /\ r.events = <<>> /\ r.error = Ok /\ r.body = 0 /\ r.sent = 0
  /\ r.attempts = <<>> /\ r.asked = 0 /\ r.second = FALSE

LEMMA NewCallFacts ==
  ASSUME NEW s \in Settings, NEW stream \in BOOLEAN, NEW follow \in RedirectLimits \union {0},
         NEW digest \in BOOLEAN
  PROVE  Fresh(NewCall(s, stream, follow, digest), s, stream, follow)
<1> DEFINE r == NewCall(s, stream, follow, digest)
           none == <<>>
<1>1. /\ <<>> \in Seq(Kinds) /\ 0 \in 0..BodyMax /\ <<>> \in Events /\ Ok \in Errors
      /\ Idle \in Transports \union {Idle} /\ "guard" \in CallPcs /\ follow \in Nat
  BY ExecutorAssumption DEF Events, OpenEvents, Errors, CallPcs
<1>2. r = [pc |-> "guard", settings |-> s, stream |-> stream, follow |-> follow, digest |-> digest,
           second |-> FALSE, transport |-> Idle, attempts |-> none, size |-> 0, challenge |-> FALSE,
           body |-> 0, sent |-> 0, events |-> none, error |-> Ok, asked |-> 0]
  BY DEF NewCall
<1>3. none \in Seq(Kinds) /\ none \in Events /\ none = <<>>
  BY <1>1
<1> HIDE DEF none, r
<1>4. r \in CallRec
  BY <1>1, <1>2, <1>3 DEF CallRec
<1>5. /\ r.pc = "guard" /\ r.settings = s /\ r.stream = stream /\ r.follow = follow
      /\ r.events = none /\ r.error = Ok /\ r.body = 0 /\ r.sent = 0
      /\ r.attempts = none /\ r.asked = 0 /\ r.second = FALSE
  BY <1>2
<1> QED
  BY <1>1, <1>3, <1>4, <1>5 DEF r, Fresh

\* A request comes in.
LEMMA RequestStep ==
  ASSUME ExecutorInv, NEW c \in Calls, Request(c)
  PROVE  ExecutorInv'
<1>1. PICK s \in Settings, stream \in BOOLEAN, digest \in BOOLEAN, follow \in RedirectLimits \union {0} :
        To(c, NewCall(s, stream, follow, digest /\ ~stream))
  BY DEF Request, To
<1>2. PICK d \in BOOLEAN : To(c, NewCall(s, stream, follow, d))
  BY <1>1
<1> DEFINE r == NewCall(s, stream, follow, d)
<1>3. Fresh(r, s, stream, follow)
  BY NewCallFacts
<1>4. To(c, r) /\ UNCHANGED transportCache
  BY <1>2 DEF Request
<1> HIDE DEF r
<1>5. /\ r \in CallRec /\ r.pc = "guard" /\ r.events = <<>> /\ r.error = Ok /\ r.body = 0 /\ r.sent = 0
      /\ r.attempts = <<>> /\ r.asked = 0 /\ r.second = FALSE
  BY <1>3 DEF Fresh
<1>6. AskedOK(r)
  BY <1>5, NothingAsked
<1>7. BodyOK(r)
  BY <1>5 DEF BodyOK, OpenEvents
<1> QED
  BY <1>4, <1>5, <1>6, <1>7, CallStep DEF CallOK

\* A call ends before its body is read.
LEMMA RefusedStep ==
  ASSUME ExecutorInv, NEW c \in Calls, NEW e \in Errors \ {Ok, "BODY_TRUNCATED", "stopped after maximum redirects"},
         calls[c].pc \in {"guard", "load"}, To(c, Finished(calls[c], e)), UNCHANGED transportCache
  PROVE  ExecutorInv'
<1> DEFINE r == calls[c]
           f == Finished(r, e)
<1>1. r \in CallRec /\ BodyOK(r) /\ AskedOK(r)
  BY CallFacts DEF CallOK
<1>2. r.events \in OpenEvents /\ (~r.stream => r.events = <<>>) /\ r.sent = r.body
  BY <1>1 DEF BodyOK, OpenEvents
<1>3. Len(r.attempts) <= Bound(r) /\ r.asked <= Len(r.attempts) + (IF r.second THEN Bound(r) ELSE 0)
  BY <1>1 DEF AskedOK, AskedBound
<1>4. f \in CallRec /\ CallOK(f) /\ f.pc = "done"
  BY <1>1, <1>2, <1>3, FinishedFacts
<1> HIDE DEF r, f
<1> QED
  BY <1>4, CallStep DEF r, f

\* A call goes on to its transport, with nothing asked or read.
Ahead(r, q, pc, t) ==
  r \in CallRec /\ CallOK(r) /\ r.pc = pc /\ r.transport = t /\ r.settings = q.settings

LEMMA AheadStep ==
  ASSUME ExecutorInv, NEW c \in Calls, NEW t \in Transports \union {Idle}, NEW pc \in {"load", "store", "send"},
         calls[c].pc \in {"guard", "load", "store"}
  PROVE  Ahead([calls[c] EXCEPT !.pc = pc, !.transport = t], calls[c], pc, t)
<1> DEFINE q == calls[c]
           r == [q EXCEPT !.pc = pc, !.transport = t]
<1>1. q \in CallRec /\ BodyOK(q) /\ AskedOK(q)
  BY CallFacts DEF CallOK
<1>2. pc \in CallPcs
  BY DEF CallPcs
<1>3. r \in CallRec
  BY <1>1, <1>2 DEF CallRec
<1>4. /\ r.pc = pc /\ r.transport = t /\ r.settings = q.settings /\ r.stream = q.stream
      /\ r.events = q.events /\ r.error = q.error /\ r.body = q.body /\ r.sent = q.sent
      /\ r.attempts = q.attempts /\ r.asked = q.asked /\ r.second = q.second /\ r.follow = q.follow
  BY <1>1 DEF CallRec
<1>5. q.pc \in {"guard", "load", "store"}
  OBVIOUS
<1> HIDE DEF q, r
<1>6. BodyOK(r)
  BY <1>1, <1>4, <1>5 DEF BodyOK
<1>7. AskedOK(r)
  <2>1. r.pc # "guard"
    BY <1>4
  <2> QED
    BY <1>1, <1>3, <1>4, <1>5, <2>1, AskedKept
<1> QED
  BY <1>3, <1>4, <1>6, <1>7 DEF CallOK, Ahead, q, r

\* The guard and the lookup of a transport.
LEMMA TransportStep ==
  ASSUME ExecutorInv, NEW c \in Calls, Guard(c) \/ transportFor(c)
  PROVE  ExecutorInv'
<1> DEFINE call == calls[c]
           key == buildTransportKey(call.settings)
<1>1. call.pc \in {"guard", "load"} /\ UNCHANGED transportCache
  BY DEF Guard, transportFor
<1>2. call \in CallRec /\ call.transport \in Transports \union {Idle}
  BY <1>1, CallFacts DEF CallRec
<1>3. ASSUME NEW t \in Transports \union {Idle}, NEW pc \in {"load", "store", "send"},
             To(c, [call EXCEPT !.pc = pc, !.transport = t]),
             pc = "send" => key \in DOMAIN transportCache /\ t = transportCache[key]
      PROVE  ExecutorInv'
  <2> DEFINE r == [call EXCEPT !.pc = pc, !.transport = t]
  <2>1. Ahead(r, call, pc, t)
    BY <1>1, AheadStep
  <2>2. To(c, r)
    BY <1>3
  <2> HIDE DEF r
  <2> QED
    BY <1>1, <1>3, <2>1, <2>2, CallStep DEF Ahead
<1>4. ASSUME NEW pc \in {"load", "store"}, To(c, [call EXCEPT !.pc = pc])
      PROVE  ExecutorInv'
  <2>1. [call EXCEPT !.pc = pc] = [call EXCEPT !.pc = pc, !.transport = call.transport]
    BY <1>2 DEF CallRec
  <2> QED
    BY <1>2, <1>3, <1>4, <2>1
<1>5. ASSUME NEW e \in {"blocked", "url is required", "invalid", "transport"}, To(c, Finished(call, e))
      PROVE  ExecutorInv'
  <2>1. e \in Errors \ {Ok, "BODY_TRUNCATED", "stopped after maximum redirects"}
    BY DEF Errors, Ok
  <2> QED
    BY <1>1, <1>5, <2>1, RefusedStep
<1>6. CASE key \in DOMAIN transportCache /\ To(c, [call EXCEPT !.pc = "send", !.transport = transportCache[key]])
  <2>1. transportCache[key] \in Transports \union {Idle}
    BY <1>6 DEF ExecutorInv, CacheIsKeyed
  <2> QED
    BY <1>3, <1>6, <2>1
<1>7. CASE Guard(c)
  BY <1>4, <1>5, <1>7 DEF Guard
<1>8. CASE transportFor(c)
  BY <1>4, <1>5, <1>6, <1>8 DEF transportFor
<1> QED
  BY <1>7, <1>8

\* Of two calls that built a transport, the first stores it.
LEMMA StoreStep ==
  ASSUME ExecutorInv, NEW c \in Calls, StoreTransport(c)
  PROVE  ExecutorInv'
<1> DEFINE call == calls[c]
           key == buildTransportKey(call.settings)
           own == [of |-> call.settings, by |-> c]
           t == IF key \in DOMAIN transportCache THEN transportCache[key] ELSE own
           r == [call EXCEPT !.pc = "send", !.transport = t]
<1>1. call.pc = "store" /\ To(c, r)
  BY DEF StoreTransport
<1>2. /\ DOMAIN transportCache' = DOMAIN transportCache \union {key}
      /\ \A k \in DOMAIN transportCache : transportCache'[k] = transportCache[k]
      /\ transportCache'[key] = t
  BY DEF StoreTransport
<1>3. call.settings \in Settings
  BY <1>1, CallFacts, RecFacts
<1>4. own \in Transports /\ own.of = call.settings
  BY <1>3 DEF Transports
<1>5. t \in Transports /\ buildTransportKey(t.of) = key
  BY <1>4 DEF ExecutorInv, CacheIsKeyed
<1> HIDE DEF own, t
<1>6. Ahead(r, call, "send", t)
  BY <1>1, <1>5, AheadStep
<1> HIDE DEF r
<1>7. \A d \in Calls : calls'[d] = IF d = c THEN r ELSE calls[d]
  BY <1>1 DEF ExecutorInv, To
<1>8. calls' \in [Calls -> CallRec \union {Idle}]
  BY <1>1, <1>6 DEF ExecutorInv, To, Ahead
<1>9. \A d \in Calls : calls'[d] # Idle => CallOK(calls'[d])
  BY <1>6, <1>7 DEF ExecutorInv, Ahead
<1> HIDE DEF key, call
<1>10. \A k \in DOMAIN transportCache' :
         transportCache'[k] \in Transports /\ buildTransportKey(transportCache'[k].of) = k
  BY <1>2, <1>5 DEF ExecutorInv, CacheIsKeyed
<1>11. ASSUME NEW d \in Calls, calls'[d].pc \in {"send", "read"}
       PROVE  /\ buildTransportKey(calls'[d].settings) \in DOMAIN transportCache'
              /\ calls'[d].transport = transportCache'[buildTransportKey(calls'[d].settings)]
  <2>1. CASE d = c
    BY <1>2, <1>6, <1>7, <2>1 DEF key, Ahead
  <2>2. CASE d # c
    BY <1>2, <1>7, <1>11, <2>2 DEF ExecutorInv, CacheIsKeyed
  <2> QED
    BY <2>1, <2>2
<1> QED
  BY <1>8, <1>9, <1>10, <1>11 DEF ExecutorInv, CacheIsKeyed

\* What recordingTransport notes of a round trip.
NotedOf(n, q, kind) ==
  /\ n \in CallRec /\ n.pc = "send" /\ n.asked = q.asked + 1 /\ Len(n.attempts) = Len(q.attempts) + 1
  /\ \A i \in 1..Len(q.attempts) : n.attempts[i] = q.attempts[i]
  /\ n.attempts[Len(q.attempts) + 1] = kind
  /\ n.settings = q.settings /\ n.transport = q.transport /\ n.stream = q.stream /\ n.follow = q.follow
  /\ n.second = q.second /\ n.events = q.events /\ n.error = q.error /\ n.body = q.body /\ n.sent = q.sent

LEMMA NotedFacts ==
  ASSUME NEW q \in CallRec, NEW kind \in Kinds, q.pc = "send"
  PROVE  NotedOf([q EXCEPT !.attempts = Append(@, kind), !.asked = @ + 1], q, kind)
<1> DEFINE as == Append(q.attempts, kind)
           asked == q.asked + 1
           n == [q EXCEPT !.attempts = as, !.asked = asked]
<1>1. q.attempts \in Seq(Kinds) /\ q.asked \in Nat
  BY RecFacts
<1>2. /\ as \in Seq(Kinds) /\ Len(as) = Len(q.attempts) + 1
      /\ \A i \in 1..Len(q.attempts) : as[i] = q.attempts[i]
      /\ as[Len(q.attempts) + 1] = kind /\ asked \in Nat
  BY <1>1
<1> HIDE DEF as, asked
<1>3. n \in CallRec
  BY <1>2 DEF CallRec
<1>4. /\ n.pc = q.pc /\ n.attempts = as /\ n.asked = asked /\ n.settings = q.settings
      /\ n.transport = q.transport /\ n.stream = q.stream /\ n.follow = q.follow /\ n.second = q.second
      /\ n.events = q.events /\ n.error = q.error /\ n.body = q.body /\ n.sent = q.sent
  BY DEF CallRec
<1>5. n = [q EXCEPT !.attempts = Append(@, kind), !.asked = @ + 1]
  BY DEF as, asked
<1> HIDE DEF n
<1>6. NotedOf(n, q, kind)
  BY <1>2, <1>3, <1>4 DEF NotedOf, asked
<1> QED
  BY <1>5, <1>6

\* A round trip: it fails, is redirected, or is answered.
LEMMA RoundTripStep ==
  ASSUME ExecutorInv, NEW c \in Calls, RoundTrip(c)
  PROVE  ExecutorInv'
<1> DEFINE call == calls[c]
           Noted(kind) == [call EXCEPT !.attempts = Append(@, kind), !.asked = @ + 1]
           key == buildTransportKey(call.settings)
<1>1. /\ call.pc = "send" /\ UNCHANGED transportCache
      /\ key \in DOMAIN transportCache /\ call.transport = transportCache[key]
  BY DEF RoundTrip, ExecutorInv, CacheIsKeyed
<1>2. call \in CallRec /\ BodyOK(call) /\ AskedOK(call)
  BY <1>1, CallFacts DEF CallOK
<1>3. \A kind \in Kinds : NotedOf(Noted(kind), call, kind)
  BY <1>1, <1>2, NotedFacts
<1>4. /\ \/ To(c, Finished(Noted("failed"), "network"))
         \/ call.follow # 0 /\ ~CheckRedirect(call) /\ To(c, Noted("redirect"))
         \/ /\ call.follow # 0 /\ CheckRedirect(call)
            /\ To(c, Finished(Noted("redirect"), "stopped after maximum redirects"))
         \/ \E size \in 0..BodyMax, kind \in {"answer", "redirect"}, challenge \in BOOLEAN :
              To(c, [Noted(kind) EXCEPT !.pc = "read", !.size = size, !.challenge = challenge])
  BY DEF RoundTrip
<1> HIDE DEF Noted, call, key
<1>5. /\ call.follow \in Nat /\ Len(call.attempts) \in Nat /\ call.asked \in Nat
      /\ Bound(call) \in Nat /\ call.second \in BOOLEAN
  BY <1>2, RecFacts
<1>6. /\ Len(call.attempts) < Bound(call)
      /\ \A i \in 1..Len(call.attempts) : call.attempts[i] = "redirect"
      /\ call.asked <= Len(call.attempts) + (IF call.second THEN Bound(call) ELSE 0)
  BY <1>1, <1>2 DEF AskedOK, AskedBound
<1>7. /\ call.events \in OpenEvents /\ (~call.stream => call.events = <<>>)
      /\ call.sent = 0 /\ call.body = 0 /\ call.error = Ok
  BY <1>1, <1>2 DEF BodyOK, OpenEvents
<1>8. ASSUME NEW kind \in Kinds, NEW n, n = Noted(kind)
      PROVE  /\ NotedOf(n, call, kind) /\ n \in CallRec /\ n.events \in OpenEvents
             /\ (~n.stream => n.events = <<>>) /\ n.sent = n.body /\ n.error = Ok
             /\ n.sent = 0 /\ n.follow = call.follow
             /\ Len(n.attempts) <= Bound(n) /\ n.asked <= Len(n.attempts) + (IF n.second THEN Bound(n) ELSE 0)
             /\ n.settings = call.settings /\ n.transport = call.transport /\ n.pc = "send"
             /\ kind = "redirect" => \A i \in 1..Len(n.attempts) : n.attempts[i] = "redirect"
  <2>1. NotedOf(n, call, kind)
    BY <1>3, <1>8
  <2>2. Bound(n) = Bound(call)
    BY <2>1 DEF NotedOf, Bound
  <2>3. Len(n.attempts) <= Bound(n) /\ n.asked <= Len(n.attempts) + (IF n.second THEN Bound(n) ELSE 0)
    BY <1>5, <1>6, <2>1, <2>2 DEF NotedOf
  <2>4. ASSUME kind = "redirect", NEW i \in 1..Len(n.attempts)
        PROVE  n.attempts[i] = "redirect"
    <3>1. /\ Len(n.attempts) = Len(call.attempts) + 1 /\ n.attempts[Len(call.attempts) + 1] = kind
          /\ \A j \in 1..Len(call.attempts) : n.attempts[j] = call.attempts[j]
      BY <2>1 DEF NotedOf
    <3>2. i = Len(call.attempts) + 1 \/ i \in 1..Len(call.attempts)
      BY <1>5, <3>1
    <3> QED
      BY <1>6, <2>4, <3>1, <3>2
  <2> QED
    BY <1>7, <2>1, <2>3, <2>4 DEF NotedOf
<1>9. ASSUME NEW kind \in Kinds, NEW e \in Errors \ {Ok, "BODY_TRUNCATED"}, To(c, Finished(Noted(kind), e)),
             e = "stopped after maximum redirects" =>
               kind = "redirect" /\ Len(call.attempts) + 1 = call.follow
      PROVE  ExecutorInv'
  <2> DEFINE n == Noted(kind)
             f == Finished(n, e)
  <2>1. /\ NotedOf(n, call, kind) /\ n \in CallRec /\ n.events \in OpenEvents
        /\ (~n.stream => n.events = <<>>) /\ n.sent = n.body
        /\ Len(n.attempts) <= Bound(n) /\ n.asked <= Len(n.attempts) + (IF n.second THEN Bound(n) ELSE 0)
        /\ kind = "redirect" => \A i \in 1..Len(n.attempts) : n.attempts[i] = "redirect"
    BY <1>8
  <2>2. e = "stopped after maximum redirects" =>
          Len(n.attempts) = n.follow /\ \A i \in 1..n.follow : n.attempts[i] = "redirect"
    BY <1>9, <2>1 DEF NotedOf
  <2> HIDE DEF n
  <2>3. f \in CallRec /\ CallOK(f) /\ f.pc = "done"
    BY <2>1, <2>2, FinishedFacts
  <2>4. To(c, f)
    BY <1>9 DEF n
  <2> HIDE DEF f
  <2> QED
    BY <1>1, <2>3, <2>4, CallStep
<1>10. CASE To(c, Finished(Noted("failed"), "network"))
  <2>1. "failed" \in Kinds /\ "network" \in Errors \ {Ok, "BODY_TRUNCATED"}
    BY DEF Kinds, Errors, Ok
  <2> QED
    BY <1>9, <1>10, <2>1
<1>11. CASE call.follow # 0 /\ CheckRedirect(call) /\ To(c, Finished(Noted("redirect"), "stopped after maximum redirects"))
  <2>1. "redirect" \in Kinds /\ "stopped after maximum redirects" \in Errors \ {Ok, "BODY_TRUNCATED"}
    BY DEF Kinds, Errors, Ok
  <2>2. Len(call.attempts) + 1 = call.follow
    <3>1. Len(call.attempts) < call.follow /\ Len(call.attempts) + 1 >= call.follow
      BY <1>6, <1>11 DEF CheckRedirect, Bound
    <3> QED
      BY <1>5, <3>1
  <2> QED
    BY <1>9, <1>11, <2>1, <2>2
<1>12. CASE call.follow # 0 /\ ~CheckRedirect(call) /\ To(c, Noted("redirect"))
  <2> DEFINE n == Noted("redirect")
  <2>1. "redirect" \in Kinds
    BY DEF Kinds
  <2>2. /\ NotedOf(n, call, "redirect") /\ n \in CallRec /\ n.events \in OpenEvents
        /\ (~n.stream => n.events = <<>>) /\ n.error = Ok /\ n.sent = 0 /\ n.sent = n.body
        /\ Len(n.attempts) <= Bound(n) /\ n.asked <= Len(n.attempts) + (IF n.second THEN Bound(n) ELSE 0)
        /\ \A i \in 1..Len(n.attempts) : n.attempts[i] = "redirect"
        /\ n.pc = "send" /\ n.settings = call.settings /\ n.transport = call.transport /\ n.follow = call.follow
    BY <1>8, <2>1
  <2>3. Len(n.attempts) < Bound(n)
    BY <1>5, <1>12, <2>2 DEF CheckRedirect, Bound, NotedOf
  <2>4. To(c, n)
    BY <1>12
  <2> HIDE DEF n
  <2>5. BodyOK(n)
    BY <2>2 DEF BodyOK
  <2>6. AskedOK(n)
    BY <2>2, <2>3 DEF AskedOK, AskedBound, Ok
  <2> QED
    BY <1>1, <2>2, <2>4, <2>5, <2>6, CallStep DEF CallOK, key
<1>13. ASSUME NEW size \in 0..BodyMax, NEW kind \in {"answer", "redirect"}, NEW challenge \in BOOLEAN,
              To(c, [Noted(kind) EXCEPT !.pc = "read", !.size = size, !.challenge = challenge])
       PROVE  ExecutorInv'
  <2> DEFINE n == Noted(kind)
             r == [n EXCEPT !.pc = "read", !.size = size, !.challenge = challenge]
  <2>1. kind \in Kinds /\ "read" \in CallPcs
    BY DEF Kinds, CallPcs
  <2>2. /\ n \in CallRec /\ n.events \in OpenEvents /\ (~n.stream => n.events = <<>>) /\ n.error = Ok
        /\ n.sent = 0 /\ n.sent = n.body
        /\ Len(n.attempts) <= Bound(n) /\ n.asked <= Len(n.attempts) + (IF n.second THEN Bound(n) ELSE 0)
        /\ n.settings = call.settings /\ n.transport = call.transport
    BY <1>8, <2>1
  <2>3. To(c, r)
    BY <1>13
  <2> HIDE DEF n
  <2>4. r \in CallRec
    BY <2>1, <2>2 DEF CallRec
  <2>5. /\ r.pc = "read" /\ r.size = size /\ r.body = n.body /\ r.sent = n.sent /\ r.error = n.error
        /\ r.stream = n.stream /\ r.events = n.events /\ r.settings = n.settings
        /\ r.transport = n.transport /\ r.attempts = n.attempts /\ r.asked = n.asked
        /\ r.follow = n.follow /\ r.second = n.second
    BY <2>2 DEF CallRec
  <2>6. size >= 0
    BY RecFacts, <2>2
  <2> HIDE DEF r
  <2>7. BodyOK(r)
    BY <2>2, <2>5, <2>6 DEF BodyOK
  <2>8. Bound(r) = Bound(n)
    BY <2>5 DEF Bound
  <2>9. AskedOK(r)
    BY <2>2, <2>5, <2>8 DEF AskedOK, AskedBound, Ok
  <2> QED
    BY <1>1, <2>2, <2>3, <2>4, <2>5, <2>7, <2>9, CallStep DEF CallOK, key
<1> QED
  BY <1>4, <1>10, <1>11, <1>12, <1>13

\* A call ends with what it has read.
LEMMA ReadEnds ==
  ASSUME ExecutorInv, NEW c \in Calls, NEW n \in CallRec, NEW e \in Errors \ {"stopped after maximum redirects"},
         calls[c].pc # "idle", UNCHANGED transportCache, To(c, Finished(n, e)),
         n.events \in OpenEvents, ~n.stream => n.events = <<>>,
         e = Ok => n.body = n.size, e = "BODY_TRUNCATED" => n.body >= BodyLimit,
         n.stream /\ e # "executor" => n.sent = n.body,
         n.attempts = calls[c].attempts, n.asked = calls[c].asked, n.second = calls[c].second,
         n.follow = calls[c].follow
  PROVE  ExecutorInv'
<1> DEFINE f == Finished(n, e)
<1>1. calls[c] \in CallRec /\ AskedOK(calls[c])
  BY CallFacts DEF CallOK
<1>2. Len(n.attempts) <= Bound(n) /\ n.asked <= Len(n.attempts) + (IF n.second THEN Bound(n) ELSE 0)
  BY <1>1 DEF AskedOK, AskedBound, Bound
<1>3. f \in CallRec /\ CallOK(f) /\ f.pc = "done"
  BY <1>2, FinishedFacts
<1> HIDE DEF f
<1> QED
  BY <1>3, CallStep DEF f

\* The number of a body that is returned may be set before or after the call
\* is marked as finished.
LEMMA FinishedBody ==
  ASSUME NEW q \in CallRec, NEW e \in Errors, NEW b \in 0..BodyMax
  PROVE  /\ [q EXCEPT !.body = b] \in CallRec
         /\ [Finished(q, e) EXCEPT !.body = b] = Finished([q EXCEPT !.body = b], e)
<1> DEFINE events == IF q.stream THEN Append(q.events, "final") ELSE q.events
           n == [q EXCEPT !.body = b]
<1>1. n \in CallRec /\ n.stream = q.stream /\ n.events = q.events
  BY DEF CallRec
<1>2. Finished(q, e) = [q EXCEPT !.pc = "done", !.error = e, !.events = events]
  BY DEF Finished
<1>3. Finished(n, e) = [n EXCEPT !.pc = "done", !.error = e, !.events = events]
  BY <1>1 DEF Finished
<1> HIDE DEF events
<1>4. [[q EXCEPT !.pc = "done", !.error = e, !.events = events] EXCEPT !.body = b]
        = [n EXCEPT !.pc = "done", !.error = e, !.events = events]
  BY DEF CallRec
<1> QED
  BY <1>1, <1>2, <1>3, <1>4

\* The body is read at once.
LEMMA ReadAllStep ==
  ASSUME ExecutorInv, NEW c \in Calls, ReadAll(c)
  PROVE  ExecutorInv'
<1> DEFINE call == calls[c]
           e == IF call.size > BodyLimit THEN "BODY_TRUNCATED" ELSE Ok
           b == IF call.size > BodyLimit THEN BodyLimit ELSE call.size
           n == [call EXCEPT !.body = b]
<1>1. /\ call.pc = "read" /\ ~call.stream /\ UNCHANGED transportCache
      /\ To(c, [Finished(call, e) EXCEPT !.body = b])
  BY DEF ReadAll, limitedReadAll
<1>2. call \in CallRec /\ BodyOK(call) /\ call.size \in 0..BodyMax /\ BodyMax \in Nat
  BY <1>1, CallFacts, RecFacts DEF CallOK
<1>3. /\ b \in 0..BodyMax /\ e \in Errors \ {"stopped after maximum redirects"}
      /\ e = Ok => b = call.size
      /\ e = "BODY_TRUNCATED" => b >= BodyLimit
  BY <1>2, ExecutorAssumption DEF Errors, Ok
<1> HIDE DEF e, b
<1>4. /\ n \in CallRec /\ n.body = b /\ n.stream = call.stream /\ n.events = call.events
      /\ n.size = call.size /\ n.attempts = call.attempts /\ n.asked = call.asked
      /\ n.second = call.second /\ n.follow = call.follow
  BY <1>2, <1>3 DEF CallRec
<1>5. To(c, Finished(n, e))
  BY <1>1, <1>2, <1>3, FinishedBody
<1> HIDE DEF n
<1>6. n.events \in OpenEvents /\ n.events = <<>> /\ ~n.stream
  BY <1>1, <1>2, <1>4 DEF BodyOK, OpenEvents
<1> QED
  BY <1>1, <1>3, <1>4, <1>5, <1>6, ReadEnds

\* The body is read chunk by chunk.
LEMMA ReadChunkStep ==
  ASSUME ExecutorInv, NEW c \in Calls, ReadChunk(c)
  PROVE  ExecutorInv'
<1> DEFINE call == calls[c]
           Part(n) == [call EXCEPT !.body = @ + n, !.sent = @ + n,
                                   !.events = IF @ = <<>> THEN <<"chunk">> ELSE @]
<1>1. /\ call.pc = "read" /\ call.stream /\ UNCHANGED transportCache
      /\ \/ LimitReached(call) /\ To(c, Finished(call, "BODY_TRUNCATED"))
         \/ \E n \in 1..ChunkMax :
              /\ call.body + n <= call.size
              /\ \/ To(c, Part(n))
                 \/ call.body + n = call.size /\ To(c, Finished(Part(n), Ok))
         \/ call.body = call.size /\ To(c, Finished(call, Ok))
  BY DEF ReadChunk
<1>2. call \in CallRec /\ BodyOK(call) /\ AskedOK(call)
  BY <1>1, CallFacts DEF CallOK
<1>3. /\ call.size \in 0..BodyMax /\ call.body \in 0..BodyMax /\ call.sent \in 0..BodyMax /\ BodyMax \in Nat
      /\ call.sent = call.body /\ call.events \in OpenEvents
  BY <1>1, <1>2, RecFacts DEF BodyOK
<1>4. ASSUME NEW n \in 1..ChunkMax, call.body + n <= call.size
      PROVE  /\ Part(n) \in CallRec /\ Part(n).body = call.body + n /\ Part(n).sent = call.body + n
             /\ Part(n).events \in OpenEvents /\ Part(n).stream /\ Part(n).pc = "read"
             /\ Part(n).size = call.size /\ Part(n).error = call.error
             /\ Part(n).attempts = call.attempts /\ Part(n).asked = call.asked
             /\ Part(n).second = call.second /\ Part(n).follow = call.follow
             /\ Part(n).settings = call.settings /\ Part(n).transport = call.transport
  <2> DEFINE body == call.body + n
             events == IF call.events = <<>> THEN <<"chunk">> ELSE call.events
             p == [call EXCEPT !.body = body, !.sent = body, !.events = events]
  <2>1. body \in 0..BodyMax
    BY <1>3, <1>4, ExecutorAssumption
  <2>2. events \in OpenEvents /\ events \in Events
    BY <1>3 DEF OpenEvents, Events
  <2>3. Part(n) = p
    BY <1>3
  <2> HIDE DEF body, events
  <2>4. p \in CallRec
    BY <1>2, <2>1, <2>2 DEF CallRec
  <2>5. /\ p.body = body /\ p.sent = body /\ p.events = events /\ p.stream = call.stream /\ p.pc = call.pc
        /\ p.size = call.size /\ p.error = call.error /\ p.attempts = call.attempts /\ p.asked = call.asked
        /\ p.second = call.second /\ p.follow = call.follow /\ p.settings = call.settings
        /\ p.transport = call.transport
    BY <1>2 DEF CallRec
  <2> HIDE DEF p
  <2> QED
    BY <1>1, <2>2, <2>3, <2>4, <2>5 DEF body
<1>5. Ok \in Errors \ {"stopped after maximum redirects"} /\ Ok # "BODY_TRUNCATED"
      /\ "BODY_TRUNCATED" \in Errors \ {"stopped after maximum redirects"}
  BY DEF Errors, Ok
<1> HIDE DEF call, Part
<1>6. CASE LimitReached(call) /\ To(c, Finished(call, "BODY_TRUNCATED"))
  <2>1. call.body >= BodyLimit
    BY <1>6 DEF LimitReached
  <2> QED
    BY <1>1, <1>2, <1>3, <1>5, <1>6, <2>1, ReadEnds DEF call
<1>7. CASE call.body = call.size /\ To(c, Finished(call, Ok))
  BY <1>1, <1>2, <1>3, <1>5, <1>7, ReadEnds DEF call
<1>8. ASSUME NEW n \in 1..ChunkMax, call.body + n = call.size, To(c, Finished(Part(n), Ok))
      PROVE  ExecutorInv'
  <2> DEFINE p == Part(n)
  <2>1. call.body + n <= call.size
    BY <1>3, <1>8
  <2>2. /\ p \in CallRec /\ p.body = p.size /\ p.sent = p.body /\ p.events \in OpenEvents /\ p.stream
        /\ p.attempts = call.attempts /\ p.asked = call.asked
        /\ p.second = call.second /\ p.follow = call.follow
    BY <1>4, <1>8, <2>1
  <2>3. To(c, Finished(p, Ok))
    BY <1>8
  <2> HIDE DEF p
  <2> QED
    BY <1>1, <1>5, <2>2, <2>3, ReadEnds DEF call
<1>9. ASSUME NEW n \in 1..ChunkMax, call.body + n <= call.size, To(c, Part(n))
      PROVE  ExecutorInv'
  <2> DEFINE p == Part(n)
  <2>1. /\ p \in CallRec /\ p.body = call.body + n /\ p.sent = call.body + n
        /\ p.events \in OpenEvents /\ p.stream /\ p.pc = "read"
        /\ p.size = call.size /\ p.error = call.error
        /\ p.attempts = call.attempts /\ p.asked = call.asked
        /\ p.second = call.second /\ p.follow = call.follow
        /\ p.settings = call.settings /\ p.transport = call.transport
    BY <1>4, <1>9
  <2>2. To(c, p)
    BY <1>9
  <2> HIDE DEF p
  <2>3. BodyOK(p)
    BY <1>1, <1>2, <1>9, <2>1 DEF BodyOK
  <2>4. AskedOK(p)
    <3>1. p.pc \notin {"load", "store", "send", "guard"}
      BY <2>1
    <3> QED
      BY <1>2, <2>1, <3>1, AskedKept
  <2>5. LET key == buildTransportKey(call.settings)
        IN  key \in DOMAIN transportCache /\ call.transport = transportCache[key]
    BY <1>1 DEF ExecutorInv, CacheIsKeyed, call
  <2> QED
    BY <1>1, <2>1, <2>2, <2>3, <2>4, <2>5, CallStep DEF CallOK
<1> QED
  BY <1>1, <1>6, <1>7, <1>8, <1>9

\* The read fails, the call to the executor fails, or a digest challenge is
\* answered by a second call.
LEMMA OtherEndsStep ==
  ASSUME ExecutorInv, NEW c \in Calls, ReadFails(c) \/ executeErrorResponse(c) \/ executeDigest(c)
  PROVE  ExecutorInv'
<1> DEFINE call == calls[c]
<1>1. call.pc # "idle" /\ UNCHANGED transportCache
  BY DEF ReadFails, executeErrorResponse, executeDigest
<1>2. call \in CallRec /\ BodyOK(call) /\ AskedOK(call)
  BY <1>1, CallFacts DEF CallOK
<1>3. call.pc # "done" => call.events \in OpenEvents /\ (~call.stream => call.events = <<>>)
  BY <1>2 DEF BodyOK, OpenEvents
<1>4. /\ "read" \in Errors \ {"stopped after maximum redirects"} /\ "read" # Ok
      /\ "executor" \in Errors \ {"stopped after maximum redirects"} /\ "executor" # Ok
  BY DEF Errors, Ok
<1>5. CASE ReadFails(c)
  <2>1. call.pc = "read" /\ To(c, Finished(call, "read"))
    BY <1>5 DEF ReadFails
  <2>2. call.sent = call.body /\ call.events \in OpenEvents /\ (~call.stream => call.events = <<>>)
    BY <1>2, <1>3, <2>1 DEF BodyOK
  <2> HIDE DEF call
  <2> QED
    BY <1>1, <1>2, <1>4, <2>1, <2>2, ReadEnds DEF call
<1>6. CASE executeErrorResponse(c)
  <2> DEFINE n == [call EXCEPT !.body = 0]
  <2>1. call.pc # "done" /\ To(c, [Finished(call, "executor") EXCEPT !.body = 0])
    BY <1>6 DEF executeErrorResponse
  <2>2. 0 \in 0..BodyMax
    BY ExecutorAssumption
  <2>3. /\ n \in CallRec /\ n.stream = call.stream /\ n.events = call.events
        /\ n.attempts = call.attempts /\ n.asked = call.asked
        /\ n.second = call.second /\ n.follow = call.follow
    BY <1>2, <2>2 DEF CallRec
  <2>4. To(c, Finished(n, "executor"))
    BY <1>2, <1>4, <2>1, <2>2, FinishedBody
  <2> HIDE DEF call, n
  <2> QED
    BY <1>1, <1>3, <1>4, <2>1, <2>3, <2>4, ReadEnds DEF call
<1>7. CASE executeDigest(c)
  <2> DEFINE n == NewCall(call.settings, FALSE, call.follow, TRUE)
             r == [n EXCEPT !.pc = "load", !.second = TRUE, !.asked = call.asked]
  <2>1. ~call.second /\ To(c, r)
    BY <1>7 DEF executeDigest
  <2>2. /\ call.settings \in Settings /\ call.follow \in RedirectLimits \union {0} /\ call.asked \in Nat
        /\ Len(call.attempts) \in Nat /\ call.follow \in Nat /\ Bound(call) \in Nat
    BY <1>2, RecFacts DEF CallRec
  <2>3. Fresh(n, call.settings, FALSE, call.follow)
    BY <2>2, NewCallFacts
  <2>4. call.asked <= Bound(call)
    <3>1. Len(call.attempts) <= Bound(call) /\ call.asked <= Len(call.attempts) + 0
      BY <1>2, <2>1 DEF AskedOK, AskedBound
    <3> HIDE DEF call
    <3> QED
      BY <2>2, <3>1
  <2> HIDE DEF n, call
  <2>5. "load" \in CallPcs
    BY DEF CallPcs
  <2>6. r \in CallRec
    BY <2>2, <2>3, <2>5 DEF CallRec, Fresh
  <2>7. /\ r.pc = "load" /\ r.second = TRUE /\ r.asked = call.asked /\ r.follow = n.follow
        /\ r.stream = n.stream /\ r.events = n.events /\ r.error = n.error /\ r.body = n.body
        /\ r.sent = n.sent /\ r.attempts = n.attempts
    BY <2>3 DEF CallRec, Fresh
  <2> HIDE DEF r
  <2>8. BodyOK(r)
    BY <2>3, <2>7 DEF BodyOK, OpenEvents, Fresh
  <2>9. AskedOK(r)
    <3>1. Bound(r) = Bound(call)
      BY <2>3, <2>7 DEF Bound, Fresh
    <3>2. r.attempts = <<>> /\ r.error = Ok
      BY <2>3, <2>7 DEF Fresh
    <3> QED
      BY <2>4, <2>6, <2>7, <3>1, <3>2, NothingAsked
  <2> QED
    BY <1>1, <2>1, <2>6, <2>7, <2>8, <2>9, CallStep DEF CallOK
<1> QED
  BY <1>5, <1>6, <1>7

\* Every step of the executor keeps its invariant.
LEMMA ExecutorStep == ExecutorInv /\ [ExecutorNext]_executorVars => ExecutorInv'
<1>1. CASE UNCHANGED executorVars
  BY <1>1 DEF executorVars, ExecutorInv, CacheIsKeyed
<1>2. CASE ExecutorInv /\ ExecutorNext
  <2>1. PICK c \in Calls :
          \/ Request(c) \/ Guard(c) \/ transportFor(c) \/ StoreTransport(c) \/ RoundTrip(c)
          \/ ReadAll(c) \/ ReadChunk(c) \/ ReadFails(c) \/ executeErrorResponse(c) \/ executeDigest(c)
    BY <1>2 DEF ExecutorNext
  <2> QED
    BY <1>2, <2>1, RequestStep, TransportStep, StoreStep, RoundTripStep, ReadAllStep, ReadChunkStep,
       OtherEndsStep
<1> QED
  BY <1>1, <1>2

\* A call that was started.
LEMMA StartedFacts ==
  ASSUME ExecutorInv, NEW c \in Started
  PROVE  c \in Calls /\ calls[c] \in CallRec /\ BodyOK(calls[c]) /\ AskedOK(calls[c])
BY CallFacts DEF Started, CallOK

\* The part of the property that is about the cache of transports.
LEMMA TransportFacts ==
  ASSUME ExecutorInv
  PROVE  ExecutorTypeOK /\ TransportFits /\ TransportShared
<1>1. ExecutorTypeOK
  <2>1. \A k \in DOMAIN transportCache : transportCache[k].of \in Settings
    BY DEF ExecutorInv, CacheIsKeyed, Transports
  <2>2. ASSUME NEW c \in Started
        PROVE  /\ calls[c].pc \in {"guard", "load", "store", "send", "read", "done"}
               /\ calls[c].settings \in Settings
               /\ calls[c].size \in 0..BodyMax /\ calls[c].body \in 0..BodyMax
    BY StartedFacts, RecFacts DEF CallRec, CallPcs
  <2> QED
    BY <2>1, <2>2 DEF ExecutorTypeOK
<1>2. TransportFits
  BY StartedFacts DEF TransportFits, ExecutorInv, CacheIsKeyed, buildTransportKey
<1>3. TransportShared
  BY StartedFacts DEF TransportShared, ExecutorInv, CacheIsKeyed
<1> QED
  BY <1>1, <1>2, <1>3

\* Nothing is lost unless the answer says so.
LEMMA BodyFacts ==
  ASSUME ExecutorInv
  PROVE  NothingLostSilently
BY StartedFacts DEF NothingLostSilently, BodyOK

\* The events of a stream before and after its end.
LEMMA EventFacts ==
  /\ \A e \in OpenEvents : \A i \in DOMAIN e : e[i] # "final"
  /\ \A e \in ClosedEvents :
       /\ \E i \in DOMAIN e : e[i] = "final"
       /\ \A i \in DOMAIN e : e[i] = "final" => i = Len(e)
<1>1. ASSUME NEW e \in OpenEvents
      PROVE  e \in Seq({"chunk"}) /\ \A i \in DOMAIN e : e[i] # "final"
  <2>1. <<>> \in Seq({"chunk"}) /\ <<"chunk">> \in Seq({"chunk"})
    OBVIOUS
  <2>2. e \in Seq({"chunk"})
    BY <2>1 DEF OpenEvents
  <2>3. \A i \in DOMAIN e : e[i] \in {"chunk"}
    BY <2>2
  <2> QED
    BY <2>2, <2>3
<1>2. ASSUME NEW f \in ClosedEvents
      PROVE  /\ \E i \in DOMAIN f : f[i] = "final"
             /\ \A i \in DOMAIN f : f[i] = "final" => i = Len(f)
  <2>1. PICK e \in OpenEvents : f = Append(e, "final")
    BY DEF ClosedEvents
  <2>2. e \in Seq({"chunk"}) /\ Len(e) \in Nat
    BY <1>1
  <2>3. e \in Seq({"chunk", "final"}) /\ \A i \in 1..Len(e) : e[i] # "final"
    BY <1>1, <2>2
  <2>4. /\ Len(f) = Len(e) + 1 /\ f[Len(e) + 1] = "final" /\ DOMAIN f = 1..(Len(e) + 1)
        /\ \A i \in 1..Len(e) : f[i] = e[i]
    BY <2>1, <2>3
  <2>5. Len(e) + 1 \in DOMAIN f
    BY <2>2, <2>4
  <2>6. \A i \in DOMAIN f : i \in 1..Len(e) \/ i = Len(e) + 1
    BY <2>2, <2>4
  <2> QED
    BY <2>3, <2>4, <2>5, <2>6
<1> QED
  BY <1>1, <1>2

\* A stream tells its end once, and last.
LEMMA FinalFacts ==
  ASSUME ExecutorInv
  PROVE  FinalIsLast
<1> SUFFICES ASSUME NEW c \in Started, calls[c].stream
             PROVE  /\ (calls[c].pc = "done")
                         = ("final" \in {calls[c].events[i] : i \in DOMAIN calls[c].events})
                    /\ \A i \in DOMAIN calls[c].events :
                         calls[c].events[i] = "final" => i = Len(calls[c].events)
  BY DEF FinalIsLast
<1> DEFINE events == calls[c].events
<1>1. events \in (IF calls[c].pc = "done" THEN ClosedEvents ELSE OpenEvents)
  BY StartedFacts DEF BodyOK
<1> HIDE DEF events
<1>2. CASE calls[c].pc = "done"
  <2>1. /\ \E i \in DOMAIN events : events[i] = "final"
        /\ \A i \in DOMAIN events : events[i] = "final" => i = Len(events)
    BY <1>1, <1>2, EventFacts
  <2> QED
    BY <1>2, <2>1 DEF events
<1>3. CASE calls[c].pc # "done"
  <2>1. \A i \in DOMAIN events : events[i] # "final"
    BY <1>1, <1>3, EventFacts
  <2> QED
    BY <1>3, <2>1 DEF events
<1> QED
  BY <1>2, <1>3

\* The requests of a call are bounded by its limit.
LEMMA RequestFacts ==
  ASSUME ExecutorInv
  PROVE  RequestsBounded
<1> SUFFICES ASSUME NEW c \in Started
             PROVE  /\ Len(calls[c].attempts) <= IF calls[c].follow = 0 THEN 1 ELSE calls[c].follow
                    /\ calls[c].asked <= 2 * (IF calls[c].follow = 0 THEN 1 ELSE calls[c].follow)
                    /\ calls[c].error = "stopped after maximum redirects" =>
                         Cardinality(redirectsFromAttempts(calls[c])) = calls[c].follow
  BY DEF RequestsBounded
<1> DEFINE r == calls[c]
<1>1. /\ AskedBound(r) /\ r \in CallRec /\ r.follow \in Nat /\ r.asked \in Nat /\ Len(r.attempts) \in Nat
      /\ r.attempts \in Seq(Kinds) /\ Bound(r) \in Nat
  BY StartedFacts, RecFacts DEF AskedOK
<1> HIDE DEF r
<1>2. Len(r.attempts) <= Bound(r) /\ r.asked <= 2 * Bound(r)
  <2>1. /\ Len(r.attempts) <= Bound(r)
        /\ r.asked <= Len(r.attempts) + Bound(r) \/ r.asked <= Len(r.attempts) + 0
    BY <1>1 DEF AskedBound
  <2> QED
    BY <1>1, <2>1
<1>3. ASSUME r.error = "stopped after maximum redirects"
      PROVE  Cardinality(redirectsFromAttempts(r)) = r.follow
  <2>1. Len(r.attempts) = r.follow /\ \A i \in 1..r.follow : r.attempts[i] = "redirect"
    BY <1>1, <1>3 DEF AskedBound
  <2>2. DOMAIN r.attempts = 1..r.follow
    BY <1>1, <2>1
  <2>3. redirectsFromAttempts(r) = 1..r.follow
    BY <2>1, <2>2 DEF redirectsFromAttempts
  <2>4. Cardinality(1..r.follow) = r.follow
    <3> DEFINE n == r.follow
    <3>1. n \in Int /\ n >= 0 /\ 1 \in Int
      BY <1>1
    <3> HIDE DEF n
    <3>2. Cardinality(1..n) = IF 1 > n THEN 0 ELSE n - 1 + 1
      BY <3>1, FS_Interval
    <3>3. Cardinality(1..n) = n
      BY <3>1, <3>2
    <3> QED
      BY <3>3 DEF n
  <2> QED
    BY <2>3, <2>4
<1> QED
  BY <1>2, <1>3 DEF Bound, r

\* The calls of the executor keep their invariant, whatever the other parts do.
LEMMA CallsInvariant == Spec => []ExecutorInv
<1>1. Init => ExecutorInv
  BY ExecutorInitial DEF Init
<1>2. ExecutorInv /\ [Next]_vars => ExecutorInv'
  <2>1. [Next]_vars => [ExecutorNext]_executorVars
    BY DEF Next, vars
  <2> QED
    BY <2>1, ExecutorStep
<1> QED
  BY <1>1, <1>2, PTL DEF Spec

\* The page is never stuck, what it shows is in the history once, a send that
\* none overlapped can be cancelled and keeps the variables of the session,
\* retries are bounded, and a script that settled leaves nothing behind, for
\* any clicks, retries and scripts.  A call of the executor dials with a
\* transport of its own settings that it shares with the calls that have them
\* too, what it returns is whole or marked, a stream ends once, and its requests
\* are bounded, for any number of concurrent calls, any settings and limits.
THEOREM ExecutionStaysInControl == Spec => []ExecutionIsInControl
<1>1. ExecutionInv /\ ScriptInv => PageIsInControl
  BY PageFacts DEF PageIsInControl, ScriptInv, ScriptRec, ScriptTypeOK
<1>2. ExecutorInv => CallsAreFaithful
  BY TransportFacts, BodyFacts, FinalFacts, RequestFacts DEF CallsAreFaithful
<1> QED
  BY <1>1, <1>2, PageInvariant, CallsInvariant, PTL DEF ExecutionIsInControl

-----------------------------------------------------------------------------
(* Lists of headers.                                                       *)

\* The places of the elements of Kept(s, K) in s: all of K, in order.
Places(t, s, K, at) ==
  /\ at \in [DOMAIN t -> K]
  /\ \A i \in DOMAIN t : t[i] = s[at[i]]
  /\ \A i, j \in DOMAIN t : i < j => at[i] < at[j]
  /\ \A k \in K : \E i \in DOMAIN t : at[i] = k

LEMMA KeptPlaces ==
  ASSUME NEW T, NEW s \in Seq(T), NEW K \in SUBSET DOMAIN s
  PROVE  Kept(s, K) \in Seq(T) /\ \E at : Places(Kept(s, K), s, K, at)
<1> DEFINE upTo(k) == {j \in K : j <= k}
           n == Cardinality(K)
           rank == [k \in K |-> Cardinality(upTo(k))]
<1>1. K \in SUBSET (1..Len(s)) /\ Len(s) \in Nat /\ \A k \in K : s[k] \in T
  OBVIOUS
<1>2. IsFiniteSet(K) /\ n \in Nat
  <2>1. IsFiniteSet(1..Len(s))
    BY <1>1, FS_Interval
  <2>2. IsFiniteSet(K)
    BY <1>1, <2>1, FS_Subset
  <2> QED
    BY <2>2, FS_CardinalityType
<1>3. ASSUME NEW k \in K
      PROVE  upTo(k) \in SUBSET K /\ IsFiniteSet(upTo(k)) /\ rank[k] = Cardinality(upTo(k)) /\ rank[k] \in 1..n
  <2>1. upTo(k) \in SUBSET K /\ k \in upTo(k)
    BY <1>1
  <2>2. IsFiniteSet(upTo(k)) /\ Cardinality(upTo(k)) <= n
    BY <1>2, <2>1, FS_Subset
  <2>3. Cardinality(upTo(k)) \in Nat /\ Cardinality(upTo(k)) # 0
    BY <2>1, <2>2, FS_CardinalityType, FS_EmptySet
  <2>4. rank[k] = Cardinality(upTo(k))
    OBVIOUS
  <2> HIDE DEF n, upTo, rank
  <2> QED
    BY <1>2, <2>1, <2>2, <2>3, <2>4
<1>4. ASSUME NEW k \in K, NEW l \in K, k < l PROVE rank[k] < rank[l]
  <2>1. upTo(k) \in SUBSET upTo(l) /\ l \in upTo(l) /\ l \notin upTo(k)
    BY <1>1, <1>4
  <2>2. /\ Cardinality(upTo(k)) <= Cardinality(upTo(l))
        /\ Cardinality(upTo(l)) # Cardinality(upTo(k))
    BY <1>3, <2>1, FS_Subset
  <2> HIDE DEF rank, n, upTo
  <2>3. rank[k] \in 1..n /\ rank[l] \in 1..n /\ rank[k] <= rank[l] /\ rank[k] # rank[l]
    BY <1>3, <2>2
  <2> QED
    BY <1>2, <2>3
<1> HIDE DEF upTo
<1>5. rank \in Injection(K, 1..n)
  <2>1. rank \in [K -> 1..n]
    BY <1>3
  <2>2. \A k, l \in K : k = l \/ k < l \/ l < k
    BY <1>1
  <2>3. \A k \in K : rank[k] \in Int
    BY <1>2, <1>3
  <2> HIDE DEF rank, n
  <2>4. \A k, l \in K : rank[k] = rank[l] => k = l
    BY <1>4, <2>2, <2>3
  <2> QED
    BY <2>1, <2>4 DEF Injection, IsInjective
<1>6. \A i \in 1..n : \E k \in K : rank[k] = i
  <2>1. IsFiniteSet(1..n) /\ Cardinality(1..n) = n
    BY <1>2, FS_Interval
  <2>2. rank \in Surjection(K, 1..n)
    <3> HIDE DEF rank
    <3> QED
      BY <1>5, <2>1, FS_Injection
  <2> HIDE DEF rank, n
  <2> QED
    BY <2>2 DEF Surjection
<1> DEFINE at == [i \in 1..n |-> CHOOSE k \in K : Cardinality({j \in K : j <= k}) = i]
           t == Kept(s, K)
<1>7. \A i \in 1..n : at[i] \in K /\ rank[at[i]] = i
  <2> SUFFICES ASSUME NEW i \in 1..n PROVE at[i] \in K /\ rank[at[i]] = i
    OBVIOUS
  <2>1. \A k \in K : rank[k] = Cardinality({j \in K : j <= k})
    BY DEF upTo
  <2> HIDE DEF rank
  <2>2. \E k \in K : Cardinality({j \in K : j <= k}) = i
    BY <1>6, <2>1
  <2>3. at[i] \in K /\ Cardinality({j \in K : j <= at[i]}) = i
    BY <2>2
  <2> HIDE DEF at
  <2> QED
    BY <2>1, <2>3
<1>8. t = [i \in 1..n |-> s[at[i]]]
  BY DEF Kept
<1> HIDE DEF n, rank, at, t
<1>9. t \in Seq(T) /\ DOMAIN t = 1..n
  BY <1>1, <1>2, <1>7, <1>8
<1>10. ASSUME NEW i \in 1..n, NEW j \in 1..n, i < j PROVE at[i] < at[j]
  <2>1. at[i] \in K /\ at[j] \in K /\ rank[at[i]] = i /\ rank[at[j]] = j /\ i # j /\ ~(j < i)
    BY <1>2, <1>7, <1>10
  <2>2. at[i] = at[j] \/ at[i] < at[j] \/ at[j] < at[i]
    BY <1>1, <2>1
  <2> QED
    BY <1>4, <2>1, <2>2
<1>11. ASSUME NEW k \in K PROVE \E i \in 1..n : at[i] = k
  <2>1. rank[k] \in 1..n
    BY <1>3
  <2>2. at[rank[k]] \in K /\ rank[at[rank[k]]] = rank[k]
    BY <1>7, <2>1
  <2>3. \A x \in K, y \in K : rank[x] = rank[y] => x = y
    BY <1>5 DEF Injection, IsInjective
  <2> QED
    BY <2>1, <2>2, <2>3
<1>12. Places(t, s, K, at)
  <2>1. at \in [DOMAIN t -> K] /\ \A i \in DOMAIN t : t[i] = s[at[i]]
    BY <1>7, <1>8, <1>9 DEF at
  <2> QED
    BY <1>9, <1>10, <1>11, <2>1 DEF Places
<1> QED
  BY <1>9, <1>12 DEF t

IsName(key) == key[1] = "" <=> key[2] = ""
IsHeader(h) ==
  /\ h = [key |-> h.key, value |-> h.value, enabled |-> h.enabled]
  /\ h.enabled \in BOOLEAN /\ IsName(h.key)
List(hs) == hs \in Seq(ToSet(hs)) /\ \A i \in DOMAIN hs : IsHeader(hs[i])
Sendable(hs) == \A i \in DOMAIN hs : hs[i].enabled /\ hs[i].key[2] # ""

\* t has of k what s has, and not more often.
Alike(s, t, k) ==
  /\ ValueOf(t, k) = ValueOf(s, k)
  /\ HasKey(t, k) <=> HasKey(s, k)
  /\ Once(s, k) => Once(t, k)

LEMMA AlikeIsTransitive ==
  ASSUME NEW s, NEW t, NEW u, NEW k, Alike(s, t, k), Alike(t, u, k)
  PROVE  Alike(s, u, k)
BY DEF Alike

LEMMA KeyHasValues ==
  ASSUME NEW hs, NEW k
  PROVE  HasKey(hs, k) <=> ValueOf(hs, k) # {}
BY DEF HasKey, ValueOf

LEMMA OneValue ==
  ASSUME NEW hs, NEW i \in DOMAIN hs, Once(hs, hs[i].key[1])
  PROVE  ValueOf(hs, hs[i].key[1]) = {hs[i].value}
BY DEF Once, ValueOf

LEMMA ListOf ==
  ASSUME NEW T, NEW s \in Seq(T), \A i \in DOMAIN s : IsHeader(s[i])
  PROVE  List(s)
<1>1. \A i \in 1..Len(s) : s[i] \in ToSet(s)
  BY DEF ToSet
<1>2. s \in Seq(ToSet(s))
  BY <1>1
<1> QED
  BY <1>2 DEF List

LEMMA ListShape ==
  ASSUME NEW s, List(s)
  PROVE  DOMAIN s = 1..Len(s) /\ Len(s) \in Nat
<1>1. s \in Seq(ToSet(s))
  BY DEF List
<1> QED
  BY <1>1

LEMMA FunctionIsSequence ==
  ASSUME NEW n \in Nat, NEW s, s = [i \in 1..n |-> s[i]], NEW T, \A i \in 1..n : s[i] \in T
  PROVE  s \in Seq(T)
OBVIOUS

LEMMA ListAppend ==
  ASSUME NEW s, List(s), NEW h
  PROVE  /\ Len(s) + 1 \in DOMAIN Append(s, h) /\ Append(s, h)[Len(s) + 1] = h
         /\ \A i \in 1..Len(s) : Append(s, h)[i] = s[i]
<1> DEFINE T == ToSet(s) \union {h}
<1>1. s \in Seq(T) /\ h \in T
  BY DEF List
<1> HIDE DEF T
<1>2. /\ Append(s, h) \in Seq(T) /\ Len(Append(s, h)) = Len(s) + 1 /\ Len(s) \in Nat
      /\ Append(s, h)[Len(s) + 1] = h /\ \A i \in 1..Len(s) : Append(s, h)[i] = s[i]
  BY <1>1
<1>3. DOMAIN Append(s, h) = 1..(Len(s) + 1)
  BY <1>2
<1> QED
  BY <1>2, <1>3

\* What is kept of a list is of the list, and a name of which all is kept is as it was.
LEMMA KeptHeaders ==
  ASSUME NEW s, List(s), NEW K \in SUBSET DOMAIN s
  PROVE  /\ List(Kept(s, K))
         /\ \A i \in DOMAIN Kept(s, K) : \E k \in K : Kept(s, K)[i] = s[k]
         /\ \A k \in K : \E i \in DOMAIN Kept(s, K) : Kept(s, K)[i] = s[k]
         /\ \A k : (\A i \in DOMAIN s : s[i].key[1] = k => i \in K) => Alike(s, Kept(s, K), k)
         /\ \A k : Once(s, k) => Once(Kept(s, K), k)
<1> DEFINE t == Kept(s, K)
<1>1. PICK at : Places(t, s, K, at)
  BY KeptPlaces DEF List
<1>2. t \in Seq(ToSet(s)) /\ s \in Seq(ToSet(s)) /\ \A i \in DOMAIN s : IsHeader(s[i])
  BY KeptPlaces DEF List
<1> HIDE DEF t
<1>3. /\ \A i \in DOMAIN t : at[i] \in K /\ at[i] \in DOMAIN s /\ t[i] = s[at[i]]
      /\ \A k \in K : \E i \in DOMAIN t : at[i] = k
  BY <1>1 DEF Places
<1>4. \A i, j \in DOMAIN t : at[i] = at[j] => i = j
  <2>1. DOMAIN t = 1..Len(t) /\ \A i \in DOMAIN t : at[i] \in 1..Len(s)
    BY <1>2, <1>3
  <2>2. \A i, j \in DOMAIN t : i = j \/ i < j \/ j < i
    BY <2>1
  <2>3. \A i, j \in DOMAIN t : i < j => at[i] # at[j]
    BY <1>1, <2>1 DEF Places
  <2> QED
    BY <2>2, <2>3
<1>5. ASSUME NEW k, \A i \in DOMAIN s : s[i].key[1] = k => i \in K
      PROVE  ValueOf(t, k) = ValueOf(s, k)
  <2>1. \A i \in DOMAIN t : t[i].key[1] = k => at[i] \in DOMAIN s /\ s[at[i]].key[1] = k /\ t[i].value = s[at[i]].value
    BY <1>3
  <2>2. \A j \in DOMAIN s : s[j].key[1] = k =>
          \E i \in DOMAIN t : t[i].key[1] = k /\ t[i].value = s[j].value
    BY <1>3, <1>5
  <2> QED
    BY <2>1, <2>2 DEF ValueOf
<1>6. ASSUME NEW k, Once(s, k) PROVE Once(t, k)
  BY <1>3, <1>4, <1>6 DEF Once
<1>7. \A k : ValueOf(t, k) = ValueOf(s, k) => (HasKey(t, k) <=> HasKey(s, k))
  BY KeyHasValues
<1>8. List(t)
  <2>1. \A i \in DOMAIN t : IsHeader(t[i])
    BY <1>2, <1>3
  <2> QED
    BY <1>2, <2>1, ListOf
<1> QED
  BY <1>8, <1>3, <1>5, <1>6, <1>7 DEF t, Alike

\* One header more.
LEMMA AppendedHeader ==
  ASSUME NEW s, List(s), NEW h, IsHeader(h)
  PROVE  /\ List(Append(s, h))
         /\ HasKey(Append(s, h), h.key[1]) /\ h.value \in ValueOf(Append(s, h), h.key[1])
         /\ \A k : k # h.key[1] => Alike(s, Append(s, h), k)
         /\ ~HasKey(s, h.key[1]) =>
              Once(Append(s, h), h.key[1]) /\ ValueOf(Append(s, h), h.key[1]) = {h.value}
         /\ Sendable(s) /\ h.enabled /\ h.key[2] # "" => Sendable(Append(s, h))
<1> DEFINE t == Append(s, h)
           n == Len(s)
<1>0. s \in Seq(ToSet(s)) /\ \A i \in DOMAIN s : IsHeader(s[i])
  BY DEF List
<1>1. /\ t \in Seq(ToSet(s) \union {h}) /\ n \in Nat
      /\ DOMAIN s = 1..n /\ DOMAIN t = 1..(n + 1) /\ t[n + 1] = h /\ \A i \in 1..n : t[i] = s[i]
  <2> DEFINE T == ToSet(s) \union {h}
  <2>1. s \in Seq(T) /\ h \in T
    BY <1>0
  <2> HIDE DEF T
  <2>2. /\ t \in Seq(T) /\ n \in Nat
        /\ DOMAIN s = 1..n /\ DOMAIN t = 1..(n + 1) /\ t[n + 1] = h /\ \A i \in 1..n : t[i] = s[i]
    BY <2>1
  <2> QED
    BY <2>2 DEF T
<1>2. n + 1 \in DOMAIN t /\ n + 1 \notin DOMAIN s /\ DOMAIN t = DOMAIN s \union {n + 1}
  BY <1>1
<1> HIDE DEF t, n
<1>3. \A i \in DOMAIN s : t[i] = s[i]
  BY <1>1
<1>4. HasKey(t, h.key[1]) /\ h.value \in ValueOf(t, h.key[1])
  BY <1>1, <1>2 DEF HasKey, ValueOf
<1>5. ASSUME NEW k, k # h.key[1] PROVE Alike(s, t, k)
  BY <1>1, <1>2, <1>3, <1>5 DEF Alike, ValueOf, HasKey, Once
<1>6. ASSUME ~HasKey(s, h.key[1])
      PROVE  Once(t, h.key[1]) /\ ValueOf(t, h.key[1]) = {h.value}
  <2>1. \A i \in DOMAIN t : t[i].key[1] = h.key[1] => i = n + 1
    BY <1>2, <1>3, <1>6 DEF HasKey
  <2> QED
    BY <1>1, <1>2, <2>1 DEF Once, ValueOf
<1>7. Sendable(s) /\ h.enabled /\ h.key[2] # "" => Sendable(t)
  BY <1>1, <1>2, <1>3 DEF Sendable
<1>8. List(t)
  <2>1. \A i \in DOMAIN t : IsHeader(t[i])
    BY <1>0, <1>1, <1>2, <1>3
  <2> QED
    BY <1>1, <2>1, ListOf
<1> QED
  BY <1>8, <1>4, <1>5, <1>6, <1>7 DEF t

LEMMA WithoutName ==
  ASSUME NEW s, List(s), NEW n
  PROVE  /\ List(Without(s, n)) /\ ~HasKey(Without(s, n), n)
         /\ \A k : k # n => Alike(s, Without(s, n), k)
         /\ Sendable(s) => Sendable(Without(s, n))
<1> DEFINE K == {i \in DOMAIN s : s[i].key[1] # n}
<1>1. /\ List(Kept(s, K))
      /\ \A i \in DOMAIN Kept(s, K) : \E k \in K : Kept(s, K)[i] = s[k]
      /\ \A k : (\A i \in DOMAIN s : s[i].key[1] = k => i \in K) => Alike(s, Kept(s, K), k)
  <2>1. K \in SUBSET DOMAIN s
    OBVIOUS
  <2> HIDE DEF K
  <2> QED
    BY <2>1, KeptHeaders
<1>2. Without(s, n) = Kept(s, K)
  BY DEF Without
<1>3. ~HasKey(Kept(s, K), n)
  BY <1>1 DEF HasKey
<1>4. Sendable(s) => Sendable(Kept(s, K))
  BY <1>1 DEF Sendable
<1> QED
  BY <1>1, <1>2, <1>3, <1>4

\* The last enabled header of its name.
Wins(hs, i) ==
  /\ hs[i].enabled /\ hs[i].key[2] # ""
  /\ \A j \in (i + 1)..Len(hs) : hs[j].enabled => hs[j].key[1] # hs[i].key[1]

LEMMA GreatestPlace ==
  ASSUME NEW n \in Nat, NEW S \in SUBSET (1..n), S # {}
  PROVE  \E m \in S : \A k \in S : k <= m
<1> DEFINE T == {n - k : k \in S}
<1>1. ASSUME NEW R, R = OpToRel(<, Nat) PROVE \E m \in T : \A k \in T : ~(<<k, m>> \in R)
  <2>1. IsWellFoundedOn(R, Nat)
    BY <1>1, NatLessThanWellFounded
  <2>2. T \in SUBSET Nat /\ T # {}
    <3>1. \A k \in S : n - k \in Nat
      OBVIOUS
    <3> QED
      BY <3>1
  <2> HIDE DEF T
  <2> QED
    BY <2>1, <2>2, WFMin
<1>2. \A x, y \in Nat : x < y => <<x, y>> \in OpToRel(<, Nat)
  BY DEF OpToRel
<1>3. PICK m \in T : \A k \in T : ~(<<k, m>> \in OpToRel(<, Nat))
  BY <1>1
<1>4. PICK l \in S : m = n - l
  OBVIOUS
<1>5. ASSUME NEW k \in S PROVE k <= l
  <2>1. n - k \in T /\ n - k \in Nat /\ m \in Nat
    BY <1>4
  <2>2. ~(n - k < m)
    BY <1>2, <1>3, <2>1
  <2> QED
    BY <1>4, <2>2
<1> QED
  BY <1>5

\* A deduplicated list has each name once, with its last enabled header.
LEMMA DedupedHeaders ==
  ASSUME NEW hs, List(hs)
  PROVE  /\ List(Deduped(hs)) /\ Sendable(Deduped(hs))
         /\ \A i \in DOMAIN Deduped(hs) : \E j \in DOMAIN hs : Deduped(hs)[i] = hs[j]
         /\ \A k : Once(Deduped(hs), k)
         /\ \A i \in DOMAIN hs : Wins(hs, i) => ValueOf(Deduped(hs), hs[i].key[1]) = {hs[i].value}
         /\ \A i \in DOMAIN hs : hs[i].enabled /\ hs[i].key[2] # "" => HasKey(Deduped(hs), hs[i].key[1])
<1> DEFINE K == {i \in DOMAIN hs : hs[i].enabled /\ hs[i].key[2] # ""}
           on == Kept(hs, K)
           L == {i \in DOMAIN on : \A j \in (i + 1)..Len(on) : on[j].key[1] # on[i].key[1]}
           d == Kept(on, L)
<1>1. K \in SUBSET DOMAIN hs /\ \A i \in K : hs[i].enabled /\ hs[i].key[2] # ""
  OBVIOUS
<1>2. on = On(hs) /\ d = Deduped(hs)
  BY DEF On, Deduped
<1>3. /\ List(on) /\ on \in Seq(ToSet(on)) /\ hs \in Seq(ToSet(hs))
      /\ \E at : Places(on, hs, K, at)
  <2> HIDE DEF K
  <2> QED
    BY <1>1, KeptPlaces, KeptHeaders DEF List
<1>4. PICK at : Places(on, hs, K, at)
  BY <1>3
<1>5. \A i \in DOMAIN hs : hs[i].enabled /\ hs[i].key[2] # "" => i \in K
  OBVIOUS
<1> HIDE DEF K, on
<1>6. /\ DOMAIN on = 1..Len(on) /\ Len(on) \in Nat /\ DOMAIN hs = 1..Len(hs) /\ Len(hs) \in Nat
      /\ \A i \in DOMAIN on : at[i] \in K /\ at[i] \in DOMAIN hs /\ on[i] = hs[at[i]]
      /\ \A k \in K : \E i \in DOMAIN on : at[i] = k
      /\ \A i, j \in DOMAIN on : i < j => at[i] < at[j]
  <2>1. DOMAIN on = 1..Len(on) /\ Len(on) \in Nat /\ DOMAIN hs = 1..Len(hs) /\ Len(hs) \in Nat
    BY <1>3
  <2>2. /\ \A i \in DOMAIN on : at[i] \in K /\ on[i] = hs[at[i]]
        /\ \A k \in K : \E i \in DOMAIN on : at[i] = k
        /\ \A i, j \in DOMAIN on : i < j => at[i] < at[j]
    BY <1>4, Zenon DEF Places
  <2> QED
    BY <1>1, <2>1, <2>2, Zenon
<1>7. L \in SUBSET DOMAIN on
  OBVIOUS
<1>8. /\ List(d) /\ d \in Seq(ToSet(d))
      /\ \A i \in DOMAIN d : \E k \in L : d[i] = on[k]
      /\ \A k \in L : \E i \in DOMAIN d : d[i] = on[k]
  <2> HIDE DEF L
  <2> QED
    BY <1>3, <1>7, KeptHeaders DEF List
<1>9. ASSUME NEW k PROVE Once(d, k)
  <2>1. \E to : Places(d, on, L, to)
    <3> HIDE DEF L
    <3> QED
      BY <1>3, <1>7, KeptPlaces
  <2>2. PICK to : Places(d, on, L, to)
    BY <2>1
  <2>3. \A x, y \in L : on[x].key[1] = on[y].key[1] => x = y
    <3> SUFFICES ASSUME NEW x \in L, NEW y \in L, on[x].key[1] = on[y].key[1], x # y PROVE FALSE
      OBVIOUS
    <3>1. x \in 1..Len(on) /\ y \in 1..Len(on)
      BY <1>6, <1>7
    <3>2. x \in (y + 1)..Len(on) \/ y \in (x + 1)..Len(on)
      BY <1>6, <3>1
    <3> QED
      BY <3>2
  <2> HIDE DEF L, d
  <2>4. /\ DOMAIN d = 1..Len(d)
        /\ \A i \in DOMAIN d : to[i] \in L /\ to[i] \in 1..Len(on) /\ d[i] = on[to[i]]
        /\ \A i, j \in DOMAIN d : i < j => to[i] < to[j]
    BY <1>6, <1>7, <1>8, <2>2 DEF Places
  <2>5. \A i, j \in DOMAIN d : to[i] = to[j] => i = j
    <3> SUFFICES ASSUME NEW i \in DOMAIN d, NEW j \in DOMAIN d, to[i] = to[j], i # j PROVE FALSE
      OBVIOUS
    <3>1. (i < j \/ j < i) /\ to[i] \in Int
      BY <2>4
    <3>2. to[i] < to[j] \/ to[j] < to[i]
      BY <2>4, <3>1
    <3> QED
      BY <3>1, <3>2
  <2> QED
    BY <2>3, <2>4, <2>5 DEF Once
<1>10. ASSUME NEW i \in DOMAIN d
       PROVE  \E j \in DOMAIN hs : d[i] = hs[j] /\ hs[j].enabled /\ hs[j].key[2] # ""
  <2>1. PICK k \in L : d[i] = on[k]
    BY <1>8
  <2>2. at[k] \in K /\ at[k] \in DOMAIN hs /\ on[k] = hs[at[k]]
    BY <1>6, <1>7
  <2> QED
    BY <1>1, <2>1, <2>2
<1>11. ASSUME NEW i \in DOMAIN hs, Wins(hs, i)
       PROVE  ValueOf(d, hs[i].key[1]) = {hs[i].value}
  <2>1. i \in K
    BY <1>5, <1>11 DEF Wins
  <2>2. PICK k \in DOMAIN on : at[k] = i
    BY <1>6, <2>1
  <2>3. on[k] = hs[i]
    BY <1>6, <2>2
  <2>4. ASSUME NEW j \in (k + 1)..Len(on) PROVE on[j].key[1] # on[k].key[1]
    <3>1. j \in DOMAIN on /\ k < j
      BY <1>6
    <3>2. at[j] \in K /\ i < at[j] /\ on[j] = hs[at[j]] /\ at[j] \in 1..Len(hs)
      BY <1>6, <2>2, <3>1
    <3>3. at[j] \in (i + 1)..Len(hs)
      <4>1. i \in 1..Len(hs) /\ Len(hs) \in Nat
        BY <1>6
      <4> QED
        BY <3>2, <4>1
    <3>4. hs[at[j]].enabled
      BY <1>1, <3>2
    <3> QED
      BY <1>11, <2>3, <3>2, <3>3, <3>4 DEF Wins
  <2>5. k \in L
    BY <2>4
  <2>6. PICK j \in DOMAIN d : d[j] = on[k]
    BY <1>8, <2>5
  <2> HIDE DEF d, L
  <2>7. d[j] = hs[i] /\ Once(d, d[j].key[1])
    BY <1>9, <2>3, <2>6
  <2>8. ValueOf(d, d[j].key[1]) = {d[j].value}
    BY <2>7, OneValue
  <2> QED
    BY <2>7, <2>8
<1>12. ASSUME NEW i \in DOMAIN hs, hs[i].enabled, hs[i].key[2] # ""
       PROVE  HasKey(d, hs[i].key[1])
  <2> DEFINE S == {j \in DOMAIN on : on[j].key[1] = hs[i].key[1]}
  <2>1. PICK k \in DOMAIN on : at[k] = i
    BY <1>5, <1>6, <1>12
  <2>2. k \in S /\ S \in SUBSET (1..Len(on))
    BY <1>6, <2>1
  <2>3. PICK m \in S : \A j \in S : j <= m
    <3> HIDE DEF S
    <3> QED
      BY <1>6, <2>2, GreatestPlace
  <2>4. ASSUME NEW j \in (m + 1)..Len(on), on[j].key[1] = on[m].key[1] PROVE FALSE
    <3>1. j \in DOMAIN on /\ ~(j <= m)
      BY <1>6, <2>2
    <3> QED
      BY <2>3, <2>4, <3>1
  <2>5. m \in L
    BY <2>4
  <2>6. PICK j \in DOMAIN d : d[j] = on[m]
    BY <1>8, <2>5
  <2> QED
    BY <2>6 DEF HasKey
<1> HIDE DEF d, L
<1>13. Sendable(d)
  BY <1>10 DEF Sendable
<1> QED
  BY <1>2, <1>8, <1>9, <1>10, <1>11, <1>12, <1>13, Zenon

IsAuth(a) ==
  /\ a = [type |-> a.type, username |-> a.username, token |-> a.token, keyName |-> a.keyName, in |-> a.in]
  /\ IsName(a.keyName)
IsRequest(r) ==
  /\ r = [method |-> r.method, query |-> r.query, params |-> r.params, headers |-> r.headers,
          bodyMode |-> r.bodyMode, body |-> r.body, auth |-> r.auth, options |-> r.options]
  /\ List(r.headers) /\ IsAuth(r.auth)

LEMMA OwnNames ==
  /\ IsName(AuthorizationKey) /\ AuthorizationKey[1] = "authorization" /\ AuthorizationKey[2] # ""
  /\ IsName(TypeKey) /\ TypeKey[1] = "content-type" /\ TypeKey[2] # ""
  /\ IsName(CookieKey) /\ CookieKey[1] = "cookie" /\ CookieKey[2] # ""
BY DEF AuthorizationKey, TypeKey, CookieKey, IsName

LEMMA AlikeItself == ASSUME NEW hs, NEW k PROVE Alike(hs, hs, k)
BY DEF Alike

\* The content type of the page is the only header it adds.
LEMMA TypedHeaders ==
  ASSUME NEW hs, List(hs), NEW mode
  PROVE  LET t == Typed(hs, mode)
         IN  /\ List(t) /\ (Sendable(hs) => Sendable(t))
             /\ \A k : k # "content-type" \/ mode = "none" => Alike(hs, t, k)
<1> DEFINE h == H(TypeKey, AutoType(mode))
<1>2. IsHeader(h) /\ h.key = TypeKey /\ h.enabled
  BY OwnNames DEF H, IsHeader
<1>3. AutoType("none") = ""
  BY DEF AutoType
<1> HIDE DEF h
<1>4. CASE Typed(hs, mode) = hs
  BY <1>4, AlikeItself
<1>5. CASE Typed(hs, mode) = Append(hs, h) /\ mode # "none"
  <2>1. /\ List(Append(hs, h))
        /\ \A k : k # "content-type" => Alike(hs, Append(hs, h), k)
        /\ Sendable(hs) => Sendable(Append(hs, h))
    BY <1>2, AppendedHeader, OwnNames
  <2> QED
    BY <1>5, <2>1
<1> QED
  BY <1>3, <1>4, <1>5 DEF Typed, h

\* The server's content type takes the place of another, and no other header's;
\* that of a raw body gives way.
LEMMA ServerType ==
  ASSUME NEW hs, List(hs), NEW input
  PROVE  LET t == WithType(hs, serializeBody(input))
         IN  /\ List(t) /\ (Sendable(hs) => Sendable(t))
             /\ \A k : k # "content-type" => Alike(hs, t, k)
             /\ input.bodyMode = "none" /\ HasKey(hs, "content-type") => t = hs
<1> DEFINE s == serializeBody(input)
           h == H(TypeKey, s.type)
           w == Without(hs, "content-type")
<1>1. input.bodyMode = "none" => s.soft
  BY DEF serializeBody
<1> HIDE DEF s
<1>2. IsHeader(h) /\ h.key = TypeKey /\ h.enabled
  BY OwnNames DEF H, IsHeader
<1> HIDE DEF h
<1>3. /\ List(w) /\ (Sendable(hs) => Sendable(w))
      /\ \A k : k # "content-type" => Alike(hs, w, k)
  BY WithoutName
<1> HIDE DEF w
<1>4. CASE WithType(hs, s) = hs
  BY <1>4, AlikeItself DEF s
<1>5. CASE WithType(hs, s) = Append(w, h)
  <2>1. /\ List(Append(w, h))
        /\ \A k : k # "content-type" => Alike(w, Append(w, h), k)
        /\ Sendable(w) => Sendable(Append(w, h))
    BY <1>2, <1>3, AppendedHeader, OwnNames
  <2>2. \A k : k # "content-type" => Alike(hs, Append(w, h), k)
    BY <1>3, <2>1, AlikeIsTransitive
  <2>3. input.bodyMode = "none" /\ HasKey(hs, "content-type") => WithType(hs, s) = hs
    BY <1>1 DEF WithType
  <2> QED
    BY <1>3, <1>5, <2>1, <2>2, <2>3 DEF s
<1>6. WithType(hs, s) = hs \/ WithType(hs, s) = Append(w, h)
  BY DEF WithType, w, h
<1> QED
  BY <1>4, <1>5, <1>6

\* Credentials are one header or none.
Carries(a, key, value) ==
  \/ a.type = "basic" /\ a.username # "" /\ key = AuthorizationKey /\ value = <<"Basic", a.username>>
  \/ a.type \in {"bearer", "oauth2"} /\ a.token # "" /\ key = AuthorizationKey /\ value = <<"Bearer", a.token>>
  \/ /\ a.type = "api-key" /\ a.in = "header" /\ a.token # "" /\ a.keyName[2] # ""
     /\ key = a.keyName /\ value = a.token

LEMMA OneCredential ==
  ASSUME NEW a, IsAuth(a)
  PROVE  \/ Credentials(a) = <<>> /\ \A key, value : ~Carries(a, key, value)
         \/ \E key, value : IsName(key) /\ Carries(a, key, value) /\ Credentials(a) = <<H(key, value)>>
<1>1. IsName(a.keyName)
  BY DEF IsAuth
<1>3. CASE a.type = "basic" /\ a.username # ""
  <2>1. Credentials(a) = <<H(AuthorizationKey, <<"Basic", a.username>>)>>
    BY <1>3 DEF Credentials
  <2> QED
    BY <1>3, <2>1, OwnNames DEF Carries
<1>4. CASE a.type \in {"bearer", "oauth2"} /\ a.token # ""
  <2>1. Credentials(a) = <<H(AuthorizationKey, <<"Bearer", a.token>>)>>
    BY <1>4 DEF Credentials
  <2> QED
    BY <1>4, <2>1, OwnNames DEF Carries
<1>5. CASE a.type = "api-key" /\ a.in = "header" /\ a.token # "" /\ a.keyName[2] # ""
  <2>1. Credentials(a) = <<H(a.keyName, a.token)>>
    BY <1>5 DEF Credentials
  <2> QED
    BY <1>1, <1>5, <2>1 DEF Carries
<1>6. CASE /\ ~(a.type = "basic" /\ a.username # "") /\ ~(a.type \in {"bearer", "oauth2"} /\ a.token # "")
           /\ ~(a.type = "api-key" /\ a.in = "header" /\ a.token # "" /\ a.keyName[2] # "")
  <2>1. Credentials(a) = <<>>
    BY <1>6 DEF Credentials
  <2> QED
    BY <1>6, <2>1 DEF Carries
<1> QED
  BY <1>3, <1>4, <1>5, <1>6

\* t is hs and perhaps a credential under a name that hs does not have.
Authorized(a, hs, t) ==
  /\ List(t)
  /\ \A k : HasKey(hs, k) /\ k \notin InvokeHeaders => Alike(hs, t, k)
  /\ \A k : Once(hs, k) /\ k \notin InvokeHeaders => Once(t, k)
  /\ \A k : HasKey(t, k) /\ ~HasKey(hs, k) =>
       k = "x-invoke-ntlm-username" \/ \E key, value : Carries(a, key, value) /\ k = key[1]
  /\ \A key, value : Carries(a, key, value) /\ ~HasKey(hs, key[1]) /\ a.type # "ntlm" =>
       ValueOf(t, key[1]) = {value}

LEMMA AuthorizedHeaders ==
  ASSUME NEW a, IsAuth(a), NEW hs, List(hs), NEW query
  PROVE  Authorized(a, hs, applyAuthIfNeeded(a, hs, query).headers)
<1> DEFINE t == applyAuthIfNeeded(a, hs, query).headers
           user == H(<<"x-invoke-ntlm-username", "X-Invoke-Ntlm-Username">>, a.username)
<1>1. t = CASE a.type = "ntlm" /\ a.username # "" -> Append(hs, user)
            [] Credentials(a) # <<>> /\ ~HasKey(hs, Credentials(a)[1].key[1]) -> hs \o Credentials(a)
            [] OTHER -> hs
  BY DEF applyAuthIfNeeded
<1> HIDE DEF t, user
<1>2. \A key, value : Carries(a, key, value) => a.type # "ntlm"
  BY DEF Carries
<1>3. CASE a.type = "ntlm" /\ a.username # ""
  <2>1. IsHeader(user) /\ user.key[1] = "x-invoke-ntlm-username"
    BY DEF user, H, IsHeader, IsName
  <2>2. t = Append(hs, user)
    <3>1. Credentials(a) = <<>>
      BY <1>2, <1>3, OneCredential
    <3> QED
      BY <1>1, <1>3, <3>1
  <2>3. List(t) /\ \A k : k # "x-invoke-ntlm-username" => Alike(hs, t, k)
    BY <2>1, <2>2, AppendedHeader
  <2>4. "x-invoke-ntlm-username" \in InvokeHeaders
    BY DEF InvokeHeaders
  <2> QED
    BY <1>3, <2>3, <2>4 DEF Alike, t, Authorized
<1>4. CASE t = hs /\ \A key, value : ~Carries(a, key, value) \/ HasKey(hs, key[1])
  BY <1>4, AlikeItself DEF t, Authorized
<1>5. ASSUME NEW key, NEW value, IsName(key), Carries(a, key, value), Credentials(a) = <<H(key, value)>>
      PROVE  \/ t = hs /\ HasKey(hs, key[1])
             \/ ~HasKey(hs, key[1]) /\ t = Append(hs, H(key, value))
  <2>1. Credentials(a) # <<>> /\ Credentials(a)[1] = H(key, value)
    BY <1>5
  <2>2. H(key, value).key = key
    BY DEF H
  <2>3. hs \o <<H(key, value)>> = Append(hs, H(key, value))
    <3> DEFINE h == H(key, value)
               T == ToSet(hs) \union {h}
    <3>1. hs \in Seq(T) /\ h \in T
      BY DEF List
    <3> HIDE DEF T, h
    <3>2. hs \o <<h>> = Append(hs, h)
      BY <3>1
    <3> QED
      BY <3>2 DEF h
  <2> HIDE DEF H
  <2> QED
    BY <1>1, <1>2, <1>5, <2>1, <2>2, <2>3
<1>6. ASSUME NEW key, NEW value, NEW k, NEW v, Carries(a, key, value), Carries(a, k, v)
      PROVE  key = k /\ value = v
  <2>1. CASE a.type = "basic"
    BY <1>6, <2>1 DEF Carries
  <2>2. CASE a.type \in {"bearer", "oauth2"}
    BY <1>6, <2>2 DEF Carries
  <2>3. CASE a.type = "api-key"
    BY <1>6, <2>3 DEF Carries
  <2> QED
    BY <1>6, <2>1, <2>2, <2>3 DEF Carries
<1>7. ASSUME NEW key, NEW value, IsName(key), Carries(a, key, value),
             ~HasKey(hs, key[1]), t = Append(hs, H(key, value))
      PROVE  /\ List(t)
             /\ \A k : k # key[1] => Alike(hs, t, k)
             /\ Once(t, key[1]) /\ ValueOf(t, key[1]) = {value}
  <2> DEFINE h == H(key, value)
  <2>1. IsHeader(h) /\ h.key = key /\ h.value = value
    BY <1>7 DEF H, IsHeader
  <2> HIDE DEF h
  <2> QED
    BY <1>7, <2>1, AppendedHeader DEF h
<1>8. CASE \E key, value : IsName(key) /\ Carries(a, key, value) /\ Credentials(a) = <<H(key, value)>>
  <2>1. PICK key, value : IsName(key) /\ Carries(a, key, value) /\ Credentials(a) = <<H(key, value)>>
    BY <1>8
  <2>2. CASE t = hs /\ HasKey(hs, key[1])
    BY <1>4, <1>6, <2>1, <2>2
  <2>3. CASE ~HasKey(hs, key[1]) /\ t = Append(hs, H(key, value))
    <3>1. /\ List(t) /\ (\A k : k # key[1] => Alike(hs, t, k))
          /\ Once(t, key[1]) /\ ValueOf(t, key[1]) = {value}
      BY <1>7, <2>1, <2>3
    <3> QED
      BY <1>6, <2>1, <2>3, <3>1 DEF Alike, t, Authorized
  <2> QED
    BY <1>5, <2>1, <2>2, <2>3
<1>9. CASE Credentials(a) = <<>> /\ (\A key, value : ~Carries(a, key, value)) /\ ~(a.type = "ntlm" /\ a.username # "")
  <2>1. t = hs
    BY <1>1, <1>9
  <2> QED
    BY <1>4, <1>9, <2>1
<1> QED
  BY <1>3, <1>8, <1>9, OneCredential

\* The options travel under names of the executor.
LEMMA TransportOptions ==
  ASSUME NEW o
  PROVE  LET ts == TransportHeaders(o)
         IN  /\ ts \in Seq(ToSet(ts)) /\ \A i \in DOMAIN ts : IsHeader(ts[i]) /\ ts[i].key[1] \in InvokeHeaders
             /\ o.allowPrivate => \E i \in DOMAIN ts : ts[i].key[1] = "x-invoke-allow-private" /\ ts[i].value = "true"
             /\ \A i \in DOMAIN ts : ts[i].key[1] = "x-invoke-http-version-mode" =>
                  ts[i].value = o.httpVersion /\ o.httpVersion # "auto"
             /\ o.httpVersion # "auto" => HasKey(ts, "x-invoke-http-version-mode")
<1> DEFINE c == H(<<"x-invoke-connect-timeout-ms", "X-Invoke-Connect-Timeout-Ms">>, "1")
           p == H(<<"x-invoke-allow-private", "X-Invoke-Allow-Private">>, "true")
           v == H(<<"x-invoke-http-version-mode", "X-Invoke-Http-Version-Mode">>, o.httpVersion)
           T == {c, p, v}
           cs == IF o.connectTimeout THEN <<c>> ELSE <<>>
           ps == IF o.allowPrivate THEN <<p>> ELSE <<>>
           vs == IF o.httpVersion # "auto" THEN <<v>> ELSE <<>>
           ts == TransportHeaders(o)
<1>1. /\ IsHeader(c) /\ c.key[1] = "x-invoke-connect-timeout-ms"
      /\ IsHeader(p) /\ p.key[1] = "x-invoke-allow-private" /\ p.value = "true"
      /\ IsHeader(v) /\ v.key[1] = "x-invoke-http-version-mode" /\ v.value = o.httpVersion
  BY DEF H, IsHeader, IsName
<1>2. {"x-invoke-connect-timeout-ms", "x-invoke-allow-private", "x-invoke-http-version-mode"} \subseteq InvokeHeaders
  BY DEF InvokeHeaders
<1>3. ts = cs \o ps \o vs
  BY DEF TransportHeaders
<1> HIDE DEF c, p, v, ts
<1>4. /\ cs \in Seq(T) /\ \A i \in DOMAIN cs : cs[i] = c
      /\ ps \in Seq(T) /\ \A i \in DOMAIN ps : ps[i] = p
      /\ vs \in Seq(T) /\ \A i \in DOMAIN vs : vs[i] = v
  <2>1. ASSUME NEW x \in T
        PROVE  /\ <<x>> \in Seq(T) /\ <<>> \in Seq(T) /\ (\A i \in DOMAIN <<x>> : <<x>>[i] = x)
               /\ \A i \in DOMAIN <<>> : <<>>[i] = x
    <3> HIDE DEF T
    <3> QED
      OBVIOUS
  <2>2. c \in T /\ p \in T /\ v \in T
    OBVIOUS
  <2> HIDE DEF T
  <2>3. cs = <<c>> \/ cs = <<>>
    OBVIOUS
  <2>4. ps = <<p>> \/ ps = <<>>
    OBVIOUS
  <2>5. vs = <<v>> \/ vs = <<>>
    OBVIOUS
  <2> HIDE DEF cs, ps, vs
  <2>6. cs \in Seq(T) /\ \A i \in DOMAIN cs : cs[i] = c
    BY <2>1, <2>2, <2>3
  <2>7. ps \in Seq(T) /\ \A i \in DOMAIN ps : ps[i] = p
    BY <2>1, <2>2, <2>4
  <2>8. vs \in Seq(T) /\ \A i \in DOMAIN vs : vs[i] = v
    BY <2>1, <2>2, <2>5
  <2> QED
    BY <2>6, <2>7, <2>8
<1>5. /\ (o.allowPrivate => 1 \in DOMAIN ps) /\ (o.httpVersion # "auto" => 1 \in DOMAIN vs)
      /\ o.httpVersion = "auto" => DOMAIN vs = {}
  OBVIOUS
<1> HIDE DEF cs, ps, vs, T
<1>6. /\ ts \in Seq(T) /\ Len(cs) \in Nat /\ Len(ps) \in Nat /\ Len(vs) \in Nat
      /\ DOMAIN cs = 1..Len(cs) /\ DOMAIN ps = 1..Len(ps) /\ DOMAIN vs = 1..Len(vs)
      /\ DOMAIN ts = 1..(Len(cs) + Len(ps) + Len(vs))
      /\ \A i \in 1..Len(cs) : ts[i] = cs[i]
      /\ \A i \in 1..Len(ps) : ts[Len(cs) + i] = ps[i]
      /\ \A i \in 1..Len(vs) : ts[Len(cs) + Len(ps) + i] = vs[i]
  BY <1>3, <1>4
<1>7. ASSUME NEW i \in DOMAIN ts
      PROVE  ts[i] = c \/ ts[i] = p \/ (ts[i] = v /\ o.httpVersion # "auto")
  <2>1. \/ i \in 1..Len(cs)
        \/ i - Len(cs) \in 1..Len(ps) /\ i = Len(cs) + (i - Len(cs))
        \/ i - Len(cs) - Len(ps) \in 1..Len(vs) /\ i = Len(cs) + Len(ps) + (i - Len(cs) - Len(ps))
    BY <1>6
  <2>2. CASE i \in 1..Len(cs)
    BY <1>4, <1>6, <2>2
  <2>3. CASE i - Len(cs) \in 1..Len(ps) /\ i = Len(cs) + (i - Len(cs))
    BY <1>4, <1>6, <2>3
  <2>4. CASE i - Len(cs) - Len(ps) \in 1..Len(vs) /\ i = Len(cs) + Len(ps) + (i - Len(cs) - Len(ps))
    BY <1>4, <1>5, <1>6, <2>4
  <2> QED
    BY <2>1, <2>2, <2>3, <2>4
<1>8. /\ o.allowPrivate => \E i \in DOMAIN ts : ts[i] = p
      /\ o.httpVersion # "auto" => \E i \in DOMAIN ts : ts[i] = v
  <2>1. ASSUME 1 \in DOMAIN ps PROVE Len(cs) + 1 \in DOMAIN ts /\ ts[Len(cs) + 1] = p
    <3>1. 1 \in 1..Len(ps) /\ ps[1] = p
      BY <1>4, <1>6, <2>1
    <3>2. ts[Len(cs) + 1] = ps[1]
      BY <1>6, <3>1
    <3>3. Len(cs) + 1 \in 1..(Len(cs) + Len(ps) + Len(vs))
      BY <1>6, <3>1
    <3> QED
      BY <1>6, <3>1, <3>2, <3>3
  <2>2. ASSUME 1 \in DOMAIN vs
        PROVE  Len(cs) + Len(ps) + 1 \in DOMAIN ts /\ ts[Len(cs) + Len(ps) + 1] = v
    <3>1. 1 \in 1..Len(vs) /\ vs[1] = v
      BY <1>4, <1>6, <2>2
    <3>2. ts[Len(cs) + Len(ps) + 1] = vs[1]
      BY <1>6, <3>1
    <3>3. Len(cs) + Len(ps) + 1 \in 1..(Len(cs) + Len(ps) + Len(vs))
      BY <1>6, <3>1
    <3> QED
      BY <1>6, <3>1, <3>2, <3>3
  <2> QED
    BY <1>5, <2>1, <2>2
<1>9. ts \in Seq(ToSet(ts))
  <2>1. \A i \in 1..Len(ts) : ts[i] \in ToSet(ts)
    BY DEF ToSet
  <2> QED
    BY <1>6, <2>1
<1> QED
  BY <1>1, <1>2, <1>7, <1>8, <1>9 DEF ts, HasKey

LEMMA JoinedHeaders ==
  ASSUME NEW s, List(s), NEW t, List(t)
  PROVE  /\ List(s \o t)
         /\ \A i \in DOMAIN (s \o t) : (\E j \in DOMAIN s : (s \o t)[i] = s[j]) \/ \E j \in DOMAIN t : (s \o t)[i] = t[j]
         /\ \A j \in DOMAIN t : \E i \in DOMAIN (s \o t) : (s \o t)[i] = t[j]
         /\ \A k : ~HasKey(t, k) => Alike(s, s \o t, k)
<1> DEFINE u == s \o t
           T == ToSet(s) \union ToSet(t)
           m == Len(s)
           n == Len(t)
<1>1. /\ s \in Seq(ToSet(s)) /\ t \in Seq(ToSet(t))
      /\ (\A i \in DOMAIN s : IsHeader(s[i])) /\ \A i \in DOMAIN t : IsHeader(t[i])
  BY DEF List
<1>2. s \in Seq(T) /\ t \in Seq(T)
  BY <1>1
<1> HIDE DEF T
<1>3. /\ u \in Seq(T) /\ m \in Nat /\ n \in Nat
      /\ DOMAIN s = 1..m /\ DOMAIN t = 1..n /\ DOMAIN u = 1..(m + n)
      /\ (\A i \in 1..m : u[i] = s[i]) /\ \A i \in 1..n : u[m + i] = t[i]
  BY <1>2
<1> HIDE DEF u, m, n
<1>4. ASSUME NEW i \in DOMAIN u
      PROVE  (i \in DOMAIN s /\ u[i] = s[i]) \/ (i \notin DOMAIN s /\ \E j \in DOMAIN t : i = m + j /\ u[i] = t[j])
  <2>1. i \in 1..m \/ (i \notin 1..m /\ i - m \in 1..n /\ i = m + (i - m))
    BY <1>3
  <2>2. CASE i \in 1..m
    BY <1>3, <2>2
  <2>3. CASE i \notin 1..m /\ i - m \in 1..n /\ i = m + (i - m)
    BY <1>3, <2>3
  <2> QED
    BY <2>1, <2>2, <2>3
<1>5. ASSUME NEW j \in DOMAIN t PROVE m + j \in DOMAIN u /\ u[m + j] = t[j]
  BY <1>3
<1>6. List(u)
  <2>1. \A i \in DOMAIN u : IsHeader(u[i])
    BY <1>1, <1>4
  <2> QED
    BY <1>3, <2>1, ListOf
<1>7. ASSUME NEW k, ~HasKey(t, k) PROVE Alike(s, u, k)
  <2>1. \A i \in DOMAIN u : u[i].key[1] = k => i \in DOMAIN s /\ u[i] = s[i]
    BY <1>4, <1>7 DEF HasKey
  <2>2. \A i \in DOMAIN s : i \in DOMAIN u /\ u[i] = s[i]
    BY <1>3
  <2> QED
    BY <2>1, <2>2 DEF Alike, ValueOf, HasKey, Once
<1> QED
  BY <1>4, <1>5, <1>6, <1>7 DEF u

\* What the page posts: the deduplicated headers and a content type, and the
\* authorization unless the headers have one.
LEMMA PostedRequest ==
  ASSUME NEW r, IsRequest(r)
  PROVE  LET b == buildExecutePayload(r)
             d == Deduped(r.headers)
         IN  /\ b.headers = Typed(d, r.bodyMode) /\ b.bodyMode = r.bodyMode /\ b.options = r.options
             /\ b.method = r.method /\ b.query = r.query
             /\ b.body = IF r.bodyMode = "none" THEN "" ELSE r.body
             /\ IsAuth(b.auth)
             /\ ~HasKey(d, "authorization") => b.auth = r.auth
             /\ HasKey(d, "authorization") => \A key, value : ~Carries(b.auth, key, value)
             /\ b.auth.type = "ntlm" => r.auth.type = "ntlm"
<1> DEFINE d == Deduped(r.headers)
           hs == Typed(d, r.bodyMode)
           a == r.auth
           given == /\ HasKey(hs, "authorization")
                    /\ a.type \in {"bearer", "oauth2", "basic"} \/ (a.type = "api-key" /\ a.in = "header")
           b == buildExecutePayload(r)
           body == IF r.bodyMode = "none" THEN "" ELSE r.body
           type == IF given THEN "none" ELSE a.type
<1>1. b = [r EXCEPT !.headers = hs, !.body = body, !.auth = [a EXCEPT !.type = type]]
  BY DEF buildExecutePayload
<1>2. List(d)
  BY DedupedHeaders DEF IsRequest
<1> HIDE DEF d
<1>3. HasKey(hs, "authorization") <=> HasKey(d, "authorization")
  BY <1>2, TypedHeaders DEF Alike
<1>4. /\ a = [type |-> a.type, username |-> a.username, token |-> a.token, keyName |-> a.keyName, in |-> a.in]
      /\ IsName(a.keyName)
  BY DEF IsRequest, IsAuth
<1>5. /\ [a EXCEPT !.type = type] = [type |-> type, username |-> a.username, token |-> a.token,
                                     keyName |-> a.keyName, in |-> a.in]
  <2> HIDE DEF type
  <2> QED
    BY <1>4
<1> HIDE DEF hs, type, body, b
<1>6. /\ b.headers = hs /\ b.bodyMode = r.bodyMode /\ b.options = r.options /\ b.body = body
      /\ b.method = r.method /\ b.query = r.query /\ b.auth = [a EXCEPT !.type = type]
  BY <1>1 DEF IsRequest
<1> HIDE DEF a
<1>7. IsAuth(b.auth)
  BY <1>4, <1>5, <1>6 DEF IsAuth
<1>8. ~HasKey(d, "authorization") => b.auth = a
  BY <1>3, <1>4, <1>5, <1>6 DEF type
<1>9. ASSUME HasKey(d, "authorization"), NEW key, NEW value, Carries(b.auth, key, value)
      PROVE  FALSE
  <2>1. /\ b.auth.type = type /\ b.auth.in = a.in
    BY <1>5, <1>6
  <2> QED
    BY <1>3, <1>9, <2>1 DEF Carries, type
<1>10. b.auth.type = "ntlm" => a.type = "ntlm"
  BY <1>5, <1>6 DEF type
<1> QED
  BY <1>6, <1>7, <1>8, <1>9, <1>10 DEF a, b, d, hs, body

\* What the executor sends of what the page deduplicated, and what it reads
\* from the headers that are its own.
LEMMA ServerSends ==
  ASSUME NEW r, IsRequest(r)
  PROVE  LET b == buildExecutePayload(r)
             d == Deduped(r.headers)
             out == executePayload(b).headers
             sent == ViaServer(r).headers
         IN  /\ List(sent) /\ \A i \in DOMAIN sent : sent[i].key[1] \notin InvokeHeaders /\ sent[i].key[2] # ""
             /\ \A k : HasKey(d, k) /\ k \notin InvokeHeaders /\ (k # "content-type" \/ r.bodyMode = "none") =>
                  Alike(d, sent, k)
             /\ \A k : k \notin InvokeHeaders \union {"content-type"} => Once(sent, k)
             /\ \A k : HasKey(sent, k) /\ k # "content-type" /\ ~HasKey(d, k) =>
                  \E key, value : Carries(b.auth, key, value) /\ k = key[1]
             /\ \A key, value :
                  (Carries(b.auth, key, value) /\ ~HasKey(d, key[1]) /\ IsName(key)
                   /\ key[1] \notin InvokeHeaders \union {"content-type", ""}) =>
                  ValueOf(sent, key[1]) = {value}
             /\ r.options.allowPrivate => extractInvokeHeaders(out).allowPrivate
             /\ (r.options.httpVersion \in {"auto", "http1", "h2c"} /\ ~HasKey(d, "x-invoke-http-version-mode")
                 /\ \A key, value : Carries(b.auth, key, value) => key[1] # "x-invoke-http-version-mode") =>
                  extractInvokeHeaders(out).httpVersion = r.options.httpVersion
<1> DEFINE b == buildExecutePayload(r)
           d == Deduped(r.headers)
           ts == TransportHeaders(b.options)
           h1 == b.headers
           O == {i \in DOMAIN h1 : h1[i].enabled}
           on == Kept(h1, O)
           h2 == WithType(on, serializeBody(b))
           h3 == applyAuthIfNeeded(b.auth, h2, b.query).headers
           h4 == h3 \o ts
           F == {i \in DOMAIN h4 : h4[i].key[2] # "" /\ h4[i].key[1] \notin InvokeHeaders}
           sent == Kept(h4, F)
           mode == "x-invoke-http-version-mode"
<1>1. executePayload(b).headers = h4
  BY DEF executePayload
<1>2. ViaServer(r).headers = sent
  BY <1>1 DEF ViaServer, extractInvokeHeaders
<1>3. /\ h1 = Typed(d, r.bodyMode) /\ b.bodyMode = r.bodyMode /\ b.options = r.options /\ IsAuth(b.auth)
  BY PostedRequest
<1>4. List(d) /\ Sendable(d) /\ \A k : Once(d, k)
  BY DedupedHeaders DEF IsRequest
<1> HIDE DEF b, d
<1>5. List(h1) /\ Sendable(h1) /\ \A k : k # "content-type" \/ r.bodyMode = "none" => Alike(d, h1, k)
  BY <1>3, <1>4, TypedHeaders
<1> HIDE DEF h1
<1>6. List(on) /\ \A k : Alike(h1, on, k)
  <2>1. O \in SUBSET DOMAIN h1 /\ \A i \in DOMAIN h1 : i \in O
    BY <1>5 DEF Sendable
  <2> HIDE DEF O
  <2> QED
    BY <1>5, <2>1, KeptHeaders
<1> HIDE DEF on
<1>7. /\ List(h2) /\ (\A k : k # "content-type" => Alike(on, h2, k))
      /\ r.bodyMode = "none" /\ HasKey(on, "content-type") => h2 = on
  BY <1>3, <1>6, ServerType
<1> HIDE DEF h2
<1>8. /\ \A k : k # "content-type" => Alike(d, h2, k)
      /\ \A k : HasKey(d, k) /\ r.bodyMode = "none" => Alike(d, h2, k)
  <2>1. \A k : k # "content-type" => Alike(d, h2, k)
    BY <1>5, <1>6, <1>7, AlikeIsTransitive
  <2>2. ASSUME HasKey(d, "content-type"), r.bodyMode = "none" PROVE Alike(d, h2, "content-type")
    <3>1. Alike(d, on, "content-type")
      BY <1>5, <1>6, <2>2, AlikeIsTransitive
    <3> QED
      BY <1>7, <2>2, <3>1 DEF Alike
  <2> QED
    BY <2>1, <2>2
<1>9. /\ List(h3)
      /\ \A k : HasKey(h2, k) /\ k \notin InvokeHeaders => Alike(h2, h3, k)
      /\ \A k : Once(h2, k) /\ k \notin InvokeHeaders => Once(h3, k)
      /\ \A k : HasKey(h3, k) /\ ~HasKey(h2, k) =>
           k = "x-invoke-ntlm-username" \/ \E key, value : Carries(b.auth, key, value) /\ k = key[1]
      /\ \A key, value : Carries(b.auth, key, value) /\ ~HasKey(h2, key[1]) /\ b.auth.type # "ntlm" =>
           ValueOf(h3, key[1]) = {value}
  <2>1. Authorized(b.auth, h2, h3)
    BY <1>3, <1>7, AuthorizedHeaders
  <2> HIDE DEF h3
  <2> QED
    BY <2>1 DEF Authorized
<1> HIDE DEF h3
<1>10. /\ List(ts) /\ \A i \in DOMAIN ts : ts[i].key[1] \in InvokeHeaders
       /\ r.options.allowPrivate =>
            \E i \in DOMAIN ts : ts[i].key[1] = "x-invoke-allow-private" /\ ts[i].value = "true"
       /\ \A i \in DOMAIN ts : ts[i].key[1] = mode => ts[i].value = r.options.httpVersion /\ r.options.httpVersion # "auto"
       /\ r.options.httpVersion # "auto" => HasKey(ts, mode)
  <2>1. ts = TransportHeaders(r.options)
    BY <1>3
  <2> HIDE DEF ts
  <2> QED
    BY <2>1, TransportOptions DEF List
<1> HIDE DEF ts
<1>11. /\ List(h4) /\ (\A k : k \notin InvokeHeaders => Alike(h3, h4, k))
       /\ \A i \in DOMAIN h4 : (\E j \in DOMAIN h3 : h4[i] = h3[j]) \/ \E j \in DOMAIN ts : h4[i] = ts[j]
       /\ \A j \in DOMAIN ts : \E i \in DOMAIN h4 : h4[i] = ts[j]
  <2>1. \A k : k \notin InvokeHeaders => ~HasKey(ts, k)
    BY <1>10 DEF HasKey
  <2> QED
    <3>1. List(h3) /\ List(ts)
      BY <1>9, <1>10
    <3>2. /\ List(h4)
          /\ \A i \in DOMAIN h4 : (\E j \in DOMAIN h3 : h4[i] = h3[j]) \/ \E j \in DOMAIN ts : h4[i] = ts[j]
          /\ \A j \in DOMAIN ts : \E i \in DOMAIN h4 : h4[i] = ts[j]
          /\ \A k : ~HasKey(ts, k) => Alike(h3, h4, k)
      BY <3>1, JoinedHeaders, Zenon
    <3> QED
      BY <2>1, <3>2
<1> HIDE DEF h4
<1>12. /\ List(sent) /\ (\A k : k \notin InvokeHeaders \union {""} => Alike(h4, sent, k))
       /\ \A k : Once(h4, k) => Once(sent, k)
       /\ \A i \in DOMAIN sent : sent[i].key[1] \notin InvokeHeaders /\ sent[i].key[2] # ""
       /\ \A k : HasKey(sent, k) => HasKey(h4, k) /\ k \notin InvokeHeaders
  <2>1. F \in SUBSET DOMAIN h4 /\ \A i \in F : h4[i].key[2] # "" /\ h4[i].key[1] \notin InvokeHeaders
    OBVIOUS
  <2>2. \A i \in DOMAIN h4 : h4[i].key[1] \notin InvokeHeaders \union {""} => i \in F
    BY <1>11 DEF List, IsHeader, IsName
  <2> HIDE DEF F
  <2>3. /\ List(sent) /\ (\A i \in DOMAIN sent : \E k \in F : sent[i] = h4[k])
        /\ \A k : (\A i \in DOMAIN h4 : h4[i].key[1] = k => i \in F) => Alike(h4, sent, k)
        /\ \A k : Once(h4, k) => Once(sent, k)
    BY <1>11, <2>1, KeptHeaders
  <2> HIDE DEF sent
  <2>4. \A i \in DOMAIN sent : sent[i].key[1] \notin InvokeHeaders /\ sent[i].key[2] # ""
    BY <2>1, <2>3
  <2>5. \A k : HasKey(sent, k) => HasKey(h4, k) /\ k \notin InvokeHeaders
    <3>1. \A i \in DOMAIN sent : sent[i].key[1] \notin InvokeHeaders /\ \E j \in DOMAIN h4 : sent[i] = h4[j]
      BY <2>1, <2>3
    <3> QED
      BY <3>1 DEF HasKey
  <2> QED
    BY <2>2, <2>3, <2>4, <2>5
<1> HIDE DEF sent
<1>13. ASSUME NEW k, HasKey(d, k), k \notin InvokeHeaders, k # "content-type" \/ r.bodyMode = "none"
       PROVE  Alike(d, sent, k)
  <2>1. k # ""
    <3>1. PICK i \in DOMAIN d : d[i].key[1] = k
      BY <1>13, Zenon DEF HasKey
    <3>2. IsName(d[i].key) /\ d[i].key[2] # ""
      BY <1>4, <3>1, Zenon DEF List, IsHeader, Sendable
    <3> QED
      BY <3>1, <3>2, Zenon DEF IsName
  <2>2. Alike(d, h2, k)
    BY <1>8, <1>13
  <2>3. HasKey(h2, k)
    BY <1>13, <2>2 DEF Alike
  <2>4. Alike(d, h3, k)
    BY <1>9, <1>13, <2>2, <2>3, AlikeIsTransitive
  <2>5. Alike(d, h4, k)
    BY <1>11, <1>13, <2>4, AlikeIsTransitive
  <2> QED
    BY <1>12, <1>13, <2>1, <2>5, AlikeIsTransitive
<1>14. ASSUME NEW k, k \notin InvokeHeaders \union {"content-type"} PROVE Once(sent, k)
  <2>1. Once(h2, k)
    BY <1>4, <1>8, <1>14 DEF Alike
  <2>2. Once(h4, k)
    BY <1>9, <1>11, <1>14, <2>1 DEF Alike
  <2> QED
    BY <1>12, <2>2
<1>15. ASSUME NEW k, HasKey(sent, k), k # "content-type", ~HasKey(d, k)
       PROVE  \E key, value : Carries(b.auth, key, value) /\ k = key[1]
  <2>1. k \notin InvokeHeaders /\ HasKey(h3, k)
    BY <1>11, <1>12, <1>15 DEF Alike
  <2>2. ~HasKey(h2, k)
    BY <1>8, <1>15 DEF Alike
  <2>3. "x-invoke-ntlm-username" \in InvokeHeaders
    BY DEF InvokeHeaders
  <2> QED
    BY <1>9, <2>1, <2>2, <2>3
<1>16. ASSUME NEW key, NEW value, Carries(b.auth, key, value), ~HasKey(d, key[1]), IsName(key),
              key[1] \notin InvokeHeaders \union {"content-type", ""}
       PROVE  ValueOf(sent, key[1]) = {value}
  <2>1. ~HasKey(h2, key[1]) /\ b.auth.type # "ntlm"
    BY <1>8, <1>16 DEF Alike, Carries
  <2>2. ValueOf(h3, key[1]) = {value}
    BY <1>9, <1>16, <2>1
  <2> QED
    BY <1>11, <1>12, <1>16, <2>2 DEF Alike
<1>17. r.options.allowPrivate => extractInvokeHeaders(h4).allowPrivate
  BY <1>10, <1>11 DEF extractInvokeHeaders
<1>18. ASSUME r.options.httpVersion \in {"auto", "http1", "h2c"}, ~HasKey(d, mode),
              \A key, value : Carries(b.auth, key, value) => key[1] # mode
       PROVE  extractInvokeHeaders(h4).httpVersion = r.options.httpVersion
  <2>1. ~HasKey(h2, mode)
    BY <1>8, <1>18 DEF Alike
  <2>2. ~HasKey(h3, mode)
    BY <1>9, <1>18, <2>1
  <2>3. \A i \in DOMAIN h4 : h4[i].key[1] = mode => h4[i].value = r.options.httpVersion /\ r.options.httpVersion # "auto"
    BY <1>10, <1>11, <2>2 DEF HasKey
  <2>4. r.options.httpVersion # "auto" =>
          \E i \in DOMAIN h4 : h4[i].key[1] = mode /\ h4[i].value = r.options.httpVersion
    BY <1>10, <1>11 DEF HasKey
  <2> DEFINE Has(v) == \E i \in DOMAIN h4 : h4[i].key[1] = mode /\ h4[i].value = v
  <2>5. extractInvokeHeaders(h4).httpVersion = CASE Has("http1") -> "http1" [] Has("h2c") -> "h2c" [] OTHER -> "auto"
    BY DEF extractInvokeHeaders
  <2>6. \A v : Has(v) => v = r.options.httpVersion /\ v # "auto"
    BY <2>3
  <2>7. r.options.httpVersion # "auto" => Has(r.options.httpVersion)
    BY <2>4
  <2> HIDE DEF Has
  <2>8. CASE r.options.httpVersion = "auto"
    BY <2>5, <2>6, <2>8
  <2>9. CASE r.options.httpVersion = "http1"
    BY <2>5, <2>6, <2>7, <2>9
  <2>10. CASE r.options.httpVersion = "h2c"
    BY <2>5, <2>6, <2>7, <2>10
  <2> QED
    BY <1>18, <2>8, <2>9, <2>10
<1> QED
  BY <1>1, <1>2, <1>12, <1>13, <1>14, <1>15, <1>16, <1>17, <1>18 DEF b, d

LEMMA NewValue ==
  ASSUME NEW h, IsHeader(h), NEW v
  PROVE  LET e == [h EXCEPT !.value = v]
         IN  IsHeader(e) /\ e.key = h.key /\ e.enabled = h.enabled /\ e.value = v
<1> DEFINE k == h.key
           o == h.enabled
           w == h.value
<1>1. h = [key |-> k, value |-> w, enabled |-> o] /\ o \in BOOLEAN /\ IsName(k)
  BY DEF IsHeader
<1> HIDE DEF k, o, w
<1>2. [h EXCEPT !.value = v] = [key |-> k, value |-> v, enabled |-> o]
  BY <1>1
<1>3. IsHeader([key |-> k, value |-> v, enabled |-> o])
  BY <1>1 DEF IsHeader
<1> QED
  BY <1>2, <1>3 DEF k, o

\* The cookies join the Cookie headers, or are a header of their own.
LEMMA CookiesInjected ==
  ASSUME NEW hs, List(hs), NEW cookies, cookies # ""
  PROVE  LET t == injectCookies(hs, cookies)
         IN  /\ List(t)
             /\ \A k : k # "cookie" => (HasKey(t, k) <=> HasKey(hs, k))
             /\ \/ \E i \in DOMAIN t : t[i].key[1] = "cookie" /\ t[i].enabled /\ t[i].key[2] # ""
                \/ HasKey(hs, "cookie") /\ \A i \in DOMAIN hs : hs[i].key[1] = "cookie" => ~hs[i].enabled
<1> DEFINE t == injectCookies(hs, cookies)
           own == H(CookieKey, cookies)
           joined(i) == IF hs[i].key[1] # "cookie" THEN hs[i]
                        ELSE [hs[i] EXCEPT !.value = IF @ = "" THEN cookies ELSE <<@, cookies>>]
<1>0. \A i \in DOMAIN hs : IsHeader(hs[i])
  BY DEF List
<1>4. DOMAIN hs = 1..Len(hs) /\ Len(hs) \in Nat
  BY ListShape
<1>1. CASE HasKey(hs, "cookie")
  <2>1. t = [i \in DOMAIN hs |-> joined(i)]
    BY <1>1 DEF injectCookies
  <2>2. ASSUME NEW i \in DOMAIN hs
        PROVE  IsHeader(joined(i)) /\ joined(i).key = hs[i].key /\ joined(i).enabled = hs[i].enabled
    <3> DEFINE v == IF hs[i].value = "" THEN cookies ELSE <<hs[i].value, cookies>>
               e == [hs[i] EXCEPT !.value = v]
    <3>1. IsHeader(e) /\ e.key = hs[i].key /\ e.enabled = hs[i].enabled
      <4> HIDE DEF v
      <4> QED
        BY <1>0, NewValue
    <3>2. joined(i) = hs[i] \/ joined(i) = e
      OBVIOUS
    <3> HIDE DEF e, joined
    <3> QED
      BY <1>0, <3>1, <3>2
  <2> HIDE DEF joined, t
  <2>4. /\ DOMAIN t = DOMAIN hs
        /\ \A i \in DOMAIN t : IsHeader(t[i]) /\ t[i].key = hs[i].key /\ t[i].enabled = hs[i].enabled
    BY <2>1, <2>2
  <2>5. List(t)
    <3>2. t = [i \in 1..Len(hs) |-> t[i]]
      BY <1>4, <2>1
    <3>3. \A i \in 1..Len(hs) : t[i] \in {t[j] : j \in 1..Len(hs)}
      OBVIOUS
    <3>4. t \in Seq({t[j] : j \in 1..Len(hs)})
      BY <1>4, <3>2, <3>3, FunctionIsSequence, Zenon
    <3> QED
      BY <2>4, <3>4, ListOf
  <2>6. \A k : HasKey(t, k) <=> HasKey(hs, k)
    BY <2>4 DEF HasKey
  <2>7. \A i \in DOMAIN hs : hs[i].key[1] = "cookie" => hs[i].key[2] # ""
    BY <1>0 DEF IsHeader, IsName
  <2> QED
    BY <1>1, <2>4, <2>5, <2>6, <2>7 DEF t
<1>2. CASE ~HasKey(hs, "cookie")
  <2>1. t = Append(hs, own)
    BY <1>2 DEF injectCookies
  <2>2. IsHeader(own) /\ own.key = CookieKey /\ own.enabled
    BY OwnNames DEF H, IsHeader
  <2> HIDE DEF own, t
  <2>3. /\ List(t) /\ Once(t, "cookie") /\ HasKey(t, "cookie")
        /\ \A k : k # "cookie" => Alike(hs, t, k)
    BY <1>2, <2>1, <2>2, AppendedHeader, OwnNames
  <2>4. Len(hs) + 1 \in DOMAIN t /\ t[Len(hs) + 1] = own
    BY <2>1, ListAppend
  <2> QED
    BY <2>2, <2>3, <2>4, OwnNames DEF Alike, t
<1> QED
  BY <1>1, <1>2

\* A request as resolveRequest leaves it: its options are ones the page offers,
\* and nothing of it is named like the option that travels as a header.
IsResolved(r) ==
  /\ IsRequest(r) /\ r.options.httpVersion \in {"auto", "http1", "h2c"}
  /\ ~HasKey(r.headers, "x-invoke-http-version-mode")
  /\ r.auth.keyName[1] # "x-invoke-http-version-mode"

\* Any request reaches the target through the server as it was resolved, for
\* any number of headers, whatever they are called and whichever are switched
\* on (injectCookies, buildExecutePayload, executePayload, extractInvokeHeaders).
THEOREM RequestsArrive == \A request : IsResolved(request) => Arrives(request)
<1> SUFFICES ASSUME NEW request, IsResolved(request) PROVE Arrives(request)
  OBVIOUS
<1> DEFINE hs == injectCookies(request.headers, "jar")
           r == [request EXCEPT !.headers = hs]
           b == buildExecutePayload(r)
           d == Deduped(hs)
           out == executePayload(b).headers
           sent == ViaServer(r).headers
           mode == "x-invoke-http-version-mode"
<1>1. IsRequest(request) /\ List(request.headers)
  BY DEF IsResolved, IsRequest
<1>2. /\ List(hs)
      /\ \A k : k # "cookie" => (HasKey(hs, k) <=> HasKey(request.headers, k))
      /\ \/ \E i \in DOMAIN hs : hs[i].key[1] = "cookie" /\ hs[i].enabled /\ hs[i].key[2] # ""
         \/ /\ HasKey(request.headers, "cookie")
            /\ \A i \in DOMAIN request.headers :
                 request.headers[i].key[1] = "cookie" => ~request.headers[i].enabled
  BY <1>1, CookiesInjected
<1> HIDE DEF hs
<1>3. r.headers = hs /\ r.auth = request.auth /\ r.options = request.options /\ IsRequest(r)
  <2>1. /\ request = [method |-> request.method, query |-> request.query, params |-> request.params,
                      headers |-> request.headers, bodyMode |-> request.bodyMode, body |-> request.body,
                      auth |-> request.auth, options |-> request.options]
        /\ IsAuth(request.auth)
    BY <1>1 DEF IsRequest
  <2>2. r = [method |-> request.method, query |-> request.query, params |-> request.params,
             headers |-> hs, bodyMode |-> request.bodyMode, body |-> request.body,
             auth |-> request.auth, options |-> request.options]
    BY <2>1
  <2> HIDE DEF r
  <2>3. /\ r.method = request.method /\ r.query = request.query /\ r.params = request.params /\ r.headers = hs
        /\ r.bodyMode = request.bodyMode /\ r.body = request.body /\ r.auth = request.auth
        /\ r.options = request.options
    BY <2>2
  <2> QED
    BY <1>2, <2>1, <2>2, <2>3 DEF IsRequest
<1> HIDE DEF r
<1>4. /\ \A i \in DOMAIN d : \E j \in DOMAIN hs : d[i] = hs[j]
      /\ \A i \in DOMAIN hs : Wins(hs, i) => ValueOf(d, hs[i].key[1]) = {hs[i].value}
      /\ \A i \in DOMAIN hs : hs[i].enabled /\ hs[i].key[2] # "" => HasKey(d, hs[i].key[1])
  BY <1>2, DedupedHeaders
<1>5. /\ ~HasKey(d, "authorization") => b.auth = request.auth
      /\ HasKey(d, "authorization") => \A key, value : ~Carries(b.auth, key, value)
  BY <1>3, PostedRequest
<1>6. /\ \A i \in DOMAIN sent : sent[i].key[1] \notin InvokeHeaders
      /\ \A k : HasKey(d, k) /\ k \notin InvokeHeaders /\ k # "content-type" => Alike(d, sent, k)
      /\ \A k : k \notin InvokeHeaders \union {"content-type"} => Once(sent, k)
      /\ \A key, value :
           (Carries(b.auth, key, value) /\ ~HasKey(d, key[1]) /\ IsName(key)
            /\ key[1] \notin InvokeHeaders \union {"content-type", ""}) =>
           ValueOf(sent, key[1]) = {value}
      /\ request.options.allowPrivate => extractInvokeHeaders(out).allowPrivate
      /\ (request.options.httpVersion \in {"auto", "http1", "h2c"} /\ ~HasKey(d, mode)
          /\ \A key, value : Carries(b.auth, key, value) => key[1] # mode) =>
           extractInvokeHeaders(out).httpVersion = request.options.httpVersion
  BY <1>3, ServerSends
<1> HIDE DEF b, d, out, sent
<1>7. {"cookie", "authorization"} \cap (InvokeHeaders \union {"content-type", ""}) = {}
  BY DEF InvokeHeaders
<1>8. ASSUME NEW i \in DOMAIN hs, Wins(hs, i), hs[i].key[1] \notin InvokeHeaders \union {"content-type"}
      PROVE  ValueOf(sent, hs[i].key[1]) = {hs[i].value}
  <2>1. HasKey(d, hs[i].key[1]) /\ ValueOf(d, hs[i].key[1]) = {hs[i].value}
    BY <1>4, <1>8 DEF Wins
  <2> QED
    BY <1>6, <1>8, <2>1 DEF Alike
<1>9. \/ HasKey(sent, "cookie")
      \/ /\ HasKey(request.headers, "cookie")
         /\ \A i \in DOMAIN request.headers :
              request.headers[i].key[1] = "cookie" => ~request.headers[i].enabled
  <2>1. ASSUME NEW i \in DOMAIN hs, hs[i].key[1] = "cookie", hs[i].enabled, hs[i].key[2] # ""
        PROVE  HasKey(sent, "cookie")
    BY <1>4, <1>6, <1>7, <2>1 DEF Alike
  <2> QED
    BY <1>2, <2>1
<1>10. Once(sent, "authorization")
  BY <1>6, <1>7
<1>11. ASSUME request.auth.type = "bearer", request.auth.token # "" PROVE HasKey(sent, "authorization")
  <2>1. CASE HasKey(d, "authorization")
    BY <1>6, <1>7, <2>1 DEF Alike
  <2>2. CASE ~HasKey(d, "authorization")
    <3>1. Carries(b.auth, AuthorizationKey, <<"Bearer", request.auth.token>>)
      BY <1>5, <1>11, <2>2 DEF Carries
    <3>2. ValueOf(sent, "authorization") = {<<"Bearer", request.auth.token>>}
      BY <1>6, <1>7, <2>2, <3>1, OwnNames
    <3> QED
      BY <3>2, KeyHasValues
  <2> QED
    BY <2>1, <2>2
<1>12. extractInvokeHeaders(out).httpVersion = request.options.httpVersion
  <2>1. ~HasKey(d, mode)
    <3>1. mode # "cookie" /\ ~HasKey(request.headers, mode)
      BY DEF IsResolved
    <3>2. ~HasKey(hs, mode)
      BY <1>2, <3>1
    <3> HIDE DEF mode
    <3>3. \A i \in DOMAIN d : \E j \in DOMAIN hs : d[i] = hs[j]
      BY <1>4
    <3>4. \A j \in DOMAIN hs : hs[j].key[1] # mode
      BY <3>2, Zenon DEF HasKey
    <3>5. \A i \in DOMAIN d : d[i].key[1] # mode
      BY <3>3, <3>4, Zenon
    <3> QED
      BY <3>5, Zenon DEF HasKey
  <2>2. \A key, value : Carries(b.auth, key, value) => key[1] # mode
    BY <1>5, OwnNames DEF Carries, IsResolved
  <2> QED
    BY <1>6, <2>1, <2>2 DEF IsResolved
<1> QED
  BY <1>3, <1>6, <1>8, <1>9, <1>10, <1>11, <1>12 DEF Arrives, Wins, b, d, out, sent, r, hs

\* What buildHeaders adds to the headers it kept.
Added(r, key, value) ==
  /\ ~HasKey(Deduped(r.headers), "authorization")
  /\ IsName(key)
  /\ \/ Carries(r.auth, key, value)
     \/ /\ r.auth.type = "api-key" /\ r.auth.in = "header" /\ r.auth.keyName[2] # ""
        /\ key = r.auth.keyName /\ value = r.auth.token

LEMMA BrowserAuthorization ==
  ASSUME NEW r, IsRequest(r)
  PROVE  LET d == Deduped(r.headers)
             t == buildHeaders(r)
         IN  \/ /\ t = d
                /\ HasKey(d, "authorization") \/ \A key, value : ~Carries(r.auth, key, value)
             \/ \E key, value :
                  /\ Added(r, key, value) /\ t = Append(Without(d, key[1]), H(key, value))
                  /\ \A k, v : Carries(r.auth, k, v) => k = key /\ v = value
<1> DEFINE d == Deduped(r.headers)
           a == r.auth
           Set(h) == Append(Without(d, h.key[1]), h)
           t == buildHeaders(r)
<1>1. \A key, value : H(key, value).key = key
  BY DEF H
<1>2. t = CASE HasKey(d, "authorization") -> d
            [] ~HasKey(d, "authorization") /\ a.type \in {"bearer", "oauth2"} /\ a.token # "" ->
                 Set(H(AuthorizationKey, <<"Bearer", a.token>>))
            [] ~HasKey(d, "authorization") /\ a.type = "basic" /\ a.username # "" ->
                 Set(H(AuthorizationKey, <<"Basic", a.username>>))
            [] OTHER -> IF /\ a.type = "api-key" /\ a.in = "header" /\ a.keyName[2] # ""
                           /\ ~HasKey(d, "authorization")
                        THEN Set(H(a.keyName, a.token)) ELSE d
  BY DEF buildHeaders
<1>3. IsName(a.keyName)
  BY DEF IsRequest, IsAuth
<1> HIDE DEF d, t, a
<1>4. CASE HasKey(d, "authorization")
  BY <1>2, <1>4 DEF d, t
<1>5. CASE ~HasKey(d, "authorization") /\ a.type \in {"bearer", "oauth2"} /\ a.token # ""
  <2>1. t = Set(H(AuthorizationKey, <<"Bearer", a.token>>))
    BY <1>2, <1>5
  <2>2. Added(r, AuthorizationKey, <<"Bearer", a.token>>)
    BY <1>5, OwnNames DEF Added, Carries, d, a
  <2>3. \A k, v : Carries(r.auth, k, v) => k = AuthorizationKey /\ v = <<"Bearer", a.token>>
    BY <1>5 DEF Carries, a
  <2> QED
    BY <1>1, <2>1, <2>2, <2>3 DEF d, t
<1>6. CASE ~HasKey(d, "authorization") /\ a.type = "basic" /\ a.username # ""
  <2>1. t = Set(H(AuthorizationKey, <<"Basic", a.username>>))
    BY <1>2, <1>6
  <2>2. Added(r, AuthorizationKey, <<"Basic", a.username>>)
    BY <1>6, OwnNames DEF Added, Carries, d, a
  <2>3. \A k, v : Carries(r.auth, k, v) => k = AuthorizationKey /\ v = <<"Basic", a.username>>
    BY <1>6 DEF Carries, a
  <2> QED
    BY <1>1, <2>1, <2>2, <2>3 DEF d, t
<1>7. CASE ~HasKey(d, "authorization") /\ a.type = "api-key" /\ a.in = "header" /\ a.keyName[2] # ""
  <2>1. t = Set(H(a.keyName, a.token))
    BY <1>2, <1>7
  <2>2. Added(r, a.keyName, a.token)
    BY <1>3, <1>7 DEF Added, d, a
  <2>3. \A k, v : Carries(r.auth, k, v) => k = a.keyName /\ v = a.token
    BY <1>7 DEF Carries, a
  <2> QED
    BY <1>1, <2>1, <2>2, <2>3 DEF d, t
<1>8. CASE /\ ~HasKey(d, "authorization")
           /\ ~(a.type \in {"bearer", "oauth2"} /\ a.token # "")
           /\ ~(a.type = "basic" /\ a.username # "")
           /\ ~(a.type = "api-key" /\ a.in = "header" /\ a.keyName[2] # "")
  <2>1. t = d
    BY <1>2, <1>8
  <2>2. \A key, value : ~Carries(r.auth, key, value)
    BY <1>8 DEF Carries, a
  <2> QED
    BY <2>1, <2>2 DEF d, t
<1> QED
  BY <1>4, <1>5, <1>6, <1>7, <1>8

\* A key that the authorization puts into a header is among the headers that
\* resolveRequest left, once and with its value.
IsCarried(r) ==
  (r.auth.type = "api-key" /\ r.auth.in = "header" /\ r.auth.token # "" /\ r.auth.keyName[2] # "") =>
    ValueOf(Deduped(r.headers), r.auth.keyName[1]) = {r.auth.token}

\* Any request but an NTLM one is sent alike by the server and by the browser
\* (executePayload and buildHeaders, serializeBody and buildBody).
THEOREM ModesSendAlike ==
  \A request : (IsRequest(request) /\ IsCarried(request) /\ request.auth.type # "ntlm") => SentAlike(request)
<1> SUFFICES ASSUME NEW request, IsRequest(request), IsCarried(request), request.auth.type # "ntlm"
             PROVE  SentAlike(request)
  OBVIOUS
<1> DEFINE a == request.auth
           d == Deduped(request.headers)
           b == buildExecutePayload(request)
           sent == ViaServer(request).headers
           t == buildHeaders(request)
           hb == browserFetch(request).headers
<1>1. /\ List(d) /\ Sendable(d) /\ \A k : Once(d, k)
  BY DedupedHeaders DEF IsRequest
<1>2. /\ ~HasKey(d, "authorization") => b.auth = a
      /\ HasKey(d, "authorization") => \A key, value : ~Carries(b.auth, key, value)
      /\ b.bodyMode = request.bodyMode /\ b.body = IF request.bodyMode = "none" THEN "" ELSE request.body
  BY PostedRequest
<1>3. /\ \A k : HasKey(d, k) /\ k \notin InvokeHeaders /\ k # "content-type" => Alike(d, sent, k)
      /\ \A k : HasKey(sent, k) /\ k # "content-type" /\ ~HasKey(d, k) =>
           \E key, value : Carries(b.auth, key, value) /\ k = key[1]
      /\ \A key, value :
           (Carries(b.auth, key, value) /\ ~HasKey(d, key[1]) /\ IsName(key)
            /\ key[1] \notin InvokeHeaders \union {"content-type", ""}) =>
           ValueOf(sent, key[1]) = {value}
  BY ServerSends
<1>4. \/ /\ t = d
         /\ HasKey(d, "authorization") \/ \A key, value : ~Carries(a, key, value)
      \/ \E key, value :
           /\ Added(request, key, value) /\ t = Append(Without(d, key[1]), H(key, value))
           /\ \A k, v : Carries(a, k, v) => k = key /\ v = value
  BY BrowserAuthorization
<1>5. hb = t \/ hb = Typed(t, request.bodyMode)
  BY DEF browserFetch
<1>6. (a.type = "api-key" /\ a.in = "header" /\ a.token # "" /\ a.keyName[2] # "") =>
        ValueOf(d, a.keyName[1]) = {a.token}
  BY DEF IsCarried
<1> HIDE DEF a, d, b, sent, t, hb
<1>7. ASSUME NEW key, NEW value, Added(request, key, value)
      PROVE  LET w == Without(d, key[1])
                 u == Append(w, H(key, value))
             IN  /\ List(u) /\ HasKey(u, key[1]) /\ ValueOf(u, key[1]) = {value}
                 /\ \A k : k # key[1] => Alike(d, u, k)
  <2> DEFINE w == Without(d, key[1])
             h == H(key, value)
  <2>1. List(w) /\ ~HasKey(w, key[1]) /\ \A k : k # key[1] => Alike(d, w, k)
    BY <1>1, WithoutName
  <2>2. IsHeader(h) /\ h.key = key /\ h.value = value
    BY <1>7 DEF Added, H, IsHeader
  <2> HIDE DEF w, h
  <2>3. /\ List(Append(w, h)) /\ HasKey(Append(w, h), key[1])
        /\ ValueOf(Append(w, h), key[1]) = {value}
        /\ \A k : k # key[1] => Alike(w, Append(w, h), k)
    BY <2>1, <2>2, AppendedHeader
  <2>4. \A k : k # key[1] => Alike(d, Append(w, h), k)
    BY <2>1, <2>3, AlikeIsTransitive
  <2> QED
    BY <2>3, <2>4 DEF w, h
<1>8. List(t)
  <2>1. ASSUME NEW key, NEW value, Added(request, key, value), t = Append(Without(d, key[1]), H(key, value))
        PROVE  List(t)
    BY <1>7, <2>1
  <2> QED
    BY <1>1, <1>4, <2>1
<1>9. \A k : k # "content-type" => Alike(t, hb, k)
  BY <1>5, <1>8, TypedHeaders, AlikeItself
<1>10. ASSUME NEW k, HasKey(t, k), k \notin InvokeHeaders \union {"content-type"}, ValueOf(t, k) # {""}
       PROVE  ValueOf(sent, k) = ValueOf(t, k)
  <2>1. CASE HasKey(d, k) /\ ValueOf(t, k) = ValueOf(d, k)
    BY <1>3, <1>10, <2>1 DEF Alike
  <2>2. ASSUME NEW key, NEW value, Added(request, key, value), t = Append(Without(d, key[1]), H(key, value))
        PROVE  ValueOf(sent, k) = ValueOf(t, k)
    <3>1. /\ ValueOf(t, key[1]) = {value}
          /\ k # key[1] => Alike(d, t, k)
      BY <1>7, <2>2
    <3>2. CASE k # key[1]
      BY <1>10, <2>1, <3>1, <3>2 DEF Alike
    <3>3. CASE k = key[1] /\ HasKey(d, k)
      <4>1. key # AuthorizationKey
        BY <2>2, <3>3, OwnNames DEF Added, d
      <4>2. /\ key = a.keyName /\ value = a.token /\ a.type = "api-key" /\ a.in = "header"
            /\ a.keyName[2] # ""
        BY <2>2, <4>1 DEF Added, Carries, a
      <4>3. a.token # ""
        BY <1>10, <3>1, <3>3, <4>2
      <4>4. ValueOf(d, k) = {value}
        BY <1>6, <3>3, <4>2, <4>3 DEF a
      <4> QED
        BY <2>1, <3>1, <3>3, <4>4
    <3>4. CASE k = key[1] /\ ~HasKey(d, k)
      <4>1. b.auth = a
        BY <1>2, <2>2 DEF Added, d
      <4>2. ~(/\ a.type = "api-key" /\ a.in = "header" /\ a.keyName[2] # ""
              /\ key = a.keyName /\ value = a.token)
        <5>1. ASSUME a.token # "", a.type = "api-key", a.in = "header", a.keyName[2] # "", key = a.keyName
              PROVE  FALSE
          <6>1. ValueOf(d, k) = {a.token}
            BY <1>6, <3>4, <5>1 DEF a
          <6> QED
            BY <3>4, <6>1, KeyHasValues
        <5>2. ASSUME a.token = "", value = a.token PROVE FALSE
          BY <1>10, <3>1, <3>4, <5>2
        <5> QED
          BY <5>1, <5>2
      <4>3. Carries(b.auth, key, value) /\ IsName(key) /\ key = AuthorizationKey
        BY <2>2, <4>1, <4>2 DEF Added, Carries, a
      <4>4. ValueOf(sent, k) = {value}
        BY <1>3, <1>10, <3>4, <4>3, OwnNames
      <4> QED
        BY <3>1, <3>4, <4>4
    <3> QED
      BY <3>2, <3>3, <3>4
  <2> QED
    BY <1>4, <1>10, <2>1, <2>2
<1>11. ASSUME NEW i \in DOMAIN hb, hb[i].key[1] \notin InvokeHeaders \union {"content-type"}, hb[i].value # ""
       PROVE  ValueOf(sent, hb[i].key[1]) = ValueOf(hb, hb[i].key[1])
  <2> DEFINE k == hb[i].key[1]
  <2>1. HasKey(hb, k) /\ hb[i].value \in ValueOf(hb, k)
    BY DEF HasKey, ValueOf
  <2>2. HasKey(t, k) /\ ValueOf(t, k) = ValueOf(hb, k)
    BY <1>9, <1>11, <2>1 DEF Alike
  <2> QED
    <3>1. ValueOf(t, k) # {""}
      BY <1>11, <2>1, <2>2
    <3> QED
      BY <1>10, <1>11, <2>2, <3>1
<1>12. ASSUME NEW k, HasKey(sent, k), k # "content-type" PROVE HasKey(hb, k)
  <2>1. CASE HasKey(d, k)
    <3>1. ASSUME NEW key, NEW value, Added(request, key, value), t = Append(Without(d, key[1]), H(key, value))
          PROVE  HasKey(t, k)
      <4>1. HasKey(t, key[1]) /\ (k # key[1] => Alike(d, t, k))
        BY <1>7, <3>1
      <4> QED
        BY <2>1, <4>1 DEF Alike
    <3>2. HasKey(t, k)
      BY <1>4, <2>1, <3>1
    <3> QED
      BY <1>9, <1>12, <3>2 DEF Alike
  <2>2. CASE ~HasKey(d, k)
    <3>1. PICK key, value : Carries(b.auth, key, value) /\ k = key[1]
      BY <1>3, <1>12, <2>2
    <3>2. ~HasKey(d, "authorization") /\ Carries(a, key, value)
      BY <1>2, <3>1
    <3>3. PICK ky, vl : Added(request, ky, vl) /\ t = Append(Without(d, ky[1]), H(ky, vl)) /\ ky = key
      BY <1>4, <3>2
    <3>4. HasKey(t, k)
      BY <1>7, <3>1, <3>3
    <3> QED
      BY <1>9, <1>12, <3>4 DEF Alike
  <2> QED
    BY <2>1, <2>2
<1>13. ASSUME request.method = "POST", request.bodyMode \in {"json", "raw"}
       PROVE  ViaServer(request).body = browserFetch(request).body
  <2>1. browserFetch(request).body = <<"text", request.body>>
    BY <1>13 DEF browserFetch, buildBody
  <2>2. b.body = request.body /\ b.bodyMode \in {"json", "raw"}
    BY <1>2, <1>13
  <2>3. serializeBody(b).body = <<"text", b.body>>
    BY <2>2 DEF serializeBody
  <2>4. ViaServer(request).body = serializeBody(b).body
    BY DEF ViaServer, executePayload, b
  <2> QED
    BY <2>1, <2>2, <2>3, <2>4
<1>14. \A i \in DOMAIN sent : HasKey(sent, sent[i].key[1])
  BY DEF HasKey
<1> QED
  BY <1>11, <1>12, <1>13, <1>14 DEF SentAlike, sent, hb

-----------------------------------------------------------------------------
(* The requests of the run.                                                *)

LEMMA AuthShape ==
  ASSUME NEW a \in MCAuths
  PROVE  /\ IsAuth(a) /\ a.keyName = <<"x", "X">>
         /\ List(AuthHeader(a)) /\ \A i \in DOMAIN AuthHeader(a) : AuthHeader(a)[i].key[1] \in {"x", "authorization"}
         /\ a.type = "api-key" /\ a.in = "header" /\ a.token # "" => AuthHeader(a) = <<H(a.keyName, a.token)>>
<1> DEFINE As(t, u, k, in) == [type |-> t, username |-> u, token |-> k, keyName |-> <<"x", "X">>, in |-> in]
<1>1. PICK t, u, k, in : a = As(t, u, k, in)
  <2>1. \A t, u, k, in : Auth(t, u, k, in) = As(t, u, k, in)
    BY DEF Auth
  <2> HIDE DEF As
  <2>2. CASE a \in {Auth("none", "", "", "header"), Auth("ntlm", "u", "", "header")}
    BY <2>1, <2>2
  <2>3. CASE a \in {Auth("basic", u, "", "header") : u \in {"", "u"}}
    BY <2>1, <2>3
  <2>4. CASE a \in {Auth("bearer", "", k, "header") : k \in {"", "t"}}
    BY <2>1, <2>4
  <2>5. CASE a \in {Auth("api-key", "", k, "header") : k \in {"", "t"}}
    BY <2>1, <2>5
  <2>6. CASE a \in {Auth("api-key", "", k, "query") : k \in {"", "t"}}
    BY <2>1, <2>6
  <2> QED
    BY <2>2, <2>3, <2>4, <2>5, <2>6 DEF MCAuths
<1>2. IsAuth(a) /\ a.keyName = <<"x", "X">>
  BY <1>1 DEF IsAuth, IsName
<1> DEFINE h == AuthHeader(a)
<1>3. \/ h = <<>>
      \/ h = <<H(AuthorizationKey, <<"Basic", a.username>>)>>
      \/ h = <<H(AuthorizationKey, <<"Bearer", a.token>>)>>
      \/ h = <<H(a.keyName, a.token)>>
  BY DEF AuthHeader
<1>4. ASSUME a.type = "api-key", a.in = "header", a.token # "" PROVE h = <<H(a.keyName, a.token)>>
  BY <1>4 DEF AuthHeader
<1>5. ASSUME NEW key, IsName(key), key[1] \in {"x", "authorization"}, NEW v, h = <<H(key, v)>>
      PROVE  List(h) /\ \A i \in DOMAIN h : h[i].key[1] \in {"x", "authorization"}
  <2> DEFINE e == H(key, v)
  <2>1. IsHeader(e) /\ e.key = key
    BY <1>5 DEF H, IsHeader
  <2> HIDE DEF e
  <2>2. <<e>> \in Seq({e}) /\ \A i \in DOMAIN <<e>> : <<e>>[i] = e
    OBVIOUS
  <2>3. List(<<e>>) /\ \A i \in DOMAIN <<e>> : <<e>>[i].key[1] \in {"x", "authorization"}
    BY <1>5, <2>1, <2>2, ListOf
  <2> QED
    BY <1>5, <2>3 DEF e
<1>6. CASE h = <<>>
  <2>1. <<>> \in Seq({}) /\ DOMAIN <<>> = {}
    OBVIOUS
  <2>2. \A i \in DOMAIN <<>> : IsHeader(<<>>[i])
    OBVIOUS
  <2>3. List(<<>>)
    BY <2>1, <2>2, ListOf
  <2> QED
    BY <1>2, <1>4, <1>6, <2>1, <2>3
<1>7. IsName(a.keyName) /\ a.keyName[1] = "x"
  BY <1>2 DEF IsAuth
<1>8. CASE h # <<>>
  <2>1. List(h) /\ \A i \in DOMAIN h : h[i].key[1] \in {"x", "authorization"}
    BY <1>3, <1>5, <1>7, <1>8, OwnNames
  <2> QED
    BY <1>2, <1>4, <2>1
<1> QED
  BY <1>6, <1>8

LEMMA RowsAreHeaders ==
  ASSUME NEW hs \in UpTo(Rows, 2)
  PROVE  List(hs) /\ ~HasKey(hs, "x-invoke-http-version-mode")
<1>1. PICK n \in 0..2 : hs \in [1..n -> Rows]
  BY DEF UpTo
<1>2. hs \in Seq(Rows) /\ DOMAIN hs = 1..n
  BY <1>1
<1>3. ASSUME NEW e \in Rows PROVE IsHeader(e) /\ e.key[1] # "x-invoke-http-version-mode"
  <2>1. e = [key |-> e.key, value |-> e.value, enabled |-> e.enabled] /\ e.key \in Keys /\ e.enabled \in BOOLEAN
    BY DEF Rows
  <2>2. ASSUME NEW key \in Keys PROVE IsName(key) /\ key[1] # "x-invoke-http-version-mode"
    <3>1. CASE key = <<"x", "X">>
      BY <3>1 DEF IsName
    <3>2. CASE key = <<"x", "x">>
      BY <3>2 DEF IsName
    <3>3. CASE key = <<"cookie", "Cookie">>
      BY <3>3 DEF IsName
    <3>4. CASE key = <<"content-type", "Content-Type">>
      BY <3>4 DEF IsName
    <3>5. CASE key = <<"authorization", "authorization">>
      BY <3>5 DEF IsName
    <3>6. CASE key = <<"x-invoke-allow-private", "X-Invoke-Allow-Private">>
      BY <3>6 DEF IsName
    <3>7. CASE key = <<"", "">>
      BY <3>7 DEF IsName
    <3> QED
      BY <3>1, <3>2, <3>3, <3>4, <3>5, <3>6, <3>7 DEF Keys
  <2> QED
    BY <2>1, <2>2 DEF IsHeader
<1>4. \A i \in DOMAIN hs : hs[i] \in Rows
  BY <1>1, <1>2
<1> QED
  BY <1>2, <1>3, <1>4, ListOf DEF HasKey

\* Every request of the run is one that the theorems are about.
LEMMA ResolvedRequests ==
  ASSUME NEW more \in BOOLEAN, NEW hs \in UpTo(Rows, 2), NEW a \in MCAuths, NEW body
  PROVE  IsResolved(Resolved(more, hs, a, body)) /\ IsCarried(Resolved(more, hs, a, body))
<1> DEFINE r == Resolved(more, hs, a, body)
           own == AuthHeader(a)
           all == hs \o own
           version == "x-invoke-http-version-mode"
<1>2. List(hs) /\ ~HasKey(hs, version)
  BY RowsAreHeaders
<1>3. IsAuth(a) /\ List(own) /\ \A i \in DOMAIN own : own[i].key[1] \in {"x", "authorization"}
  BY AuthShape
<1>10. a.type = "api-key" /\ a.in = "header" /\ a.token # "" => own = <<H(a.keyName, a.token)>>
  BY AuthShape
<1>11. a.keyName[1] = "x" /\ a.keyName[2] = "X"
  <2>1. a.keyName = <<"x", "X">>
    BY AuthShape
  <2> QED
    BY <2>1
<1>4. /\ r.headers = all /\ r.auth = a /\ r.options.httpVersion \in {"auto", "http1"}
      /\ r = [method |-> r.method, query |-> r.query, params |-> r.params, headers |-> r.headers,
              bodyMode |-> r.bodyMode, body |-> r.body, auth |-> r.auth, options |-> r.options]
  BY DEF Resolved
<1> HIDE DEF r
<1> HIDE DEF own
<1>5. /\ List(all)
      /\ \A i \in DOMAIN all : (\E j \in DOMAIN hs : all[i] = hs[j]) \/ \E j \in DOMAIN own : all[i] = own[j]
  <2>1. List(hs) /\ List(own)
    BY <1>2, <1>3
  <2>2. /\ List(hs \o own)
        /\ \A i \in DOMAIN (hs \o own) :
             (\E j \in DOMAIN hs : (hs \o own)[i] = hs[j]) \/ \E j \in DOMAIN own : (hs \o own)[i] = own[j]
        /\ \A j \in DOMAIN own : \E i \in DOMAIN (hs \o own) : (hs \o own)[i] = own[j]
        /\ \A k : ~HasKey(own, k) => Alike(hs, hs \o own, k)
    BY <2>1, JoinedHeaders, Zenon
  <2> QED
    BY <2>2
<1>6. ~HasKey(all, version)
  BY <1>2, <1>3, <1>5 DEF HasKey
<1>7. ASSUME a.type = "api-key", a.in = "header", a.token # ""
      PROVE  ValueOf(Deduped(all), a.keyName[1]) = {a.token}
  <2> DEFINE h == H(a.keyName, a.token)
             n == Len(hs) + 1
  <2>1. own = <<h>> /\ h.key = a.keyName /\ h.value = a.token /\ h.enabled
    BY <1>7, <1>10 DEF H
  <2>2. IsHeader(h)
    BY <1>3 DEF IsAuth, H, IsHeader
  <2> HIDE DEF h
  <2>3. all = Append(hs, h)
    <3> DEFINE T == ToSet(hs) \union {h}
    <3>1. hs \in Seq(T) /\ h \in T
      BY <1>2 DEF List
    <3> HIDE DEF T
    <3>2. hs \o <<h>> = Append(hs, h)
      BY <3>1
    <3> QED
      BY <2>1, <3>2
  <2> HIDE DEF all
  <2>4. n \in DOMAIN all /\ all[n] = h
    BY <1>2, <2>3, ListAppend
  <2>5. Len(all) = n /\ n \in Nat
    <3> DEFINE T == ToSet(hs) \union {h}
    <3>1. hs \in Seq(T) /\ h \in T
      BY <1>2 DEF List
    <3> HIDE DEF T
    <3> QED
      BY <2>3, <3>1
  <2>6. Wins(all, n)
    <3>1. all[n].enabled /\ all[n].key[2] # ""
      BY <1>11, <2>1, <2>4
    <3>2. (n + 1)..Len(all) = {}
      BY <2>5
    <3> QED
      BY <3>1, <3>2, Zenon DEF Wins
  <2> QED
    <3>1. ValueOf(Deduped(all), all[n].key[1]) = {all[n].value}
      BY <1>5, <2>4, <2>6, DedupedHeaders
    <3> QED
      BY <2>1, <2>4, <3>1
<1> HIDE DEF all
<1>8. IsRequest(r)
  BY <1>3, <1>4, <1>5 DEF IsRequest
<1>9. a.keyName[1] # version
  BY <1>11
<1> QED
  BY <1>4, <1>6, <1>7, <1>8, <1>9 DEF IsResolved, IsCarried, r

-----------------------------------------------------------------------------
(* The headers that a script sets.                                         *)

LEMMA LeastPlace ==
  ASSUME NEW n \in Nat, NEW S \in SUBSET (1..n), S # {}
  PROVE  \E m \in S : \A k \in S : m <= k
<1>0. S \in SUBSET Nat
  OBVIOUS
<1>1. ASSUME NEW R, R = OpToRel(<, Nat) PROVE \E m \in S : \A k \in S : ~(<<k, m>> \in R)
  <2>1. IsWellFoundedOn(R, Nat)
    BY <1>1, NatLessThanWellFounded
  <2> QED
    BY <1>0, <2>1, WFMin
<1>2. \A x, y \in Nat : x < y => <<x, y>> \in OpToRel(<, Nat)
  BY DEF OpToRel
<1>3. PICK m \in S : \A k \in S : ~(<<k, m>> \in OpToRel(<, Nat))
  BY <1>1
<1>4. ASSUME NEW k \in S PROVE m <= k
  <2>1. k \in Nat /\ m \in Nat
    BY <1>0
  <2>2. ~(k < m)
    BY <1>2, <1>3, <2>1
  <2> QED
    BY <2>1, <2>2
<1> QED
  BY <1>4

\* A header that is set is there, switched on and with its value; no other row
\* is touched, and no name comes to be there twice.
LEMMA UpsertedHeader ==
  ASSUME NEW rows, List(rows), NEW key, IsName(key), NEW value
  PROVE  LET t == upsertKeyValue(rows, key, value)
         IN  /\ List(t)
             /\ \A n : Once(rows, n) => Once(t, n)
             /\ \E i \in DOMAIN t : t[i].key[1] = key[1] /\ t[i].enabled /\ t[i].value = value
             /\ \A i \in DOMAIN rows : rows[i].key[1] # key[1] => i \in DOMAIN t /\ t[i] = rows[i]
<1> DEFINE named == {i \in DOMAIN rows : rows[i].key[1] = key[1]}
           t == upsertKeyValue(rows, key, value)
           new == [key |-> key, value |-> value, enabled |-> TRUE]
<1>0. DOMAIN rows = 1..Len(rows) /\ Len(rows) \in Nat /\ \A i \in DOMAIN rows : IsHeader(rows[i])
  BY ListShape DEF List
<1>1. CASE named # {}
  <2> DEFINE m == CHOOSE i \in named : \A j \in named : i <= j
             e == [key |-> rows[m].key, value |-> value, enabled |-> TRUE]
  <2>1. m \in named
    <3>1. \E i \in named : \A j \in named : i <= j
      BY <1>0, <1>1, LeastPlace
    <3> HIDE DEF named
    <3> QED
      BY <3>1
  <2>2. t = [rows EXCEPT ![m] = e]
    BY <1>1 DEF upsertKeyValue
  <2>3. m \in DOMAIN rows /\ rows[m].key[1] = key[1]
    BY <2>1
  <2> HIDE DEF m, named
  <2>4. IsHeader(e) /\ e.key = rows[m].key /\ e.value = value /\ e.enabled
    BY <1>0, <2>3 DEF IsHeader
  <2> HIDE DEF e, t
  <2>5. DOMAIN t = DOMAIN rows /\ t = [i \in DOMAIN rows |-> IF i = m THEN e ELSE rows[i]]
    BY <1>0, <2>2
  <2>6. \A i \in DOMAIN t : IsHeader(t[i]) /\ t[i].key = rows[i].key /\ (i # m => t[i] = rows[i])
    BY <1>0, <2>4, <2>5
  <2>7. List(t)
    <3>1. t = [i \in 1..Len(rows) |-> t[i]]
      BY <1>0, <2>5
    <3>2. \A i \in 1..Len(rows) : t[i] \in {t[j] : j \in 1..Len(rows)}
      OBVIOUS
    <3>3. t \in Seq({t[j] : j \in 1..Len(rows)})
      BY <1>0, <3>1, <3>2, FunctionIsSequence, Zenon
    <3> QED
      BY <2>6, <3>3, ListOf
  <2>8. \A n : Once(rows, n) => Once(t, n)
    BY <2>5, <2>6 DEF Once
  <2>9. t[m] = e
    BY <2>3, <2>5
  <2> QED
    BY <2>3, <2>4, <2>5, <2>6, <2>7, <2>8, <2>9 DEF t
<1>2. CASE named = {}
  <2>1. t = Append(rows, new)
    BY <1>2 DEF upsertKeyValue
  <2>2. IsHeader(new) /\ new.key = key /\ new.value = value /\ new.enabled
    BY DEF IsHeader
  <2>3. ~HasKey(rows, key[1])
    BY <1>2 DEF HasKey
  <2> HIDE DEF new, named, t
  <2>4. /\ List(t) /\ Once(t, key[1]) /\ \A k : k # key[1] => Alike(rows, t, k)
    BY <2>1, <2>2, <2>3, AppendedHeader
  <2>5. /\ Len(rows) + 1 \in DOMAIN t /\ t[Len(rows) + 1] = new
        /\ \A i \in 1..Len(rows) : t[i] = rows[i]
    BY <2>1, ListAppend
  <2>6. \A i \in DOMAIN rows : i \in DOMAIN t
    BY <1>0, <2>4, <2>5, ListShape
  <2>7. \A n : Once(rows, n) => Once(t, n)
    BY <2>4 DEF Alike
  <2> QED
    BY <1>0, <2>2, <2>4, <2>5, <2>6, <2>7 DEF t
<1> QED
  BY <1>1, <1>2

\* The copy has a name no oftener than the caller, and what the script asked.
Follows(own, hs, asked) ==
  /\ List(hs)
  /\ \A n : Once(own, n) => Once(hs, n)
  /\ \A n \in DOMAIN asked :
       \E i \in DOMAIN hs : hs[i].key[1] = n /\ hs[i].enabled /\ hs[i].value = asked[n]

OfRequest(r) == r = [headers |-> r.headers, variables |-> r.variables]

HeadersFollow ==
  /\ OfRequest(requests["caller"]) /\ OfRequest(requests["copy"]) /\ List(requests["caller"].headers)
  /\ script.pc = "idle" => DOMAIN script.asked = {}
  /\ script.pc # "idle" => Follows(requests["caller"].headers, requests["copy"].headers, script.asked)

LEMMA RequestOf ==
  ASSUME NEW hs, NEW vs, NEW r, r = [headers |-> hs, variables |-> vs]
  PROVE  OfRequest(r) /\ r.headers = hs
BY DEF OfRequest

LEMMA GivenHeaders ==
  ASSUME NEW hs \in CallerHeaders
  PROVE  List(hs)
<1> DEFINE T == [key : Name, value : STRING, enabled : BOOLEAN]
<1>1. hs \in Seq(T)
  BY HeaderAssumption
<1>2. ASSUME NEW e \in T PROVE IsHeader(e)
  <2>1. e = [key |-> e.key, value |-> e.value, enabled |-> e.enabled] /\ e.enabled \in BOOLEAN /\ e.key \in Name
    OBVIOUS
  <2>2. IsName(e.key)
    BY <2>1 DEF Name, IsName
  <2> QED
    BY <2>1, <2>2 DEF IsHeader
<1> HIDE DEF T
<1>3. \A i \in 1..Len(hs) : hs[i] \in T
  BY <1>1
<1>4. DOMAIN hs = 1..Len(hs)
  BY <1>1
<1> QED
  BY <1>1, <1>2, <1>3, <1>4, ListOf

LEMMA FollowInitial == ScriptInit => HeadersFollow
<1> SUFFICES ASSUME ScriptInit PROVE HeadersFollow
  OBVIOUS
<1> DEFINE Given(hs, vs) ==
             requests = [o \in {"caller", "copy"} |->
               IF o = "caller" THEN [headers |-> hs, variables |-> vs] ELSE [headers |-> <<>>, variables |-> {}]]
<1>1. PICK hs, vs : hs \in CallerHeaders /\ Given(hs, vs)
  <2>1. \E hs \in CallerHeaders, vs \in SUBSET (VariableNames \ {""}) : Given(hs, vs)
    BY DEF ScriptInit
  <2> HIDE DEF Given
  <2> QED
    BY <2>1
<1>2. /\ requests["caller"] = [headers |-> hs, variables |-> vs]
      /\ requests["copy"] = [headers |-> <<>>, variables |-> {}]
  BY <1>1
<1>3. List(hs)
  BY <1>1, GivenHeaders
<1>4. script.pc = "idle" /\ script.asked = [k \in {} |-> 0]
  BY DEF ScriptInit
<1>5. DOMAIN script.asked = {}
  BY <1>4
<1>6. requests["caller"].headers = hs /\ OfRequest(requests["caller"]) /\ OfRequest(requests["copy"])
  BY <1>2, RequestOf
<1> QED
  BY <1>3, <1>4, <1>5, <1>6 DEF HeadersFollow

\* A step that leaves the headers as they are.
LEMMA QuietFollow ==
  ASSUME HeadersFollow, script.pc # "idle", script'.pc # "idle", script'.asked = script.asked,
         requests'["caller"] = requests["caller"], NEW vs,
         requests'["copy"] = [headers |-> requests["copy"].headers, variables |-> vs]
  PROVE  HeadersFollow'
<1>1. OfRequest(requests'["copy"]) /\ requests'["copy"].headers = requests["copy"].headers
  BY DEF OfRequest
<1> QED
  BY <1>1 DEF HeadersFollow

\* The copy is made.
LEMMA CopyFollows ==
  ASSUME HeadersFollow, script.pc = "idle", script'.pc # "idle", script'.asked = script.asked,
         requests'["caller"] = requests["caller"], requests'["copy"] = requests["caller"]
  PROVE  HeadersFollow'
BY DEF HeadersFollow, Follows

LEMMA FollowStep ==
  ASSUME ScriptInv, HeadersFollow, ScriptNext
  PROVE  HeadersFollow'
<1>0. /\ script \in ScriptRec /\ script.on = "copy" /\ DOMAIN requests = {"caller", "copy"}
      /\ script.pc = "idle" => ~script.worker /\ ~script.timer
  BY DEF ScriptInv
<1>1. requests'["caller"] = requests["caller"]
  BY ScriptStep
<1>2. ASSUME script.pc = "idle", requests' = clonePlain(requests).requests, script'.pc # "idle",
             script'.asked = script.asked
      PROVE  HeadersFollow'
  <2>1. requests'["copy"] = requests["caller"]
    BY <1>0, <1>2 DEF clonePlain
  <2> QED
    BY <1>1, <1>2, <2>1, CopyFollows
<1>3. CASE runScript
  <2>1. script'.pc # "idle" /\ script'.asked = script.asked
    BY <1>0, <1>3 DEF runScript, ScriptRec
  <2> QED
    BY <1>2, <1>3, <2>1 DEF runScript
<1>4. CASE runInWorker
  <2>1. script'.pc # "idle" /\ script'.asked = script.asked
    BY <1>0, <1>4 DEF runInWorker, ScriptRec
  <2> QED
    BY <1>2, <1>4, <2>1 DEF runInWorker
<1>5. CASE runInline
  <2>1. script'.pc # "idle" /\ script'.asked = script.asked
    BY <1>0, <1>5 DEF runInline, ScriptRec
  <2> QED
    BY <1>2, <1>5, <2>1 DEF runInline
<1>6. ASSUME NEW key \in ScriptKeys, NEW value \in ScriptValues, setHeader(key, value)
      PROVE  HeadersFollow'
  <2> DEFINE own == requests["caller"].headers
             hs == requests["copy"].headers
             t == upsertKeyValue(hs, key, value)
             asked == [k \in DOMAIN script.asked \union {key[1]} |->
                         IF k = key[1] THEN value ELSE script.asked[k]]
  <2>1. IsName(key)
    BY HeaderAssumption DEF Name, IsName
  <2>2. script.pc = "running" /\ Follows(own, hs, script.asked)
    BY <1>6 DEF HeadersFollow, setHeader, ApiCall
  <2>3. /\ List(t) /\ \A n : Once(hs, n) => Once(t, n)
        /\ \E i \in DOMAIN t : t[i].key[1] = key[1] /\ t[i].enabled /\ t[i].value = value
        /\ \A i \in DOMAIN hs : hs[i].key[1] # key[1] => i \in DOMAIN t /\ t[i] = hs[i]
    BY <2>1, <2>2, UpsertedHeader DEF Follows
  <2>4. requests' = [requests EXCEPT !["copy"] = [requests["copy"] EXCEPT !.headers = t]]
    BY <1>0, <1>6 DEF setHeader
  <2>5. script' = [script EXCEPT !.calls = script.calls + 1, !.asked = asked]
    BY <1>6 DEF setHeader
  <2>6. DOMAIN asked = DOMAIN script.asked \union {key[1]} /\ asked[key[1]] = value
        /\ \A n \in DOMAIN script.asked : n # key[1] => asked[n] = script.asked[n]
    OBVIOUS
  <2> HIDE DEF asked, t
  <2>7. script'.asked = asked /\ script'.pc = "running"
    BY <1>0, <2>2, <2>5 DEF ScriptRec
  <2>8. OfRequest(requests'["copy"]) /\ requests'["copy"].headers = t
    <3> DEFINE vs == requests["copy"].variables
               old == requests["copy"].headers
    <3>1. requests["copy"] = [headers |-> old, variables |-> vs]
      BY DEF HeadersFollow, OfRequest
    <3>2. requests'["copy"] = [requests["copy"] EXCEPT !.headers = t]
      BY <1>0, <2>4
    <3> HIDE DEF old, vs
    <3>3. requests'["copy"] = [headers |-> t, variables |-> vs]
      BY <3>1, <3>2
    <3> QED
      BY <3>3 DEF OfRequest
  <2>9. Follows(own, t, asked)
    <3>1. \A n : Once(own, n) => Once(t, n)
      BY <2>2, <2>3 DEF Follows
    <3>2. ASSUME NEW n \in DOMAIN asked
          PROVE  \E i \in DOMAIN t : t[i].key[1] = n /\ t[i].enabled /\ t[i].value = asked[n]
      <4>1. CASE n = key[1]
        BY <2>3, <2>6, <4>1
      <4>2. CASE n # key[1]
        <5>1. n \in DOMAIN script.asked /\ asked[n] = script.asked[n]
          BY <2>6, <3>2, <4>2
        <5>2. PICK i \in DOMAIN hs : hs[i].key[1] = n /\ hs[i].enabled /\ hs[i].value = script.asked[n]
          BY <2>2, <5>1 DEF Follows
        <5> QED
          BY <2>3, <4>2, <5>1, <5>2
      <4> QED
        BY <4>1, <4>2
    <3> QED
      BY <2>3, <3>1, <3>2 DEF Follows
  <2> QED
    BY <1>1, <2>7, <2>8, <2>9 DEF HeadersFollow
<1>7. ASSUME script.pc # "idle", script'.pc # "idle", script'.asked = script.asked, requests' = requests
      PROVE  HeadersFollow'
  <2>1. requests'["copy"] = [headers |-> requests["copy"].headers, variables |-> requests["copy"].variables]
    BY <1>7 DEF HeadersFollow, OfRequest
  <2> QED
    BY <1>1, <1>7, <2>1, QuietFollow
<1>8. ASSUME NEW vs, ApiCall, script' = [script EXCEPT !.calls = @ + 1],
             requests' = [requests EXCEPT !["copy"] = [requests["copy"] EXCEPT !.variables = vs]]
      PROVE  HeadersFollow'
  <2>1. script.pc = "running" /\ script'.pc = "running" /\ script'.asked = script.asked
    BY <1>0, <1>8 DEF ApiCall, ScriptRec
  <2>2. requests'["copy"] = [headers |-> requests["copy"].headers, variables |-> vs]
    <3> DEFINE old == requests["copy"].variables
               hs == requests["copy"].headers
    <3>1. requests["copy"] = [headers |-> hs, variables |-> old]
      BY DEF HeadersFollow, OfRequest
    <3>2. requests'["copy"] = [requests["copy"] EXCEPT !.variables = vs]
      BY <1>0, <1>8
    <3> HIDE DEF old, hs
    <3>3. requests'["copy"] = [headers |-> hs, variables |-> vs]
      BY <3>1, <3>2
    <3> QED
      BY <3>3 DEF hs
  <2> QED
    BY <1>1, <2>1, <2>2, QuietFollow
<1>9. CASE \E name \in VariableNames : setVariable(name) \/ unsetVariable(name)
  BY <1>0, <1>8, <1>9 DEF setVariable, unsetVariable
<1>10. CASE skip
  <2>1. script.pc = "running" /\ script'.pc = "running" /\ script'.asked = script.asked /\ requests' = requests
    BY <1>0, <1>10 DEF skip, ApiCall, ScriptRec
  <2> QED
    BY <1>7, <2>1
<1>11. CASE \E how \in {"waits", "loops"} : Hangs(how)
  <2>1. script.pc # "idle" /\ script'.pc # "idle" /\ script'.asked = script.asked /\ requests' = requests
    BY <1>0, <1>11 DEF Hangs, ScriptRec
  <2> QED
    BY <1>7, <2>1
<1>12. CASE \E outcome \in {"resolved", "rejected"} : executeScript(outcome)
  <2>1. script.pc # "idle" /\ script'.pc # "idle" /\ script'.asked = script.asked /\ requests' = requests
    BY <1>0, <1>12 DEF executeScript, ScriptRec
  <2> QED
    BY <1>7, <2>1
<1>13. ASSUME NEW outcome, script' = [Released EXCEPT !.outcome = Settled(outcome)], requests' = requests,
              script.worker
       PROVE  HeadersFollow'
  <2>1. script.pc # "idle"
    BY <1>0, <1>13
  <2>2. script'.pc = "ended" /\ script'.asked = script.asked
    BY <1>0, <1>13 DEF Released, ScriptRec
  <2> QED
    BY <1>7, <1>13, <2>1, <2>2
<1>14. CASE onmessage
  BY <1>13, <1>14 DEF onmessage
<1>15. CASE onerror
  BY <1>13, <1>15 DEF onerror
<1>16. CASE Timeout
  <2>1. script.pc # "idle" /\ requests' = requests
    BY <1>0, <1>16 DEF Timeout
  <2>2. script'.pc # "idle" /\ script'.asked = script.asked
    BY <1>0, <1>16, <2>1 DEF Timeout, Released, ScriptRec
  <2> QED
    BY <1>7, <2>1, <2>2
<1> QED
  BY <1>3, <1>4, <1>5, <1>6, <1>9, <1>10, <1>11, <1>12, <1>14, <1>15, <1>16 DEF ScriptNext

LEMMA OnlyRow ==
  ASSUME NEW hs, List(hs), NEW i \in DOMAIN hs, Once(hs, hs[i].key[1])
  PROVE  \A j \in (i + 1)..Len(hs) : hs[j].key[1] # hs[i].key[1]
<1>1. DOMAIN hs = 1..Len(hs) /\ Len(hs) \in Nat
  BY ListShape
<1>2. \A j \in (i + 1)..Len(hs) : j \in DOMAIN hs /\ j # i
  BY <1>1
<1> QED
  BY <1>2 DEF Once

\* What a script asked a header to be is what the target gets, for every
\* request, script and number of calls of the API.
LEMMA AskedIsSent == HeadersFollow => ScriptHeaderIsSent
<1> SUFFICES ASSUME HeadersFollow, script.outcome = "resolved", script.pc = "ended",
                    NEW name \in DOMAIN script.asked \ (InvokeHeaders \union {""}),
                    Once(requests["caller"].headers, name)
             PROVE  ValueOf(ViaServer(Plain(requests["copy"].headers)).headers, name) = {script.asked[name]}
  BY DEF ScriptHeaderIsSent
<1> DEFINE hs == requests["copy"].headers
           d == Deduped(hs)
           r == Plain(hs)
           sent == ViaServer(r).headers
<1>1. List(hs) /\ Once(hs, name)
  BY DEF HeadersFollow, Follows
<1>2. PICK i \in DOMAIN hs : hs[i].key[1] = name /\ hs[i].enabled /\ hs[i].value = script.asked[name]
  BY DEF HeadersFollow, Follows
<1> HIDE DEF hs
<1>3. Wins(hs, i)
  <2>2. hs[i].key[2] # ""
    BY <1>1, <1>2 DEF List, IsHeader, IsName
  <2>3. \A j \in (i + 1)..Len(hs) : hs[j].key[1] # hs[i].key[1]
    BY <1>1, <1>2, OnlyRow
  <2> QED
    BY <1>2, <2>2, <2>3 DEF Wins
<1>4. HasKey(d, name) /\ ValueOf(d, name) = {script.asked[name]}
  <2>1. ValueOf(d, hs[i].key[1]) = {hs[i].value}
    BY <1>1, <1>3, DedupedHeaders
  <2> QED
    BY <1>2, <2>1, KeyHasValues
<1>5. r.headers = hs /\ r.bodyMode = "none" /\ IsRequest(r)
  <2> DEFINE a == Auth("none", "", "", "header")
  <2>1. IsAuth(a)
    BY DEF Auth, IsAuth, IsName
  <2> HIDE DEF a
  <2>2. r = [method |-> "GET", query |-> <<>>, params |-> <<>>, headers |-> hs, bodyMode |-> "none",
             body |-> "", auth |-> a,
             options |-> [allowPrivate |-> FALSE, connectTimeout |-> FALSE, httpVersion |-> "auto"]]
    BY DEF Plain, a
  <2> HIDE DEF r
  <2> QED
    BY <1>1, <2>1, <2>2 DEF IsRequest
<1>6. Alike(d, sent, name)
  <2>1. \A k : HasKey(d, k) /\ k \notin InvokeHeaders /\ (k # "content-type" \/ r.bodyMode = "none") => Alike(d, sent, k)
    <3> HIDE DEF r
    <3> QED
      BY <1>5, ServerSends
  <2> QED
    BY <1>4, <1>5, <2>1
<1> QED
  BY <1>4, <1>6 DEF Alike, hs

LEMMA HeadersInvariant ==
  Spec => [](HeadersFollow /\ (resolved # Nothing => IsResolved(resolved) /\ IsCarried(resolved)))
<1> DEFINE Known == resolved # Nothing => IsResolved(resolved) /\ IsCarried(resolved)
<1>1. Init => HeadersFollow /\ Known
  BY FollowInitial DEF Init
<1>2. ScriptInv /\ HeadersFollow /\ Known /\ [Next]_vars => HeadersFollow' /\ Known'
  <2> SUFFICES ASSUME ScriptInv, HeadersFollow, Known, [Next]_vars PROVE HeadersFollow' /\ Known'
    OBVIOUS
  <2>1. UNCHANGED scriptVars \/ ScriptNext
    BY DEF Next, vars
  <2>3. \/ resolved' = resolved
        \/ \E more \in BOOLEAN, hs \in UpTo(Rows, 2), a \in MCAuths, b \in Bodies :
             resolved' = Resolved(more, hs, a, b)
    BY DEF Next, vars
  <2>4. Known'
    BY <2>3, ResolvedRequests
  <2>2. CASE UNCHANGED scriptVars
    <3>1. script' = script /\ requests' = requests
      BY <2>2 DEF scriptVars
    <3>2. HeadersFollow'
      BY <3>1, Zenon DEF HeadersFollow
    <3> QED
      BY <2>4, <3>2
  <2> QED
    BY <2>1, <2>2, <2>4, FollowStep
<1> QED
  BY <1>1, <1>2, PageInvariant, PTL DEF Spec

\* Whatever was resolved reaches its target as it is, by the server and by the
\* browser alike, and so does every header that a script sets
\* (ViaServer, browserFetch, upsertKeyValue).
THEOREM RequestsAreFaithful == Spec => []RequestIsFaithful
<1>1. (resolved # Nothing => IsResolved(resolved) /\ IsCarried(resolved)) => PayloadArrives /\ ModesAgree
  BY RequestsArrive, ModesSendAlike DEF PayloadArrives, ModesAgree, IsResolved
<1>2. HeadersFollow => ScriptHeaderIsSent
  BY AskedIsSent
<1> QED
  BY <1>1, <1>2, HeadersInvariant, PTL DEF RequestIsFaithful
=============================================================================
