------------------------------- MODULE Runners -------------------------------
(***************************************************************************)
(* The collection runner and the batch runner, in the dialogs that start   *)
(* and cancel them.  Cancelling marks the run and makes the dialog ready   *)
(* at once; the run itself notices when the request it waits for is        *)
(* answered, so the user can start another one over it.                    *)
(***************************************************************************)
EXTENDS Naturals, FiniteSets, Sequences

CONSTANTS
  Runs, NoRun,
  Requests,         \* number of requests of the collection, iterations of a batch
  Concurrency       \* requests of a batch in flight at once

\* BatchSetup keeps both of a batch at 1 or more, and handleRun starts no run of
\* an empty collection.
ASSUME ConcurrencyAssumption == Concurrency \in Nat \ {0} /\ Requests \in Nat \ {0}
ASSUME RunsAssumption == NoRun \notin Runs

VARIABLES
  dialog,           \* running, runnerRef and the result shown
  runs

runnerVars == <<dialog, runs>>

RunnerInit ==
  /\ dialog = [running |-> FALSE, runnerRef |-> NoRun, result |-> NoRun]
  /\ runs = [r \in Runs |->
       [pc |-> "idle", kind |-> "collection", stopOnFailure |-> FALSE, delay |-> FALSE,
        cancelled |-> FALSE, over |-> FALSE, results |-> <<>>, variables |-> {}, saw |-> <<>>,
        i |-> 0, inFlight |-> 0, issued |-> 0, passed |-> 0, failed |-> 0, done |-> 0]]

Running(r) == runs[r].pc \in {"wait", "sleep"}
Smaller(a, b) == IF a < b THEN a ELSE b

(* ---- CollectionRunner.run, from the head of its loop ---- *)

CollectionHead(run) ==
  IF run.cancelled \/ run.i = Requests THEN [run EXCEPT !.pc = "ended"]
  ELSE [run EXCEPT !.pc = "wait", !.i = @ + 1, !.issued = @ + 1, !.saw = Append(@, run.variables)]

\* What an answer extracts is added to what the run has, passed or failed.
Extracted(run, status) == IF status = "error" THEN run.variables ELSE run.variables \union {run.i}

CollectionAnswer(run, status) ==
  LET noted == [run EXCEPT !.results = Append(@, status), !.variables = Extracted(run, status)]
  IN IF run.stopOnFailure /\ status # "passed" THEN [noted EXCEPT !.pc = "ended"]
     ELSE CollectionHead(noted)

(* ---- BatchRunner.run ---- *)

BatchHead_WholeBatch(run) ==
  IF run.cancelled \/ run.i >= Requests THEN [run EXCEPT !.pc = "ended"]
  ELSE [run EXCEPT !.pc = "wait", !.inFlight = Concurrency, !.issued = @ + Concurrency]

BatchHead(run) ==
  IF run.cancelled \/ run.i >= Requests THEN [run EXCEPT !.pc = "ended"]
  ELSE LET batch == Smaller(Concurrency, Requests - run.i)
       IN [run EXCEPT !.pc = "wait", !.inFlight = batch, !.issued = @ + batch]

NextBatch(run) == [run EXCEPT !.i = @ + Concurrency]

\* After Promise.all: progress, the stop on failure, the delay.
BatchDone(run) ==
  LET batch == Smaller(Concurrency, Requests - run.i)
      counted == [run EXCEPT !.done = @ + batch]
  IN CASE run.stopOnFailure /\ run.failed > 0 -> [counted EXCEPT !.pc = "ended"]
       [] ~(run.stopOnFailure /\ run.failed > 0) /\ run.delay /\ run.i + batch < Requests ->
            [counted EXCEPT !.pc = "sleep"]
       [] OTHER -> BatchHead(NextBatch(counted))

BatchAnswer(run, status) ==
  LET counted == [run EXCEPT !.inFlight = @ - 1,
                             !.passed = @ + (IF status = "passed" THEN 1 ELSE 0),
                             !.failed = @ + (IF status = "passed" THEN 0 ELSE 1)]
  IN IF counted.inFlight = 0 THEN BatchDone(counted) ELSE counted

\* percentile, of n durations: the index of the one that is taken.
percentile(n, hundredths) == Smaller((n * hundredths) \div 100, n - 1)

(* ---- the dialogs ---- *)

\* run returned: the result is shown and the finally clause runs.
After(r, run) ==
  /\ runs' = [runs EXCEPT ![r] = run]
  /\ dialog' = IF run.pc = "ended" THEN [running |-> FALSE, runnerRef |-> NoRun, result |-> r] ELSE dialog

handleRun(r) ==
  /\ runs[r].pc = "idle" /\ ~dialog.running
  /\ \E kind \in {"collection", "batch"}, stop, delay \in BOOLEAN :
       LET run == [runs[r] EXCEPT !.kind = kind, !.stopOnFailure = stop,
                                  !.delay = delay /\ kind = "batch",
                                  !.over = \E q \in Runs : Running(q)]
       IN runs' = [runs EXCEPT ![r] = IF kind = "batch" THEN BatchHead(run) ELSE CollectionHead(run)]
  /\ dialog' = [running |-> TRUE, runnerRef |-> r, result |-> NoRun]

Answered(r) ==
  /\ runs[r].pc = "wait"
  /\ \E status \in {"passed", "failed", "error"} :
       After(r, IF runs[r].kind = "batch" THEN BatchAnswer(runs[r], status)
                ELSE CollectionAnswer(runs[r], status))

Slept(r) == runs[r].pc = "sleep" /\ After(r, BatchHead(NextBatch(runs[r])))

handleCancel ==
  /\ dialog.running
  /\ dialog' = [dialog EXCEPT !.running = FALSE]
  /\ runs' = IF dialog.runnerRef = NoRun THEN runs
             ELSE [runs EXCEPT ![dialog.runnerRef].cancelled = TRUE]

RunnerNext == handleCancel \/ \E r \in Runs : handleRun(r) \/ Answered(r) \/ Slept(r)

RunnerSpec == RunnerInit /\ [][RunnerNext]_runnerVars

\* Every request is answered or fails.
RunnerFairness == \A r \in Runs : WF_runnerVars(Answered(r)) /\ WF_runnerVars(Slept(r))

RunnerTypeOK ==
  /\ dialog.running \in BOOLEAN
  /\ {dialog.runnerRef, dialog.result} \subseteq Runs \union {NoRun}
  /\ \A r \in Runs : /\ runs[r].pc \in {"idle", "wait", "sleep", "ended"}
                     /\ runs[r].done \in 0..Requests

\* A cancelled run issues no further request.
CancelStopsRun == [][\A r \in Runs : runs[r].cancelled => runs'[r].issued = runs[r].issued]_runnerVars

\* A request of a collection sees what all earlier answers extracted, and
\* stopOnFailure leaves at most one failure, the last result.
VariablesFlow ==
  \A r \in Runs :
    LET run == runs[r] IN
    /\ \A i \in DOMAIN run.saw : run.saw[i] = {j \in 1..(i - 1) : run.results[j] # "error"}
    /\ run.stopOnFailure =>
         \A i \in DOMAIN run.results : run.results[i] # "passed" => i = Len(run.results)

\* A batch keeps its concurrency, never runs over its iterations, and, left
\* alone, answers for every one of them; the percentiles it reports are in
\* order and among its durations.
BatchAccounted ==
  \A r \in Runs :
    LET run == runs[r]
        n == run.passed + run.failed
    IN run.kind = "batch" =>
         /\ run.inFlight <= Concurrency /\ run.issued <= Requests
         /\ run.issued = n + run.inFlight
         /\ (run.pc = "ended" /\ ~run.cancelled /\ ~(run.stopOnFailure /\ run.failed > 0)) =>
              n = Requests /\ run.done = Requests
         /\ n > 0 => /\ percentile(n, 50) <= percentile(n, 95)
                     /\ percentile(n, 95) <= percentile(n, 99) /\ percentile(n, 99) < n

\* The dialog shows a run as running, with its cancel button, until it is
\* cancelled or ends, unless it was started over one that was still ending.
RunCanBeCancelled ==
  \A r \in Runs :
    (Running(r) /\ ~runs[r].cancelled /\ ~runs[r].over) =>
      dialog.running /\ dialog.runnerRef = r

\* Every run ends.
RunsEnd == \A r \in Runs : Running(r) ~> runs[r].pc = "ended"

\* A run of a collection or a batch accounts for its requests: a request sees
\* what the answers before it extracted, a batch answers for every iteration
\* within its concurrency, and a run that goes on can be cancelled.
RunsAccount == RunnerTypeOK /\ VariablesFlow /\ BatchAccounted /\ RunCanBeCancelled
=============================================================================
