------------------------------ MODULE FlowRunner ------------------------------
(***************************************************************************)
(* FlowRunner: a fiber that runs the steps of one flow.  Requests may be   *)
(* retried and time out, conditions and loops run nested steps, and        *)
(* cancel() may interrupt the fiber wherever it waits.                     *)
(*                                                                         *)
(* The recursion of stepsEffect, conditionEffect and loopEffect is a stack *)
(* of frames here, one for each call of stepsEffect or loopEffect that has *)
(* not returned.  What a condition compares is not modelled: it may hold   *)
(* or not.  A hook is awaited where the code awaits it; it changes nothing *)
(* here unless it rejects, which ends the run.                             *)
(***************************************************************************)
EXTENDS Integers, Sequences, FiniteSets

CONSTANTS
  StepIds,    \* validateFlow: step ids are unique in the whole flow
  Step,       \* the steps, by their ids
  Main,       \* Flow.steps, as ids
  NoStep,     \* no step
  NoNumber,   \* a number that the flow does not give
  DefaultMax  \* iterations of a loop that does not limit them     (1000)

StepTypes == {"request", "delay", "condition", "loop"}

ASSUME FlowAssumption ==
  /\ NoStep \notin StepIds
  /\ Main \in Seq(StepIds)
  /\ DefaultMax \in Nat
  /\ \A s \in StepIds :
       /\ Step[s].type \in StepTypes
       /\ Step[s].steps \in Seq(StepIds)      \* thenSteps, or a loop's steps
       /\ Step[s].elseSteps \in Seq(StepIds)
       /\ Step[s].continueOnFailure \in BOOLEAN
       /\ Step[s].hasCondition \in BOOLEAN    \* has a loop a condition?
       /\ Step[s].retryCount \in Nat
       /\ Step[s].count \in Int \union {NoNumber}
       /\ Step[s].maxIterations \in Int \union {NoNumber}

VARIABLES
  pc,        \* what the fiber does, or how the run ended
  stack,     \* calls of stepsEffect and loopEffect, the innermost last
  attempts,  \* retries of the current request that are left
  results,   \* the results array, which survives an interruption
  running,   \* executions of requests that were started and did not settle
  frames     \* auxiliary: calls of stepsEffect so far, which number the frames

vars == <<pc, stack, attempts, results, running, frames>>

Waits == {"next", "attempt", "awaiting", "sleeping", "reporting"}
Ends  == {"passed", "failed", "cancelled", "thrown"}

Frame  == [id : Nat, steps : Seq(StepIds), loop : StepIds \union {NoStep}, left : Nat]
Result == [step : StepIds, status : {"passed", "failed"}, frame : Nat]

Call(n, steps) == [id |-> n, steps |-> steps, loop |-> NoStep, left |-> 0]

Init ==
  /\ pc = "next"
  /\ stack = <<Call(1, Main)>>
  /\ attempts = 0
  /\ results = <<>>
  /\ running = [s \in StepIds |-> 0]
  /\ frames = 1

Top     == stack[Len(stack)]
Below   == SubSeq(stack, 1, Len(stack) - 1)
Current == Head(Top.steps)

\* The fiber is at the next step of a call of stepsEffect, and it is s.
AtStep(s) == pc = "next" /\ Top.steps # <<>> /\ Current = s

Push(s, status, frame) ==
  results' = Append(results, [step |-> s, status |-> status, frame |-> frame])

WithTop(f) == Append(Below, f)
After(f)   == [f EXCEPT !.steps = Tail(@)]

-----------------------------------------------------------------------------
(* Requests.                                                               *)

RequestStart(s) ==
  /\ AtStep(s) /\ Step[s].type = "request"
  /\ pc' = "attempt"
  /\ attempts' = Step[s].retryCount
  /\ UNCHANGED <<stack, results, running, frames>>

\* At once, or when the delay before a retry is over.
Execute ==
  /\ pc = "attempt"
  /\ pc' = "awaiting"
  /\ running' = [running EXCEPT ![Current] = @ + 1]
  /\ UNCHANGED <<stack, attempts, results, frames>>

\* Mutant: a failure does not end the steps that it is one of.
Complete_GoesOn(status) ==
  /\ Push(Current, status, Top.id)
  /\ pc' = "next"
  /\ stack' = WithTop(After(Top))
  /\ UNCHANGED frames

\* The result of a request is recorded; stepsEffect goes on or returns.
Complete(status) ==
  LET s == Current
  IN  /\ Push(s, status, Top.id)
      /\ pc' = "next"
      /\ stack' = WithTop(IF status = "failed" /\ ~Step[s].continueOnFailure
                          THEN [Top EXCEPT !.steps = <<>>] ELSE After(Top))
      /\ UNCHANGED frames

Settle == running' = [running EXCEPT ![Current] = @ - 1]

\* A response: it carries an error or fails an assertion, or it does not.
Answer(status) ==
  /\ pc = "awaiting"
  /\ Settle
  /\ Complete(status)
  /\ UNCHANGED attempts

Retry ==
  /\ attempts > 0
  /\ attempts' = attempts - 1
  /\ pc' = "attempt"
  /\ UNCHANGED <<stack, results, frames>>

GiveUp ==
  /\ attempts = 0
  /\ Complete("failed")
  /\ UNCHANGED attempts

\* execute rejects, or the request cannot be resolved.
Reject ==
  /\ pc = "awaiting"
  /\ Settle
  /\ Retry \/ GiveUp

\* Mutant: an attempt has no timeout.
Timeout_None == FALSE

\* Effect.timeout gives up waiting.  Nothing tells execute, which goes on.
Timeout ==
  /\ pc = "awaiting"
  /\ UNCHANGED running
  /\ Retry \/ GiveUp

\* An execution that nobody awaits any more settles.
StrayEnds(s) ==
  /\ running[s] > IF pc = "awaiting" /\ Current = s THEN 1 ELSE 0
  /\ running' = [running EXCEPT ![s] = @ - 1]
  /\ UNCHANGED <<pc, stack, attempts, results, frames>>

-----------------------------------------------------------------------------
(* Delays, conditions and loops.                                           *)

DelayStart(s) ==
  /\ AtStep(s) /\ Step[s].type = "delay"
  /\ pc' = "sleeping"
  /\ UNCHANGED <<stack, attempts, results, running, frames>>

DelayEnd ==
  /\ pc = "sleeping"
  /\ Push(Current, "passed", Top.id)
  /\ pc' = "next"
  /\ stack' = WithTop(After(Top))
  /\ UNCHANGED <<attempts, running, frames>>

\* The condition's own result comes before those of the branch it takes.
Condition(s) ==
  /\ AtStep(s) /\ Step[s].type = "condition"
  /\ Push(s, "passed", Top.id)
  /\ frames' = frames + 1
  /\ \E branch \in {Step[s].steps, Step[s].elseSteps} :
       stack' = Append(WithTop(After(Top)), Call(frames + 1, branch))
  /\ UNCHANGED <<pc, attempts, running>>

AtLeast0(n) == IF n < 0 THEN 0 ELSE n
loopMaxIterations(count, maxIterations) ==
  LET safeMax == AtLeast0(IF maxIterations = NoNumber THEN DefaultMax ELSE maxIterations)
  IN  IF count = NoNumber THEN safeMax
      ELSE IF AtLeast0(count) < safeMax THEN AtLeast0(count) ELSE safeMax

LoopStart(s) ==
  /\ AtStep(s) /\ Step[s].type = "loop"
  /\ stack' = Append(WithTop(After(Top)),
                     [id |-> Top.id, steps |-> <<>>, loop |-> s,
                      left |-> loopMaxIterations(Step[s].count, Step[s].maxIterations)])
  /\ UNCHANGED <<pc, attempts, results, running, frames>>

AtLoop == pc = "next" /\ Top.steps = <<>> /\ Top.loop # NoStep

\* Another iteration, if the loop's condition lets it run.
LoopIterate ==
  /\ AtLoop
  /\ Top.left > 0
  /\ frames' = frames + 1
  /\ stack' = Append(WithTop([Top EXCEPT !.left = @ - 1]),
                     Call(frames + 1, Step[Top.loop].steps))
  /\ UNCHANGED <<pc, attempts, results, running>>

\* All iterations are done, or the condition ends the loop.
LoopEnd ==
  /\ AtLoop
  /\ Top.left = 0 \/ Step[Top.loop].hasCondition
  /\ Push(Top.loop, "passed", Top.id)
  /\ stack' = Below
  /\ UNCHANGED <<pc, attempts, running, frames>>

-----------------------------------------------------------------------------
(* The run.                                                                *)

\* A nested call of stepsEffect returns to the condition or loop above it.
Return ==
  /\ pc = "next" /\ Len(stack) > 1
  /\ Top.steps = <<>> /\ Top.loop = NoStep
  /\ stack' = Below
  /\ UNCHANGED <<pc, attempts, results, running, frames>>

\* All steps are done; the outcome is passed to onFlowComplete.
StepsDone ==
  /\ pc = "next" /\ Len(stack) = 1 /\ Top.steps = <<>>
  /\ pc' = "reporting"
  /\ UNCHANGED <<stack, attempts, results, running, frames>>

Passed == \A i \in 1..Len(results) : results[i].status # "failed"

Finish ==
  /\ pc = "reporting"
  /\ pc' = IF Passed THEN "passed" ELSE "failed"
  /\ UNCHANGED <<stack, attempts, results, running, frames>>

\* cancel() interrupts the fiber; an execution it awaits goes on.
Cancel ==
  /\ pc \in Waits
  /\ pc' = "cancelled"
  /\ UNCHANGED <<stack, attempts, results, running, frames>>

\* A hook rejects, or assertions or extraction rules throw.
Throw ==
  /\ pc \in Waits
  /\ pc' = "thrown"
  /\ UNCHANGED <<stack, attempts, results, running, frames>>

Fiber ==
  \/ \E s \in StepIds : RequestStart(s) \/ DelayStart(s) \/ Condition(s) \/ LoopStart(s)
  \/ Execute \/ Timeout \/ DelayEnd
  \/ LoopIterate \/ LoopEnd \/ Return \/ StepsDone \/ Finish

Next ==
  \/ Fiber
  \/ Answer("passed") \/ Answer("failed") \/ Reject
  \/ Cancel
  \/ Throw
  \/ \E s \in StepIds : StrayEnds(s)

Spec == Init /\ [][Next]_vars

(***************************************************************************)
(* Fairness.  The runtime schedules the fiber, its timers fire and the     *)
(* hooks settle.  Nothing is assumed of executions, awaited or not: it is  *)
(* the timeout of an attempt that gets the fiber on.                       *)
(***************************************************************************)
FairSpec == Spec /\ WF_vars(Fiber)

-----------------------------------------------------------------------------
(* Properties.                                                             *)

\* Every variable has its type; while the fiber runs it is in some call.
TypeOK ==
  /\ pc \in Waits \union Ends
  /\ stack \in Seq(Frame) /\ stack # <<>>
  /\ attempts \in Nat
  /\ results \in Seq(Result)
  /\ running \in [StepIds -> Nat]
  /\ frames \in Nat

\* A request failed that its step does not allow to fail.
Fatal(r) ==
  /\ r.status = "failed"
  /\ Step[r.step].type = "request" /\ ~Step[r.step].continueOnFailure

\* A failure that is not tolerated is the last result of the call of
\* stepsEffect that it is in, whatever retries, timeouts, nesting and
\* iterations came before: no sibling of the step runs after it.
FailureEndsItsSteps ==
  \A i, j \in 1..Len(results) :
    (i < j /\ Fatal(results[i])) => results[j].frame # results[i].frame

\* The flow's own steps are reported in their order, each once, and a run
\* that was not cut short reports all of them up to a failure that is not
\* tolerated: retries, timeouts and nested steps neither drop nor repeat a
\* result.  The n-th result of the flow's own call is that of its n-th step.
OfMain(i) == results[i].frame = 1
Nth(i)    == Cardinality({j \in 1..i : OfMain(j)})
Reported  == Nth(Len(results))
MainStepsReported ==
  /\ Reported <= Len(Main)
  /\ \A i \in 1..Len(results) : OfMain(i) => results[i].step = Main[Nth(i)]
  /\ pc \in {"passed", "failed"} =>
       \/ Reported = Len(Main)
       \/ \E i \in 1..Len(results) :
            OfMain(i) /\ Nth(i) = Reported /\ Fatal(results[i])

\* An execution that timed out goes on after its step, and may overlap with a
\* retry and outlive the run.  Only then: when a flow passed, conditions and
\* loops included, no execution is left of a step that is not retried.
CleanWhenPassed ==
  pc = "passed" =>
    \A s \in StepIds : Step[s].retryCount = 0 => running[s] = 0

\* A run ends: loops and retries are bounded and every attempt times out.
FlowEnds == <>(pc \in Ends)

\* The report of a run is true to it: a failure ends the steps it must end,
\* every step of the flow that was reached is reported, and a run that passed
\* leaves no execution behind of a step that is not retried, whatever the
\* nesting, the retries, the timeouts and the limits (stepsEffect).
RunIsReported == TypeOK /\ FailureEndsItsSteps /\ MainStepsReported /\ CleanWhenPassed
=============================================================================
