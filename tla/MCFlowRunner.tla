---------------------------- MODULE MCFlowRunner ----------------------------
(***************************************************************************)
(* A flow for TLC: a request that is retried, a condition whose branches   *)
(* hold a delay and a loop with a negative limit, and a loop whose count   *)
(* exceeds the default limit and whose body may fail, so that failures     *)
(* happen at every level; and the page that edits and runs flows.  A       *)
(* behaviour is about one of the two, which share no state.                *)
(***************************************************************************)
EXTENDS FlowRunner, FlowPage

VARIABLE area

CONSTANTS login, check, user, pause, never, poll, fetch, last

Request(cont, retries) ==
  [type |-> "request", steps |-> <<>>, elseSteps |-> <<>>, continueOnFailure |-> cont,
   hasCondition |-> FALSE, retryCount |-> retries, count |-> NoNumber,
   maxIterations |-> NoNumber]
Nest(type, then, else) ==
  [Request(FALSE, 0) EXCEPT !.type = type, !.steps = then, !.elseSteps = else]

Ids == {login, check, user, pause, never, poll, fetch, last}

Steps ==
  [s \in Ids |->
     CASE s = login -> Request(TRUE, 1)
       [] s = check -> Nest("condition", <<user, pause>>, <<never, user>>)
       [] s = pause -> Nest("delay", <<>>, <<>>)
       [] s = never -> [Nest("loop", <<fetch>>, <<>>) EXCEPT !.maxIterations = -1]
       [] s = poll  -> [Nest("loop", <<fetch>>, <<>>) EXCEPT
                          !.count = DefaultMax + 3, !.hasCondition = TRUE]
       [] OTHER     -> Request(FALSE, 0)]
Flow == <<login, check, poll, last>>

MCInit == area \in {"run", "page"} /\ Init /\ FlowPageInit

MCNext ==
  \/ area = "run" /\ Next /\ UNCHANGED <<pageVars, area>>
  \/ area = "page" /\ FlowPageNext /\ UNCHANGED <<vars, area>>

MCSpec == MCInit /\ [][MCNext]_<<vars, pageVars, area>> /\ (area = "run" => WF_vars(Fiber))

\* A run of a flow ends (FlowEnds of FlowRunner).
FlowRunEnds == area = "run" => FlowEnds

\* A run of a flow ends (stepsEffect), and removing a step never turns the
\* editor to another step than the one it shows (removeStep).
FlowProgress == FlowRunEnds /\ SelectionFollows
=============================================================================
