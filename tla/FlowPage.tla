------------------------------ MODULE FlowPage ------------------------------
(***************************************************************************)
(* The modal that edits and runs a flow (features/flows of the UI, with    *)
(* useFlowRunner and the runner's fiber): the draft with its selection,    *)
(* and the runs, whose progress and result are kept in the store of the    *)
(* page and outlive the modal.                                             *)
(*                                                                         *)
(* A run is a fiber that ends by itself or is interrupted some time after  *)
(* cancel() asked for it; what its steps do is FlowRunner's.  A draft is   *)
(* the sequence of its steps' ids: what the editors of a step change, and  *)
(* drafts that validation refuses, are left out, and only steps are        *)
(* dragged.                                                                *)
(***************************************************************************)
EXTENDS Naturals, Sequences, SequencesExt, FiniteSets, Functions

CONSTANTS
  FlowSteps,   \* ids of steps
  FlowRuns,    \* runs, each started at most once
  FlowRows,    \* ids that saved flows are given
  MaxModals,   \* bound: modals opened
  NoRun

ASSUME FlowPageAssumption == NoRun \notin FlowRuns /\ MaxModals \in Nat

VARIABLES
  modal,       \* [no, id, steps, selected] of the open modal; no is 0 when there is none
  opened,      \* modals opened so far
  fiber,       \* per modal, the run its FlowRunner holds
  flowRuns,    \* [pc, modal] of each run
  flowRunning, flowResult, flowLog,   \* the store
  flows,       \* the flows table: id |-> steps
  apart,       \* history: no run was started while another had not returned
  late,        \* history: runs that had not returned when their modal was closed
  left         \* history: runs of the modals that another panel took the place of
pageVars == <<modal, opened, fiber, flowRuns, flowRunning, flowResult, flowLog, flows, apart, late, left>>
runVars == <<fiber, flowRuns, flowRunning, flowResult, flowLog, apart, late, left>>

Unnamed == "new"
NoModal == [no |-> 0, id |-> Unnamed, steps |-> <<>>, selected |-> 0]
NotRun == [pc |-> "idle", modal |-> 0]

FlowPageInit ==
  /\ modal = NoModal /\ opened = 0
  /\ fiber = [m \in 1..MaxModals |-> NoRun]
  /\ flowRuns = [r \in FlowRuns |-> NotRun]
  /\ flowRunning = FALSE /\ flowResult = NoRun /\ flowLog = {}
  /\ flows = <<>>
  /\ apart = TRUE /\ late = {} /\ left = {}

Open == modal.no # 0

-----------------------------------------------------------------------------
(* The panel, and the draft.                                               *)

\* The store is as the last modal left it.
Opens(id, steps) ==
  /\ ~Open /\ opened < MaxModals
  /\ opened' = opened + 1
  /\ modal' = [NoModal EXCEPT !.no = opened + 1, !.id = id, !.steps = steps]
  /\ UNCHANGED <<runVars, flows>>
openNew == Opens(Unnamed, <<>>)
editFlow(id) == id \in DOMAIN flows /\ Opens(id, flows[id])
deleteFlow(id) ==
  /\ ~Open /\ id \in DOMAIN flows
  /\ flows' = [k \in DOMAIN flows \ {id} |-> flows[k]]
  /\ UNCHANGED <<modal, opened, runVars>>

\* The step that the editor shows and changes.
selectedStep(m) == m.steps[m.selected]

Draft(m) == Open /\ modal' = m /\ UNCHANGED <<opened, runVars, flows>>
Select(i) == i \in DOMAIN modal.steps /\ Draft([modal EXCEPT !.selected = i])

\* The selection goes with its step.
removeStep(i) ==
  /\ i \in DOMAIN modal.steps
  /\ Draft([modal EXCEPT !.steps = RemoveAt(@, i),
              !.selected = CASE @ = i -> 0 [] @ > i -> @ - 1 [] OTHER -> @])

\* A new step has a new id.
makeStep == FlowSteps \ Range(modal.steps)
addStep(s) ==
  /\ s \in makeStep
  /\ Draft([modal EXCEPT !.steps = Append(@, s), !.selected = Len(modal.steps) + 1])

reorderStep(from, to) ==
  from # to /\ Draft([modal EXCEPT !.steps = InsertAt(RemoveAt(@, from), to, @[from]), !.selected = to])
onDrop(from, to) == {from, to} \subseteq DOMAIN modal.steps /\ reorderStep(from, to)

\* A flow without an id is given one each time it is saved: the draft does not
\* learn of it.
SavedId == IF modal.id = Unnamed THEN FlowRows \ DOMAIN flows ELSE {modal.id}
saveFlow(id) ==
  /\ Open /\ id \in SavedId
  /\ flows' = [k \in DOMAIN flows \union {id} |-> IF k = id THEN modal.steps ELSE flows[k]]
  /\ UNCHANGED <<modal, opened, runVars>>

-----------------------------------------------------------------------------
(* Runs.                                                                   *)

Pending == {r \in FlowRuns : flowRuns[r].pc \in {"running", "interrupting", "exited"}}

runFlow(r) ==
  /\ Open /\ ~flowRunning /\ modal.steps # <<>>
  /\ flowRuns[r] = NotRun
  /\ flowRunning' = TRUE /\ flowResult' = NoRun /\ flowLog' = {}
  /\ flowRuns' = [flowRuns EXCEPT ![r] = [pc |-> "running", modal |-> modal.no]]
  /\ fiber' = [fiber EXCEPT ![modal.no] = r]
  /\ apart' = (apart /\ Pending = {})
  /\ UNCHANGED <<modal, opened, flows, late, left>>

\* The hooks of a step that starts or completes.
StepLogged(r) ==
  /\ flowRuns[r].pc \in {"running", "interrupting"}
  /\ flowLog' = flowLog \union {r}
  /\ UNCHANGED <<modal, opened, fiber, flowRuns, flowRunning, flowResult, flows, apart, late, left>>

\* The fiber ends by itself, or because of an interrupt.
FiberExits(r) ==
  /\ flowRuns[r].pc \in {"running", "interrupting"}
  /\ flowRuns' = [flowRuns EXCEPT ![r].pc = "exited"]
  /\ UNCHANGED <<modal, opened, fiber, flowRunning, flowResult, flowLog, flows, apart, late, left>>

\* run() goes on after the fiber, and runFlow after run().
Returned(r, result) ==
  /\ flowRuns[r].pc = "exited"
  /\ flowRuns' = [flowRuns EXCEPT ![r].pc = "returned"]
  /\ fiber' = [fiber EXCEPT ![flowRuns[r].modal] = NoRun]
  /\ flowResult' = result
  /\ UNCHANGED <<modal, opened, flowLog, flows, apart, late, left>>
RunReturns(r) == Returned(r, r) /\ flowRunning' = FALSE

\* A defect of the fiber is thrown.
RunThrows(r) == Returned(r, flowResult) /\ flowRunning' = FALSE

cancel ==
  [r \in FlowRuns |-> IF r = fiber[modal.no] /\ flowRuns[r].pc = "running"
                      THEN [flowRuns[r] EXCEPT !.pc = "interrupting"] ELSE flowRuns[r]]

stopFlow ==
  /\ Open /\ flowRunning
  /\ flowRuns' = cancel
  /\ flowRunning' = FALSE
  /\ UNCHANGED <<modal, opened, fiber, flowResult, flowLog, flows, apart, late, left>>

Leaves ==
  /\ Open /\ flowRunning' = FALSE
  /\ late' = late \union {r \in Pending : flowRuns[r].modal = modal.no}
  /\ modal' = NoModal
  /\ UNCHANGED <<opened, fiber, flows, apart, left>>

\* Mutant: the run goes on.
handleClose_RunsOn == Leaves /\ flowLog' = {} /\ flowResult' = NoRun /\ UNCHANGED flowRuns

handleClose == Leaves /\ flowLog' = {} /\ flowResult' = NoRun /\ flowRuns' = cancel

\* The command palette lies over the modal, and most of what it offers shows
\* another panel, or this one after another: the panel is unmounted with its
\* modal, which asks no run to stop and leaves the store as it is.
switchPanel ==
  /\ Open
  /\ modal' = NoModal
  /\ left' = left \union {r \in FlowRuns : flowRuns[r] # NotRun /\ flowRuns[r].modal = modal.no}
  /\ UNCHANGED <<opened, fiber, flowRuns, flowRunning, flowResult, flowLog, flows, apart, late>>

FlowPageNext ==
  \/ openNew \/ stopFlow \/ handleClose \/ switchPanel
  \/ \E id \in FlowRows : editFlow(id) \/ deleteFlow(id) \/ saveFlow(id)
  \/ \E i \in 1..Cardinality(FlowSteps) :
       \/ Select(i) \/ removeStep(i)
       \/ \E j \in 1..Cardinality(FlowSteps) : onDrop(i, j)
  \/ \E s \in FlowSteps : addStep(s)
  \/ \E r \in FlowRuns :
       runFlow(r) \/ StepLogged(r) \/ FiberExits(r) \/ RunReturns(r) \/ RunThrows(r)

FlowPageSpec == FlowPageInit /\ [][FlowPageNext]_pageVars

-----------------------------------------------------------------------------
(* Properties.                                                             *)

\* The state of the page has its type; the selection is a step of the draft.
FlowPageTypeOK ==
  /\ modal.no \in 0..MaxModals /\ opened \in 0..MaxModals
  /\ modal.steps \in Seq(FlowSteps) /\ modal.selected \in 0..Len(modal.steps)
  /\ fiber \in [1..MaxModals -> FlowRuns \union {NoRun}]
  /\ flowRunning \in BOOLEAN /\ flowResult \in FlowRuns \union {NoRun} /\ flowLog \subseteq FlowRuns
  /\ DOMAIN flows \subseteq FlowRows

\* removeStep: when a step is removed, wherever it is, the editor goes on showing
\* the step it shows, unless that is the one: an edit that follows goes to the
\* step the user sees.
SelectionFollows ==
  [][(modal.selected # 0 /\ modal'.no = modal.no /\ Len(modal'.steps) < Len(modal.steps)) =>
       IF selectedStep(modal) \in Range(modal'.steps)
       THEN modal'.selected # 0 /\ selectedStep(modal') = selectedStep(modal)
       ELSE modal'.selected = 0]_pageVars

\* runFlow, stopFlow, handleClose: as long as runs do not overlap, Stop is offered
\* for a run that has not returned, and a run that nobody asked to stop is one
\* that the page offers to stop and that Stop reaches.  The exception are the
\* runs of a modal that another panel took the place of: Stop is still offered
\* for them, in the next modal, and reaches none.  (A run that is started while
\* a stopped one has not returned is lost to Stop when that one returns.)
FlowCanBeStopped ==
  apart =>
    /\ flowRunning => \E r \in Pending : flowRuns[r].modal = modal.no \/ r \in left
    /\ \A r \in FlowRuns :
         flowRuns[r].pc = "running" => (Open /\ flowRunning /\ fiber[modal.no] = r) \/ r \in left

\* What is shown of a run is shown in its own modal.  The exceptions are a run
\* that had not returned when its modal was closed, which stores its result, and
\* the steps it still makes, after handleClose has cleared them, and the runs of
\* a modal that another panel took the place of, which nothing clears: the next
\* modal shows them.
ShownIsOfItsModal ==
  Open => \A r \in (flowLog \union {flowResult}) \ {NoRun} :
            flowRuns[r].modal = modal.no \/ r \in late \union left

\* The modal of a flow belongs to the run behind it: a run that goes on can be
\* stopped from it, and what it shows is of its own run (runFlow, stopFlow,
\* handleClose), except for what outlives its modal: the runs it was closed over,
\* and all of its runs if the palette switched panels under it.
ModalIsOfItsRun == FlowPageTypeOK /\ FlowCanBeStopped /\ ShownIsOfItsModal
=============================================================================
