---------------------------- MODULE ScriptSandbox ----------------------------
(***************************************************************************)
(* One run of a pre-request or post-response script (runScript of the      *)
(* core): in a worker where there are workers, inline where there are none.*)
(* A script is any sequence of calls of the API it is given, which returns,*)
(* throws, waits for ever or loops for ever.                               *)
(*                                                                         *)
(* requests is a small heap: the request of the caller and the copy that   *)
(* is made of it.  A key is <<in lower case, as written>>.  asked is       *)
(* history: what the script last asked each header to be.                  *)
(***************************************************************************)
EXTENDS Naturals, Sequences

CONSTANTS
  ScriptKeys,      \* names of headers that scripts and requests use
  ScriptValues,    \* values that scripts give them
  VariableNames,   \* names of variables, the blank one among them
  CallerHeaders,   \* headers that the request of a caller may have
  MaxApiCalls      \* bound: calls of the API per script

ASSUME ScriptAssumption == MaxApiCalls \in Nat

\* A name that is not blank in lower case is not blank as it is written.
Name == {key \in STRING \X STRING : key[1] = "" <=> key[2] = ""}
ASSUME HeaderAssumption ==
  /\ ScriptKeys \subseteq Name
  /\ \A hs \in CallerHeaders : hs \in Seq([key : Name, value : STRING, enabled : BOOLEAN])

VARIABLES
  script,          \* the run: where it is, and what it holds
  requests         \* "caller" and "copy" to their headers and variables

scriptVars == <<script, requests>>

ScriptInit ==
  /\ script = [pc |-> "idle", mode |-> "worker", on |-> "copy", timer |-> FALSE, worker |-> FALSE,
               workerUrl |-> FALSE, outcome |-> "pending", skipped |-> FALSE, calls |-> 0,
               asked |-> [k \in {} |-> 0]]
  /\ \E hs \in CallerHeaders, vs \in SUBSET (VariableNames \ {""}) :
       requests = [o \in {"caller", "copy"} |->
         IF o = "caller" THEN [headers |-> hs, variables |-> vs] ELSE [headers |-> <<>>, variables |-> {}]]

\* The object that the script works on, and the heap with it.
clonePlain(r) == [on |-> "copy", requests |-> [r EXCEPT !["copy"] = r["caller"]]]

\* Blank code: a copy of what was given.
runScript ==
  /\ script.pc = "idle"
  /\ requests' = clonePlain(requests).requests
  /\ script' = [script EXCEPT !.pc = "ended", !.outcome = "resolved"]

runInWorker ==
  /\ script.pc = "idle"
  /\ requests' = clonePlain(requests).requests
  /\ script' = [script EXCEPT !.pc = "running", !.mode = "worker", !.on = clonePlain(requests).on,
                              !.timer = TRUE, !.worker = TRUE, !.workerUrl = TRUE]

\* The timer of an inline run is never cleared.
runInline ==
  /\ script.pc = "idle"
  /\ requests' = clonePlain(requests).requests
  /\ script' = [script EXCEPT !.pc = "running", !.mode = "inline", !.on = clonePlain(requests).on,
                              !.timer = TRUE]

-----------------------------------------------------------------------------
(* The API of the script.                                                   *)

\* The first row of the name, in any case, or a new one.
upsertKeyValue(rows, key, value) ==
  LET named == {i \in DOMAIN rows : rows[i].key[1] = key[1]}
      i == CHOOSE i \in named : \A j \in named : i <= j
  IN IF named # {} THEN [rows EXCEPT ![i] = [key |-> rows[i].key, value |-> value, enabled |-> TRUE]]
     ELSE Append(rows, [key |-> key, value |-> value, enabled |-> TRUE])

\* A call that changes something.  A script goes on after an inline run has
\* timed out; one in a worker ends with its worker.
ApiCall ==
  /\ script.pc = "running" /\ script.calls < MaxApiCalls

setHeader(key, value) ==
  /\ ApiCall
  /\ LET name == key[1]
     IN /\ requests' = [requests EXCEPT ![script.on].headers = upsertKeyValue(@, key, value)]
        /\ script' = [script EXCEPT !.calls = @ + 1,
             !.asked = [k \in DOMAIN @ \union {name} |-> IF k = name THEN value ELSE @[k]]]

\* variables.set ignores a blank name.
setVariable(name) ==
  /\ ApiCall
  /\ requests' = [requests EXCEPT ![script.on].variables = @ \union ({name} \ {""})]
  /\ script' = [script EXCEPT !.calls = @ + 1]

unsetVariable(name) ==
  /\ ApiCall
  /\ requests' = [requests EXCEPT ![script.on].variables = @ \ {name}]
  /\ script' = [script EXCEPT !.calls = @ + 1]

skip ==
  /\ ApiCall
  /\ script' = [script EXCEPT !.calls = @ + 1, !.skipped = TRUE]
  /\ UNCHANGED requests

\* The script waits for what never comes, or loops.
Hangs(how) ==
  /\ script.pc = "running"
  /\ script' = [script EXCEPT !.pc = how]
  /\ UNCHANGED requests

-----------------------------------------------------------------------------
(* How a run ends.                                                          *)

\* The first outcome is the one of the promise.
Settled(outcome) == IF script.outcome = "pending" THEN outcome ELSE script.outcome

\* The script returns, or it throws: expect and test do so when they fail.  A
\* worker posts the result or the error; an inline run settles, or is too late.
executeScript(outcome) ==
  /\ script.pc = "running"
  /\ script' = IF script.mode = "worker" THEN [script EXCEPT !.pc = outcome]
               ELSE [script EXCEPT !.pc = "ended", !.outcome = Settled(outcome)]
  /\ UNCHANGED requests

\* What each of the handlers of a worker does before it settles the promise.
Released == [script EXCEPT !.timer = FALSE, !.worker = FALSE, !.workerUrl = FALSE, !.pc = "ended"]

onmessage ==
  /\ script.worker /\ script.pc \in {"resolved", "rejected"}
  /\ script' = [Released EXCEPT !.outcome = Settled(script.pc)]
  /\ UNCHANGED requests

\* The worker could not be loaded, or something threw that the script does not await.
onerror ==
  /\ script.worker
  /\ script' = [Released EXCEPT !.outcome = Settled("rejected")]
  /\ UNCHANGED requests

\* A script that loops inline does not let any timer fire.
Timeout ==
  /\ script.timer /\ (script.mode = "inline" => script.pc # "loops")
  /\ script' = IF script.mode = "worker" THEN [Released EXCEPT !.outcome = Settled("rejected")]
               ELSE [script EXCEPT !.timer = FALSE, !.outcome = Settled("rejected")]
  /\ UNCHANGED requests

ScriptNext ==
  \/ runScript \/ runInWorker \/ runInline
  \/ \E key \in ScriptKeys, value \in ScriptValues : setHeader(key, value)
  \/ \E name \in VariableNames : setVariable(name) \/ unsetVariable(name)
  \/ skip
  \/ \E how \in {"waits", "loops"} : Hangs(how)
  \/ \E outcome \in {"resolved", "rejected"} : executeScript(outcome)
  \/ onmessage \/ onerror \/ Timeout

\* Timers fire and messages arrive.
ScriptFairness == WF_scriptVars(onmessage) /\ WF_scriptVars(Timeout)

-----------------------------------------------------------------------------
(* Properties.                                                             *)

ScriptTypeOK ==
  /\ script.outcome \in {"pending", "resolved", "rejected"} /\ script.on \in {"caller", "copy"}
  /\ script.pc \in {"idle", "running", "waits", "loops", "resolved", "rejected", "ended"}
  /\ script.calls \in 0..MaxApiCalls

\* A script never touches the request or the variables of its caller, also when
\* it goes on after its run has timed out.
CallerKept == [][requests'["caller"] = requests["caller"]]_scriptVars

\* A run in a worker that has settled leaves no worker, no URL and no timer
\* behind, whichever of message, error and timeout came first.
WorkerReleased ==
  (script.mode = "worker" /\ script.outcome # "pending") =>
    ~script.worker /\ ~script.workerUrl /\ ~script.timer

\* Every script settles, also one that never returns; only a loop that does not
\* run in a worker holds its caller up.
ScriptSettles ==
  (script.pc # "idle") ~> (script.outcome # "pending" \/ (script.mode = "inline" /\ script.pc = "loops"))
=============================================================================
