-------------------------------- MODULE MCGrpc --------------------------------
(***************************************************************************)
(* gRPC, checked part by part: a behaviour is about the managed streams of *)
(* the executor, one call of the executor, or the calls of the page.  The  *)
(* parts share no state.  Streams never come to a stop; calls and pages    *)
(* may, which is the last disjunct.                                        *)
(***************************************************************************)
EXTENDS GrpcStreams, GrpcCalls, GrpcSession

VARIABLE area

\* Targets: the file of S imports that of T, which imports c, and perhaps c;
\* files that are imported may not be served; imports may be brought along.
MCFileOf == [s \in Symbols \union {Health, Reflection} |->
  CASE s = "S" -> "a" [] s = "T" -> "b" [] s = "H" -> "h" [] s = "R" -> "r"]
MCTargets ==
  {[imports |-> [f \in Files |-> IF f = "a" THEN x[1] ELSE IF f = "b" THEN x[2] ELSE {}],
    fileOf |-> MCFileOf, served |-> v, brings |-> b, reflection |-> k, listed |-> l] :
     x \in {<<{"b", "c"}, {"c"}>>, <<{"b"}, {"c"}>>},
     v \in {Files, Files \ {"c"}}, b \in BOOLEAN, k \in {"v1", "v1alpha", "none"},
     l \in {{"S", "T", "R"}, {"S", "H", "R"}}}
MCProtosets == {{}, {"bad"}, {"a"}, {"a", "b", "c"}}

MCInit ==
  /\ area \in {"streams", "call", "page"}
  /\ Init /\ CallInit /\ GrpcInit
  /\ area # "call" => target = CHOOSE t \in Targets : TRUE

MCNext ==
  \/ area = "streams" /\ Next /\ UNCHANGED <<callVars, grpcVars, area>>
  \/ area = "call" /\ CallNext /\ UNCHANGED <<vars, grpcVars, area>>
  \/ area = "page" /\ GrpcNext /\ UNCHANGED <<vars, callVars, area>>
  \/ area # "streams" /\ UNCHANGED <<vars, callVars, grpcVars, area>>

\* The sweep of the streams is always due, so its fairness is that of its area.
MCSpec ==
  /\ MCInit /\ [][MCNext]_<<vars, callVars, grpcVars, area>>
  /\ (area = "streams" => Fairness) /\ WF_callVars(CallStep) /\ GrpcFairness

\* What the gRPC page offers is there: reflection lists every method of a target
\* that serves what its services need, a listed method can be called, the
\* health service is found without reflection, the controls belong to a call
\* that is not over, and one call at a time can always be stopped.
OffersAreCallable ==
  /\ CallTypeOK /\ GrpcTypeOK /\ ReflectionIsComplete /\ ListedIsCallable
  /\ HealthIsKnown /\ ControlsAreLive /\ AloneCanBeStopped

\* Nothing of gRPC lasts for ever: abandoned connections and streams are
\* released by the sweep, readers and calls end, and a stream with a deadline
\* leaves the page.
GrpcEnds == ConnReleased /\ BidiReleased /\ ReaderEnds /\ CallEnds /\ DeadlineEnforced
=============================================================================
