------------------------------- MODULE GrpcCalls -------------------------------
(***************************************************************************)
(* One gRPC call of the executor (grpc.go, grpc_wellknown.go): GrpcReflect,*)
(* which lists the methods of a target, and GrpcExecute, GrpcServerStream  *)
(* and GrpcStreamOpen up to the point where the target's method is called. *)
(* All of them look up descriptors: in a protoset that comes with the      *)
(* request, by the target's reflection service, first its version v1 and   *)
(* then v1alpha, or among the well-known ones.                             *)
(*                                                                         *)
(* The target is external: which files it serves, what they import, which  *)
(* reflection it implements, and whether an answer brings along the files  *)
(* that the one asked for imports (those not sent on the stream before).   *)
(* Handlers share no state; one at a time is modelled.                     *)
(***************************************************************************)
EXTENDS Naturals

CONSTANTS
  Files,      \* names of proto files
  Symbols,    \* the services of the target, without its reflection service
  Health,     \* grpc.health.v1.Health
  Reflection, \* the target's reflection service
  Targets,    \* the targets: imports, fileOf, served, brings, reflection, listed
  Protosets   \* what requests bring: "", "bad", or a set of files

\* A listed service is one of the target's, and each is in one of the files;
\* names of protosets that cannot be read are no files.
ASSUME TargetsAssumption ==
  /\ Reflection \notin Symbols \union {Health} /\ "bad" \notin Files
  /\ \A t \in Targets :
       /\ t.imports \in [Files -> SUBSET Files] /\ t.served \subseteq Files
       /\ t.fileOf \in [Symbols \union {Health, Reflection} -> Files]
       /\ t.listed \subseteq Symbols \union {Health, Reflection}
       /\ t.brings \in BOOLEAN /\ t.reflection \in {"v1", "v1alpha", "none"}
  /\ \A ps \in Protosets : ps = {"bad"} \/ ps \subseteq Files

VARIABLES
  target,   \* external: the server that is called
  handler   \* the call: where it is and what it has found

callVars == <<target, handler>>

MethodKinds == {"unary", "server", "client", "bidi", "absent"}
clientStreaming(m) == m \in {"client", "bidi"}
serverStreaming(m) == m \in {"server", "bidi"}
MethodsOf(s) == IF s = Health THEN {"unary", "server"} ELSE MethodKinds \ {"absent"}

NoCall == [pc |-> "idle"]
Failed(r, why) == [pc |-> "done", request |-> r, error |-> why]
Ok(r, what)    == [pc |-> "done", request |-> r, error |-> "", answer |-> what]

\* protodesc.NewFiles (external): every import must be among the files.
NewFiles(present) == \A f \in present : target.imports[f] \subseteq present

\* A file and all it imports, directly or not: what every complete set of files
\* with it contains.
Needs(f) == {g \in Files : \A present \in SUBSET Files : f \in present /\ NewFiles(present) => g \in present}

\* A registry, or why there is none.
NoRegistry(why) == [ok |-> FALSE, files |-> {}, error |-> why]

\* The files that are not nil, if they make a registry.
buildFileRegistry(files) ==
  IF NewFiles(files) THEN [ok |-> TRUE, files |-> files, error |-> ""] ELSE NoRegistry("imports")

registryFromProtosetBase64(ps) ==
  IF ps = {"bad"} THEN NoRegistry("protoset") ELSE buildFileRegistry(ps)
isReflectionService(s) == s = Reflection
FindDescriptorByName(registry, s) == s \in DOMAIN target.fileOf /\ target.fileOf[s] \in registry.files

\* What a list of methods is made of: the services found, with their methods.
reflectGrpcMethods(registry, symbols) ==
  UNION {{s} \X MethodsOf(s) : s \in {r \in symbols : FindDescriptorByName(registry, r)}}
reflectGrpcMethodsFromRegistry(registry) ==
  reflectGrpcMethods(registry, {s \in DOMAIN target.fileOf : ~isReflectionService(s)})

\* The page chooses the handler by what it knows of the method: nothing, if it is
\* not in the list that a reflection gave.
grpcMethodFlags(m, known) ==
  [isServerStreaming |-> known /\ serverStreaming(m) /\ ~clientStreaming(m),
   isClientStream |-> known /\ clientStreaming(m)]
executeCurrentGrpcRequest(m, known) ==
  CASE grpcMethodFlags(m, known).isServerStreaming -> "serverStream"
    [] grpcMethodFlags(m, known).isClientStream -> "open"
    [] OTHER -> "execute"

\* What a handler answers to a method that it is not for.
Refusal(op, m) ==
  CASE op = "execute" /\ clientStreaming(m) -> "client-streaming not supported"
    [] op = "execute" /\ serverStreaming(m) -> "use server-stream"
    [] op = "serverStream" /\ ~serverStreaming(m) -> "not server-streaming"
    [] op = "open" /\ ~clientStreaming(m) -> "not client-streaming"
    [] OTHER -> ""

-----------------------------------------------------------------------------
(* What a handler does once it has a registry.                              *)

\* findGrpcMethod, the check of its kind, the body, and the call itself.
Invoke(registry) ==
  LET r == handler.request
      m == r.method
  IN \/ /\ ~FindDescriptorByName(registry, r.service)
        /\ handler' = Failed(r, "not found")
     \/ /\ FindDescriptorByName(registry, r.service)
        /\ \/ m \notin MethodsOf(r.service) /\ handler' = Failed(r, "no method")
           \/ /\ m \in MethodsOf(r.service)
              /\ \/ Refusal(r.op, m) # "" /\ handler' = Failed(r, Refusal(r.op, m))
                 \/ /\ Refusal(r.op, m) = ""
                    /\ \/ handler' = Failed(r, "invalid request JSON")
                       \/ handler' = Ok(r, {<<r.service, m>>})

\* What the reflection found, or a registry that is built in.
registryForService(result, s) ==
  IF FindDescriptorByName(result, s) THEN result
  ELSE IF s = Health THEN [ok |-> TRUE, files |-> {target.fileOf[Health]}, error |-> ""]
  ELSE result

\* The registry is complete, or was not to be had.
Resolve(result) ==
  IF handler.request.op = "reflect"
  THEN handler' = IF result.ok
                  THEN Ok(handler.request, reflectGrpcMethods(result, handler.symbols))
                  ELSE Failed(handler.request, result.error)
  ELSE LET registry == registryForService(result, handler.request.service)
       IN IF registry.ok THEN Invoke(registry) ELSE handler' = Failed(handler.request, registry.error)

-----------------------------------------------------------------------------
(* The steps of a call.                                                     *)

Reflecting(request, version, symbols) ==
  [pc |-> "symbols", request |-> request, version |-> version, symbols |-> symbols,
   todo |-> symbols, files |-> {}, nils |-> {}, missing |-> {}, sent |-> {}]

\* grpcClientConn: the connection becomes ready, or it fails or is not there in time.
grpcClientConn == {"ready", "no connection"}

\* GrpcReflect: the protoset is used instead of the target, or the target is asked.
GrpcReflect(ps) ==
  LET request == [op |-> "reflect", protoset |-> ps]
      registry == registryFromProtosetBase64(ps)
  IN /\ handler = NoCall
     /\ \/ handler' = Failed(request, "incomplete")
        \/ /\ ps # {}
           /\ handler' = IF registry.ok THEN Ok(request, reflectGrpcMethodsFromRegistry(registry))
                         ELSE Failed(request, registry.error)
        \/ /\ ps = {}
           /\ \E conn \in grpcClientConn :
                handler' = IF conn = "ready" THEN [pc |-> "list", request |-> request, version |-> "v1"]
                           ELSE Failed(request, conn)
     /\ UNCHANGED target

\* GrpcExecute, GrpcServerStream, GrpcStreamOpen: a protoset that has the service
\* is used; one that is no good is passed over.
GrpcExecute(s, m, known, ps) ==
  LET request == [op |-> executeCurrentGrpcRequest(m, known), service |-> s, method |-> m,
                  known |-> known, protoset |-> ps]
      registry == registryFromProtosetBase64(ps)
  IN /\ handler = NoCall
     /\ known => m # "absent"
     /\ \/ \E e \in {"incomplete"} \union (grpcClientConn \ {"ready"}) : handler' = Failed(request, e)
        \/ handler' = [pc |-> IF ps # {} /\ registry.ok /\ FindDescriptorByName(registry, s)
                              THEN "protoset" ELSE "begin", request |-> request]
     /\ UNCHANGED target

FromProtoset ==
  /\ handler.pc = "protoset"
  /\ Invoke(registryFromProtosetBase64(handler.request.protoset))
  /\ UNCHANGED target

FromReflection ==
  /\ handler.pc = "begin"
  /\ handler' = Reflecting(handler.request, "v1", {handler.request.service})
  /\ UNCHANGED target

Answers == IF target.reflection = handler.version THEN "answers"
           ELSE IF handler.version = "v1" THEN "falls back" ELSE "unimplemented"

\* listGrpcServices: Unimplemented makes it ask v1alpha.
listGrpcServices ==
  /\ handler.pc = "list"
  /\ CASE Answers = "falls back" -> handler' = [handler EXCEPT !.version = "v1alpha"]
       [] Answers = "unimplemented" -> handler' = Failed(handler.request, "unimplemented")
       [] OTHER -> handler' = Reflecting(handler.request, "v1",
                                {s \in target.listed : ~isReflectionService(s)})
  /\ UNCHANGED target

\* An answer of the target with file f: f itself and, if the target is one that
\* brings them along, all that f needs and that was not sent before.
Brought(f) == {f} \union
  (IF target.brings THEN (Needs(f) \intersect target.served) \ handler.sent ELSE {})

Receive(h, f) ==
  [h EXCEPT !.files = @ \union Brought(f), !.nils = @ \ Brought(f), !.sent = @ \union Brought(f)]

\* descriptorRegistryForSymbols, one symbol: the file that contains it.
AskSymbol(s) ==
  /\ handler.pc = "symbols" /\ s \in handler.todo
  /\ CASE Answers = "falls back" -> handler' = Reflecting(handler.request, "v1alpha", handler.symbols)
       [] Answers = "unimplemented" -> Resolve(NoRegistry("unimplemented"))
       [] OTHER ->
            IF s \in DOMAIN target.fileOf /\ s \in target.listed /\ target.fileOf[s] \in target.served
            THEN handler' = [Receive(handler, target.fileOf[s]) EXCEPT !.todo = @ \ {s}]
            ELSE Resolve(NoRegistry("symbol"))
  /\ UNCHANGED target

\* The imports of the files at hand that the map has no entry for, once for every
\* file that has them.  They are asked for in any order, as a map is walked.
Missing ==
  {p \in handler.files \X Files : p[2] \in target.imports[p[1]] \ (handler.files \union handler.nils)}

\* fetchMissingDeps: look for imports that are not there; build when there is none.
ScanMissing ==
  /\ handler.pc = "symbols" /\ handler.todo = {} /\ handler.missing = {}
  /\ IF Missing = {} THEN Resolve(buildFileRegistry(handler.files))
     ELSE handler' = [handler EXCEPT !.missing = Missing]
  /\ UNCHANGED target

\* A file that is asked for: its entry in the map becomes nil, whatever it was.
Marked(f, d) ==
  [handler EXCEPT !.missing = @ \ {<<f, d>>}, !.files = @ \ {d}, !.nils = @ \union {d}]

\* Mutant: a file that the target has sent before is not asked for again.
FetchMissing_Once(f, d) ==
  /\ handler.pc = "symbols" /\ <<f, d>> \in handler.missing
  /\ handler' = IF d \in target.served \ handler.sent THEN Receive(Marked(f, d), d) ELSE Marked(f, d)
  /\ UNCHANGED target

\* One missing file: the answer sets its entry.  A file that the target does not
\* have is skipped.
FetchMissing(f, d) ==
  /\ handler.pc = "symbols" /\ <<f, d>> \in handler.missing
  /\ handler' = IF d \in target.served THEN Receive(Marked(f, d), d) ELSE Marked(f, d)
  /\ UNCHANGED target

\* The stream to the target breaks, or the deadline of the call passes.
ReflectionBreaks ==
  /\ handler.pc \in {"list", "symbols"}
  /\ IF handler.pc = "list" THEN handler' = Failed(handler.request, "broken")
     ELSE Resolve(NoRegistry("broken"))
  /\ UNCHANGED target

CallInit == target \in Targets /\ handler = NoCall

CallStep ==
  \/ FromProtoset \/ FromReflection \/ listGrpcServices \/ ScanMissing
  \/ \E s \in Symbols \union {Health} : AskSymbol(s)
  \/ \E f, d \in Files : FetchMissing(f, d)

CallNext ==
  \/ \E ps \in Protosets : GrpcReflect(ps)
  \/ \E s \in Symbols \union {Health}, m \in MethodKinds, known \in BOOLEAN, ps \in Protosets :
       /\ known => m \in MethodsOf(s)
       /\ GrpcExecute(s, m, known, ps)
  \/ CallStep
  \/ ReflectionBreaks

-----------------------------------------------------------------------------
(* Properties.                                                             *)

CallTypeOK ==
  /\ target \in Targets
  /\ handler.pc \in {"idle", "list", "protoset", "begin", "symbols", "done"}
  /\ handler.pc = "symbols" => /\ handler.files \subseteq Files /\ handler.nils \subseteq Files
                               /\ handler.todo \subseteq handler.symbols

\* A request without an address or a full method, and failures that are nobody's mistake.
Outside == {"incomplete", "no connection", "broken"}

\* Does the target serve everything that the service needs?
Complete(s) == s \in target.listed /\ Needs(target.fileOf[s]) \subseteq target.served
Reflects == target.reflection \in {"v1", "v1alpha"}

\* Reflection lists all methods of a target that serves what its services need,
\* in whichever order files are asked for and however often a file is named:
\* marking a file as seen never loses one that an earlier answer brought.
ReflectionIsComplete ==
  (/\ handler.pc = "done" /\ handler.request.op = "reflect" /\ handler.request.protoset = {}
   /\ handler.error \notin Outside /\ Reflects
   /\ \A s \in target.listed \ {Reflection} : Complete(s)) =>
     /\ handler.error = ""
     /\ handler.answer = UNION {{s} \X MethodsOf(s) : s \in target.listed \ {Reflection}}

\* What the page was told of can be called: it chooses a handler that takes
\* methods of this kind, and the handler finds the method again, with a
\* protoset or without.
ListedIsCallable ==
  (/\ handler.pc = "done" /\ handler.request.op # "reflect" /\ handler.request.known
   /\ Reflects /\ Complete(handler.request.service)) =>
     handler.error \in Outside \union {"", "invalid request JSON"}

\* The health check needs no reflection: whatever the target serves, and whatever
\* breaks while it is asked, the service is found.
HealthIsKnown ==
  (handler.pc = "done" /\ handler.request.op = "execute" /\ handler.request.service = Health) =>
    handler.error \in (Outside \ {"broken"}) \union {"", "no method", "use server-stream", "invalid request JSON"}

\* Every call comes to an end, also when a file that is imported is not served.
CallEnds == (handler.pc # "idle") ~> (handler.pc = "done")
=============================================================================
