----------------------------- MODULE PanelProofs -----------------------------
(***************************************************************************)
(* Proofs about two panels of the UI, the schema of the GraphQL editor and *)
(* the runners of collections and batches, and about the rate limiter of   *)
(* the server.  They share no state and are proved one after the other,    *)
(* for any numbers of endpoints, calls, runs, requests and clients, any    *)
(* sizes of buckets and refill rates, and no bound on time (MaxTime is     *)
(* arbitrary).                                                             *)
(***************************************************************************)
EXTENDS GraphQLSchema, Runners, RateLimiter, TLAPS

-----------------------------------------------------------------------------
(* The schema of the GraphQL editor.                                       *)

Schemas == [from : Keys, v : 0..MaxVersion]
Panels == [no : 1..MaxPanels, import : BOOLEAN, working : BOOLEAN, explorer : BOOLEAN,
           refreshing : BOOLEAN, at : Nat]
SchemaCall == [pc : {"idle", "waits", "done"}, kind : {"none", "fetch", "file", "refresh"},
               url : Urls \union Keys, panel : Nat, at : Nat]

SchemaTypes ==
  /\ version \in 0..MaxVersion /\ target \in Endpoints /\ typed \in Urls
  /\ store \in [schema : Schemas \union {NoSchema}, endpoint : Keys]
  /\ cache \in [Keys -> Schemas \union {NoSchema}]
  /\ panel \in Panels /\ calls \in [SchemaCalls -> SchemaCall]
  /\ unsaved \subseteq Keys /\ stuck \in BOOLEAN

\* What is cached of an endpoint is of that endpoint, and an import that is
\* under way was asked of one, or reads a file.
CacheIsOfEndpoint ==
  /\ \A k \in Keys : cache[k] # NoSchema => cache[k].from = k
  /\ \A c \in SchemaCalls : calls[c].kind \in {"fetch", "file"} => calls[c].url \in Keys

SchemaInv ==
  /\ SchemaTypes /\ CacheIsOfEndpoint
  /\ SchemaIsOfEndpoint /\ ShownIsCached /\ BusyWaits
  /\ panel.explorer => store.schema # NoSchema

\* A schema that an endpoint serves, or a file holds.
LEMMA ServedFacts ==
  ASSUME SchemaTypes, NEW e \in Keys
  PROVE  LET s == [from |-> e, v |-> version]
         IN  s \in Schemas /\ s # NoSchema /\ s.from = e
BY SchemaAssumption DEF SchemaTypes, Schemas, Keys

\* What is committed is shown and, if the write works, cached.
LEMMA Committed ==
  ASSUME SchemaInv, NEW s \in Schemas, NEW e \in Keys, s.from = e, s # NoSchema,
         cacheSchema(e, s), store' = [schema |-> s, endpoint |-> e]
  PROVE  /\ store' \in [schema : Schemas \union {NoSchema}, endpoint : Keys]
         /\ cache' \in [Keys -> Schemas \union {NoSchema}] /\ unsaved' \subseteq Keys
         /\ \A k \in Keys : cache'[k] # NoSchema => cache'[k].from = k
         /\ SchemaIsOfEndpoint' /\ ShownIsCached' /\ store'.schema # NoSchema
<1>1. cache \in [Keys -> Schemas \union {NoSchema}] /\ unsaved \subseteq Keys
  BY DEF SchemaInv, SchemaTypes
<1>2. store'.schema = s /\ store'.endpoint = e
  OBVIOUS
<1>3. CASE cache' = [cache EXCEPT ![e] = s] /\ unsaved' = unsaved \ {e}
  BY <1>1, <1>2, <1>3 DEF SchemaInv, CacheIsOfEndpoint, SchemaIsOfEndpoint, ShownIsCached
<1>4. CASE unsaved' = unsaved \union {e} /\ cache' = cache
  BY <1>1, <1>2, <1>4 DEF SchemaInv, CacheIsOfEndpoint, SchemaIsOfEndpoint, ShownIsCached
<1> QED
  BY <1>3, <1>4 DEF cacheSchema

\* A call ends.
LEMMA CallEnds ==
  ASSUME SchemaInv, NEW c \in SchemaCalls, Ends(c)
  PROVE  /\ calls' \in [SchemaCalls -> SchemaCall]
         /\ \A d \in SchemaCalls : calls'[d].kind = calls[d].kind /\ calls'[d].url = calls[d].url
                                   /\ calls'[d].panel = calls[d].panel /\ calls'[d].at = calls[d].at
         /\ Asked' = Asked \ {c}
<1>1. /\ calls \in [SchemaCalls -> SchemaCall] /\ calls' = [calls EXCEPT ![c].pc = "done"]
  BY DEF SchemaInv, SchemaTypes, Ends
<1>2. /\ calls' \in [SchemaCalls -> SchemaCall]
      /\ \A d \in SchemaCalls : calls'[d].kind = calls[d].kind /\ calls'[d].url = calls[d].url
                                /\ calls'[d].panel = calls[d].panel /\ calls'[d].at = calls[d].at
      /\ \A d \in SchemaCalls : d # c => calls'[d].pc = calls[d].pc
      /\ calls'[c].pc = "done"
  BY <1>1 DEF SchemaCall
<1> QED
  BY <1>2 DEF Asked

\* A call is made.
LEMMA CallMade ==
  ASSUME SchemaInv, NEW c \in SchemaCalls, NEW kind \in {"fetch", "file", "refresh"},
         NEW url \in Urls \union Keys, Calls(c, kind, url)
  PROVE  /\ calls' \in [SchemaCalls -> SchemaCall]
         /\ calls'[c] = [pc |-> "waits", kind |-> kind, url |-> url, panel |-> panel.no, at |-> panel.at]
         /\ \A d \in SchemaCalls : d # c => calls'[d] = calls[d]
         /\ Asked' = Asked \union {c} /\ c \notin Asked
<1>1. /\ calls \in [SchemaCalls -> SchemaCall] /\ calls[c].pc = "idle"
      /\ panel.no \in Nat /\ panel.at \in Nat
  BY SchemaAssumption DEF SchemaInv, SchemaTypes, Calls, NotCalled, Panels
<1>2. /\ calls' \in [SchemaCalls -> SchemaCall]
      /\ calls'[c] = [pc |-> "waits", kind |-> kind, url |-> url, panel |-> panel.no, at |-> panel.at]
      /\ \A d \in SchemaCalls : d # c => calls'[d] = calls[d]
  BY <1>1 DEF Calls, SchemaCall
<1> QED
  BY <1>1, <1>2 DEF Asked

\* Nothing that is shown, cached or awaited changes.
LEMMA SchemaStays ==
  ASSUME SchemaInv, UNCHANGED <<store, cache, panel, calls, unsaved, stuck>>,
         version' \in 0..MaxVersion, target' \in Endpoints, typed' \in Urls
  PROVE  SchemaInv'
<1>1. SchemaTypes'
  BY DEF SchemaInv, SchemaTypes
<1>2. CacheIsOfEndpoint' /\ SchemaIsOfEndpoint' /\ ShownIsCached'
  BY DEF SchemaInv, CacheIsOfEndpoint, SchemaIsOfEndpoint, ShownIsCached
<1>3. Asked' = Asked
  BY DEF Asked
<1>4. BusyWaits'
  BY <1>3 DEF SchemaInv, BusyWaits, SamePanel, Asked
<1> QED
  BY <1>1, <1>2, <1>4 DEF SchemaInv

\* Dialogs are opened and closed.
LEMMA DialogStep ==
  ASSUME SchemaInv, openImport \/ close \/ openExplorer \/ closeExplorer
  PROVE  SchemaInv'
<1>1. /\ panel \in Panels /\ UNCHANGED <<version, target, typed, store, cache, calls, unsaved, stuck>>
  BY DEF openImport, close, openExplorer, closeExplorer, ShowPanel, SchemaInv, SchemaTypes
<1>2. /\ panel' \in Panels /\ panel'.no = panel.no /\ panel'.working = panel.working
      /\ panel'.explorer => store.schema # NoSchema
      /\ panel'.explorer /\ panel'.refreshing => panel.explorer /\ panel.refreshing /\ panel'.at = panel.at
  <2>1. CASE openImport
    BY <1>1, <2>1 DEF openImport, ShowPanel, Panels, SchemaInv
  <2>2. CASE close
    BY <1>1, <2>2 DEF close, ShowPanel, Panels, SchemaInv
  <2>3. CASE openExplorer
    <3>1. /\ store.schema # NoSchema
          /\ panel' = [no |-> panel.no, import |-> panel.import, working |-> panel.working,
                        explorer |-> TRUE, refreshing |-> FALSE, at |-> panel.at + 1]
      BY <1>1, <2>3 DEF openExplorer, ShowPanel, Panels
    <3>2. panel' \in Panels
      BY <1>1, <3>1 DEF Panels
    <3>3. panel'.no = panel.no /\ panel'.working = panel.working /\ ~panel'.refreshing
      BY <3>1
    <3> QED
      BY <3>1, <3>2, <3>3
  <2>4. CASE closeExplorer
    BY <1>1, <2>4 DEF closeExplorer, ShowPanel, Panels, SchemaInv
  <2> QED
    BY <2>1, <2>2, <2>3, <2>4
<1>3. Asked' = Asked
  BY <1>1 DEF Asked
<1>4. SchemaTypes'
  BY <1>1, <1>2 DEF SchemaInv, SchemaTypes
<1>5. CacheIsOfEndpoint' /\ SchemaIsOfEndpoint' /\ ShownIsCached'
  BY <1>1 DEF SchemaInv, CacheIsOfEndpoint, SchemaIsOfEndpoint, ShownIsCached
<1>6. BusyWaits'
  BY <1>1, <1>2, <1>3 DEF SchemaInv, BusyWaits, SamePanel, Asked
<1> QED
  BY <1>1, <1>2, <1>4, <1>5, <1>6 DEF SchemaInv

\* The panel is mounted again, by itself or with the page.
LEMMA MountStep ==
  ASSUME SchemaInv, Remount \/ Reload
  PROVE  SchemaInv'
<1>1. /\ panel.no < MaxPanels /\ panel' = Mounted(panel.no + 1) /\ stuck' = FALSE
      /\ UNCHANGED <<version, target, typed, cache, unsaved>>
      /\ \/ UNCHANGED <<store, calls>>
         \/ /\ store' = [schema |-> NoSchema, endpoint |-> NoEndpoint]
            /\ calls' = [c \in SchemaCalls |-> [calls[c] EXCEPT !.pc = IF @ = "waits" THEN "done" ELSE @]]
  BY DEF Remount, Reload
<1>2. panel \in Panels /\ panel.no \in 1..MaxPanels /\ panel.no + 1 \in 1..MaxPanels
  BY <1>1, SchemaAssumption DEF SchemaInv, SchemaTypes, Panels
<1>3. panel' \in Panels /\ panel'.working = FALSE /\ panel'.explorer = FALSE
  BY <1>1, <1>2 DEF Mounted, Panels
<1>4. calls \in [SchemaCalls -> SchemaCall]
  BY DEF SchemaInv, SchemaTypes
<1>5. /\ calls' \in [SchemaCalls -> SchemaCall]
      /\ \A c \in SchemaCalls : calls'[c].kind = calls[c].kind /\ calls'[c].url = calls[c].url
  <2> DEFINE gone(c) == [calls[c] EXCEPT !.pc = IF @ = "waits" THEN "done" ELSE @]
  <2>1. \A c \in SchemaCalls : /\ gone(c) \in SchemaCall
                               /\ gone(c).kind = calls[c].kind /\ gone(c).url = calls[c].url
    BY <1>4 DEF SchemaCall
  <2>2. calls' = calls \/ calls' = [c \in SchemaCalls |-> gone(c)]
    BY <1>1
  <2> HIDE DEF gone
  <2> QED
    BY <1>4, <2>1, <2>2
<1>6. /\ store' \in [schema : Schemas \union {NoSchema}, endpoint : Keys]
      /\ store' = store \/ store'.schema = NoSchema
  BY <1>1 DEF SchemaInv, SchemaTypes, Keys
<1>7. SchemaTypes'
  BY <1>1, <1>3, <1>5, <1>6 DEF SchemaInv, SchemaTypes
<1>8. CacheIsOfEndpoint'
  BY <1>1, <1>5 DEF SchemaInv, CacheIsOfEndpoint
<1>9. SchemaIsOfEndpoint' /\ ShownIsCached'
  BY <1>1, <1>6 DEF SchemaInv, SchemaIsOfEndpoint, ShownIsCached
<1>10. BusyWaits'
  BY <1>3 DEF BusyWaits
<1> QED
  BY <1>3, <1>7, <1>8, <1>9, <1>10 DEF SchemaInv

\* The effect restores what is cached of the endpoint the request names.
LEMMA RestoreStep ==
  ASSUME SchemaInv, restoreCached
  PROVE  SchemaInv'
<1> DEFINE e == resolve(typed)
<1>1. /\ store.schema = NoSchema /\ cache[e] # NoSchema
      /\ store' = [schema |-> cache[e], endpoint |-> e]
      /\ UNCHANGED <<version, target, typed, cache, panel, calls, unsaved, stuck>>
  BY DEF restoreCached
<1>2. e \in Keys /\ cache \in [Keys -> Schemas \union {NoSchema}]
  BY DEF SchemaInv, SchemaTypes, resolve, Urls, Keys
<1> HIDE DEF e
<1>3. /\ store' \in [schema : Schemas \union {NoSchema}, endpoint : Keys]
      /\ store'.schema = cache[e] /\ store'.endpoint = e
  BY <1>1, <1>2
<1>4. SchemaTypes'
  BY <1>1, <1>3 DEF SchemaInv, SchemaTypes
<1>5. CacheIsOfEndpoint' /\ SchemaIsOfEndpoint' /\ ShownIsCached'
  BY <1>1, <1>2, <1>3 DEF SchemaInv, CacheIsOfEndpoint, SchemaIsOfEndpoint, ShownIsCached
<1>6. Asked' = Asked
  BY <1>1 DEF Asked
<1>7. BusyWaits'
  BY <1>1, <1>6 DEF SchemaInv, BusyWaits, SamePanel, Asked
<1> QED
  BY <1>1, <1>3, <1>4, <1>5, <1>7 DEF SchemaInv

\* An import or a refresh is asked for.
LEMMA AskStep ==
  ASSUME SchemaInv, NEW c \in SchemaCalls,
         (\E u \in Urls : fetchSchema(c, u)) \/ importSchemaFile(c) \/ handleRefresh(c)
  PROVE  SchemaInv'
<1>1. panel \in Panels /\ UNCHANGED <<version, target, typed, store, cache, unsaved>>
  BY DEF fetchSchema, importSchemaFile, handleRefresh, SchemaInv, SchemaTypes
<1> DEFINE Asks(kind, url) ==
             /\ Calls(c, kind, url) /\ (kind # "refresh" => url \in Keys)
             /\ IF kind = "refresh"
                THEN panel' = [panel EXCEPT !.refreshing = TRUE] /\ stuck' = stuck
                ELSE panel' = [panel EXCEPT !.working = TRUE] /\ stuck' = FALSE
<1>2. PICK kind \in {"fetch", "file", "refresh"}, url \in Urls \union Keys : Asks(kind, url)
  <2>1. ASSUME NEW u \in Urls, fetchSchema(c, u)
        PROVE  \E kind \in {"fetch", "file", "refresh"}, url \in Urls \union Keys : Asks(kind, url)
    <3>1. resolve(u) \in Keys
      BY DEF resolve, Urls, Keys, SchemaInv, SchemaTypes
    <3> QED
      BY <2>1, <3>1 DEF fetchSchema, Works
  <2>2. CASE importSchemaFile(c)
    BY <2>2 DEF importSchemaFile, Works, Keys
  <2>3. CASE handleRefresh(c)
    <3>1. (IF store.endpoint # NoEndpoint THEN store.endpoint ELSE typed) \in Urls \union Keys
      BY DEF SchemaInv, SchemaTypes
    <3> QED
      BY <2>3, <3>1 DEF handleRefresh
  <2> QED
    BY <2>1, <2>2, <2>3
<1>3. /\ calls' \in [SchemaCalls -> SchemaCall]
      /\ calls'[c] = [pc |-> "waits", kind |-> kind, url |-> url, panel |-> panel.no, at |-> panel.at]
      /\ \A d \in SchemaCalls : d # c => calls'[d] = calls[d]
      /\ Asked' = Asked \union {c} /\ c \notin Asked
  BY <1>2, CallMade
<1>4. /\ panel' \in Panels /\ panel'.no = panel.no /\ panel'.at = panel.at
      /\ panel'.explorer = panel.explorer
      /\ kind = "refresh" => panel'.working = panel.working
      /\ kind # "refresh" => panel'.refreshing = panel.refreshing
  BY <1>1, <1>2 DEF Panels
<1>5. /\ calls'[c].panel = panel'.no /\ calls'[c].at = panel'.at /\ calls'[c].kind = kind
      /\ \A d \in Asked : calls'[d] = calls[d]
  BY <1>3, <1>4 DEF Asked
<1>6. stuck' \in BOOLEAN
  BY <1>2 DEF SchemaInv, SchemaTypes
<1>7. SchemaTypes'
  BY <1>1, <1>3, <1>4, <1>6 DEF SchemaInv, SchemaTypes
<1>8. CacheIsOfEndpoint'
  BY <1>1, <1>2, <1>3 DEF SchemaInv, CacheIsOfEndpoint
<1>9. SchemaIsOfEndpoint' /\ ShownIsCached' /\ (panel'.explorer => store'.schema # NoSchema)
  BY <1>1, <1>4 DEF SchemaInv, SchemaIsOfEndpoint, ShownIsCached
<1>10. BusyWaits'
  <2>1. ASSUME panel'.working, ~stuck'
        PROVE  \E d \in Asked' : calls'[d].panel = panel'.no /\ calls'[d].kind # "refresh"
    <3>1. CASE kind = "refresh"
      <4>1. stuck' = stuck /\ panel'.working = panel.working /\ panel'.no = panel.no
        BY <1>2, <1>4, <3>1
      <4>2. PICK d \in Asked : calls[d].panel = panel.no /\ calls[d].kind # "refresh"
        BY <2>1, <4>1 DEF SchemaInv, BusyWaits, SamePanel
      <4>3. d \in Asked' /\ calls'[d] = calls[d]
        BY <1>3, <1>5, <4>2
      <4> QED
        BY <4>1, <4>2, <4>3
    <3>2. CASE kind # "refresh"
      BY <1>3, <1>5, <3>2
    <3> QED
      BY <3>1, <3>2
  <2>2. ASSUME panel'.explorer, panel'.refreshing
        PROVE  \E d \in Asked' : calls'[d].panel = panel'.no /\ calls'[d].at = panel'.at /\ calls'[d].kind = "refresh"
    <3>1. CASE kind = "refresh"
      BY <1>3, <1>5, <3>1
    <3>2. CASE kind # "refresh"
      BY <1>3, <1>4, <1>5, <2>2, <3>2 DEF SchemaInv, BusyWaits, SamePanel
    <3> QED
      BY <3>1, <3>2
  <2> QED
    BY <2>1, <2>2 DEF BusyWaits, SamePanel
<1> QED
  BY <1>7, <1>8, <1>9, <1>10 DEF SchemaInv

\* The text of a schema is imported at once, and the dialog stays busy.
LEMMA TextStep ==
  ASSUME SchemaInv, importSDLText
  PROVE  SchemaInv'
<1> DEFINE s == [from |-> NoEndpoint, v |-> version]
<1>1. /\ cacheSchema(NoEndpoint, s) /\ store' = [schema |-> s, endpoint |-> NoEndpoint]
      /\ panel' = [panel EXCEPT !.import = FALSE, !.working = TRUE] /\ stuck' = TRUE
      /\ UNCHANGED <<version, target, typed, calls>>
  BY DEF importSDLText, commitSchema
<1>2. NoEndpoint \in Keys /\ s \in Schemas /\ s # NoSchema /\ s.from = NoEndpoint
  BY ServedFacts DEF SchemaInv, Keys
<1> HIDE DEF s
<1>3. /\ store' \in [schema : Schemas \union {NoSchema}, endpoint : Keys]
      /\ cache' \in [Keys -> Schemas \union {NoSchema}] /\ unsaved' \subseteq Keys
      /\ \A k \in Keys : cache'[k] # NoSchema => cache'[k].from = k
      /\ SchemaIsOfEndpoint' /\ ShownIsCached' /\ store'.schema # NoSchema
  BY <1>1, <1>2, Committed
<1>4. /\ panel' \in Panels /\ panel'.no = panel.no /\ panel'.at = panel.at
      /\ panel'.explorer = panel.explorer /\ panel'.refreshing = panel.refreshing
  BY <1>1 DEF SchemaInv, SchemaTypes, Panels
<1>5. SchemaTypes' /\ CacheIsOfEndpoint'
  BY <1>1, <1>3, <1>4 DEF SchemaInv, SchemaTypes, CacheIsOfEndpoint
<1>6. BusyWaits'
  <2>1. Asked' = Asked
    BY <1>1 DEF Asked
  <2> QED
    BY <1>1, <1>4, <2>1 DEF SchemaInv, BusyWaits, SamePanel
<1> QED
  BY <1>3, <1>5, <1>6 DEF SchemaInv

\* The dialog that waits for a call is freed when the call ends.
LEMMA FreedDialog ==
  ASSUME SchemaInv, NEW c \in SchemaCalls, Ends(c), stuck' = stuck,
         panel' = (IF SamePanel(c) /\ calls[c].kind # "refresh"
                   THEN [panel EXCEPT !.import = FALSE, !.working = FALSE]
                   ELSE IF calls[c].kind = "refresh" THEN Refreshed(c) ELSE panel)
         \/ /\ calls[c].kind # "refresh"
            /\ panel' = IF SamePanel(c) THEN [panel EXCEPT !.working = FALSE] ELSE panel
  PROVE  panel' \in Panels /\ BusyWaits' /\ (panel'.explorer => panel.explorer)
<1>1. panel \in Panels
  BY DEF SchemaInv, SchemaTypes
<1>2. /\ \A d \in SchemaCalls : calls'[d].kind = calls[d].kind
                                /\ calls'[d].panel = calls[d].panel /\ calls'[d].at = calls[d].at
      /\ Asked' = Asked \ {c}
  BY CallEnds
<1>3. /\ panel' \in Panels /\ panel'.no = panel.no /\ panel'.at = panel.at
      /\ panel'.explorer = panel.explorer
      /\ panel'.working => panel.working /\ (calls[c].kind = "refresh" \/ ~SamePanel(c))
      /\ panel'.refreshing => panel.refreshing /\ (calls[c].kind # "refresh" \/ ~SamePanel(c) \/ calls[c].at # panel.at)
  BY <1>1 DEF Panels, Refreshed
<1>4. ASSUME panel'.working, ~stuck'
      PROVE  \E d \in Asked' : calls'[d].panel = panel'.no /\ calls'[d].kind # "refresh"
  <2>1. PICK d \in Asked : SamePanel(d) /\ calls[d].kind # "refresh"
    BY <1>3, <1>4 DEF SchemaInv, BusyWaits
  <2>2. d # c /\ d \in SchemaCalls
    BY <1>3, <1>4, <2>1 DEF Asked
  <2> QED
    BY <1>2, <1>3, <2>1, <2>2 DEF SamePanel
<1>5. ASSUME panel'.explorer, panel'.refreshing
      PROVE  \E d \in Asked' : calls'[d].panel = panel'.no /\ calls'[d].at = panel'.at /\ calls'[d].kind = "refresh"
  <2>1. PICK d \in Asked : SamePanel(d) /\ calls[d].at = panel.at /\ calls[d].kind = "refresh"
    BY <1>3, <1>5 DEF SchemaInv, BusyWaits
  <2>2. d # c /\ d \in SchemaCalls
    BY <1>3, <1>5, <2>1 DEF Asked
  <2> QED
    BY <1>2, <1>3, <2>1, <2>2 DEF SamePanel
<1>6. BusyWaits'
  BY <1>4, <1>5 DEF BusyWaits, SamePanel
<1> QED
  BY <1>3, <1>6

\* A call is answered or fails.
LEMMA AnswerStep ==
  ASSUME SchemaInv, NEW c \in SchemaCalls,
         ImportAnswered(c) \/ ImportFails(c) \/ RefreshAnswered(c) \/ RefreshFails(c)
  PROVE  SchemaInv'
<1> DEFINE e == calls[c].url
           s == [from |-> e, v |-> version]
<1>1. /\ Ends(c) /\ UNCHANGED <<version, target, typed, stuck>>
  BY DEF ImportAnswered, ImportFails, RefreshAnswered, RefreshFails
<1>2. panel' \in Panels /\ BusyWaits' /\ (panel'.explorer => panel.explorer)
  <2>1. CASE ImportAnswered(c)
    BY <1>1, <2>1, FreedDialog DEF ImportAnswered
  <2>2. CASE ImportFails(c)
    BY <1>1, <2>2, FreedDialog DEF ImportFails
  <2>3. CASE RefreshAnswered(c)
    BY <1>1, <2>3, FreedDialog DEF RefreshAnswered
  <2>4. CASE RefreshFails(c)
    BY <1>1, <2>4, FreedDialog DEF RefreshFails
  <2> QED
    BY <2>1, <2>2, <2>3, <2>4
<1>3. /\ calls' \in [SchemaCalls -> SchemaCall]
      /\ \A d \in SchemaCalls : calls'[d].kind = calls[d].kind /\ calls'[d].url = calls[d].url
  BY <1>1, CallEnds
<1>4. CASE ImportFails(c) \/ RefreshFails(c)
  <2>1. UNCHANGED <<store, cache, unsaved>>
    BY <1>4 DEF ImportFails, RefreshFails
  <2>2. SchemaTypes' /\ CacheIsOfEndpoint'
    BY <1>1, <1>2, <1>3, <2>1 DEF SchemaInv, SchemaTypes, CacheIsOfEndpoint
  <2>3. SchemaIsOfEndpoint' /\ ShownIsCached' /\ (panel'.explorer => store'.schema # NoSchema)
    BY <1>2, <2>1 DEF SchemaInv, SchemaIsOfEndpoint, ShownIsCached
  <2> QED
    BY <1>2, <2>2, <2>3 DEF SchemaInv
<1>5. CASE ImportAnswered(c) \/ RefreshAnswered(c)
  <2>1. e \in Keys /\ cacheSchema(e, s) /\ store' = [schema |-> s, endpoint |-> e]
    BY <1>5 DEF ImportAnswered, RefreshAnswered, commitSchema, SchemaInv, CacheIsOfEndpoint, Keys
  <2>2. s \in Schemas /\ s # NoSchema /\ s.from = e
    BY <2>1, ServedFacts DEF SchemaInv
  <2> HIDE DEF s, e
  <2>3. /\ store' \in [schema : Schemas \union {NoSchema}, endpoint : Keys]
        /\ cache' \in [Keys -> Schemas \union {NoSchema}] /\ unsaved' \subseteq Keys
        /\ \A k \in Keys : cache'[k] # NoSchema => cache'[k].from = k
        /\ SchemaIsOfEndpoint' /\ ShownIsCached' /\ store'.schema # NoSchema
    BY <2>1, <2>2, Committed
  <2>4. SchemaTypes' /\ CacheIsOfEndpoint'
    BY <1>1, <1>2, <1>3, <2>3 DEF SchemaInv, SchemaTypes, CacheIsOfEndpoint
  <2> QED
    BY <1>2, <2>3, <2>4 DEF SchemaInv
<1> QED
  BY <1>4, <1>5

\* The schema that the GraphQL page shows is of the endpoint it names and is
\* the one that is cached for it, and a dialog is busy only while a call of
\* its own is under way, whatever answers late or fails, and however often
\* the panel is left (commitSchema, handleRefresh, the restoring effect).
THEOREM SchemasAreCurrent == SchemaSpec => []SchemaIsCurrent
<1>1. SchemaInit => SchemaInv
  <2> SUFFICES ASSUME SchemaInit PROVE SchemaInv
    OBVIOUS
  <2>1. target \in Endpoints /\ version \in 0..MaxVersion
    BY SchemaAssumption DEF SchemaInit
  <2>2. panel \in Panels /\ panel.working = FALSE /\ panel.explorer = FALSE
    BY SchemaAssumption DEF SchemaInit, Mounted, Panels
  <2>3. calls \in [SchemaCalls -> SchemaCall] /\ \A c \in SchemaCalls : calls[c].kind = "none"
    BY DEF SchemaInit, NotCalled, SchemaCall, Keys
  <2>4. SchemaTypes
    BY <2>1, <2>2, <2>3 DEF SchemaInit, SchemaTypes, Urls, Keys
  <2>5. CacheIsOfEndpoint /\ SchemaIsOfEndpoint /\ ShownIsCached /\ BusyWaits
    BY <2>2, <2>3 DEF SchemaInit, CacheIsOfEndpoint, SchemaIsOfEndpoint, ShownIsCached, BusyWaits
  <2> QED
    BY <2>2, <2>4, <2>5 DEF SchemaInv
<1>2. SchemaInv /\ [SchemaNext]_schemaVars => SchemaInv'
  <2> SUFFICES ASSUME SchemaInv, [SchemaNext]_schemaVars PROVE SchemaInv'
    OBVIOUS
  <2>1. version \in 0..MaxVersion /\ target \in Endpoints /\ typed \in Urls
    BY DEF SchemaInv, SchemaTypes
  <2>2. CASE \/ \E u \in Urls : EditUrl(u)
             \/ \E e \in Endpoints : VariablesChange(e)
             \/ SchemasChange \/ UNCHANGED schemaVars
    <3>1. /\ UNCHANGED <<store, cache, panel, calls, unsaved, stuck>>
          /\ target' \in Endpoints /\ typed' \in Urls
      BY <2>1, <2>2 DEF EditUrl, VariablesChange, SchemasChange, schemaVars
    <3>2. version' \in 0..MaxVersion
      BY <2>1, <2>2, SchemaAssumption DEF EditUrl, VariablesChange, SchemasChange, schemaVars
    <3> QED
      BY <3>1, <3>2, SchemaStays
  <2>3. CASE openImport \/ close \/ openExplorer \/ closeExplorer
    BY <2>3, DialogStep
  <2>4. CASE Remount \/ Reload
    BY <2>4, MountStep
  <2>5. CASE restoreCached
    BY <2>5, RestoreStep
  <2>6. CASE importSDLText
    BY <2>6, TextStep
  <2>7. ASSUME NEW c \in SchemaCalls,
               (\E u \in Urls : fetchSchema(c, u)) \/ importSchemaFile(c) \/ handleRefresh(c)
        PROVE  SchemaInv'
    BY <2>7, AskStep
  <2>8. ASSUME NEW c \in SchemaCalls,
               ImportAnswered(c) \/ ImportFails(c) \/ RefreshAnswered(c) \/ RefreshFails(c)
        PROVE  SchemaInv'
    BY <2>8, AnswerStep
  <2> QED
    BY <2>2, <2>3, <2>4, <2>5, <2>6, <2>7, <2>8 DEF SchemaNext
<1>3. SchemaInv => SchemaIsCurrent
  <2> SUFFICES ASSUME SchemaInv PROVE SchemaIsCurrent
    OBVIOUS
  <2>1. store.endpoint \in Keys /\ panel.no \in 1..MaxPanels
    BY DEF SchemaInv, SchemaTypes, Panels
  <2>2. \A c \in SchemaCalls : calls[c].pc \in {"idle", "waits", "done"} /\ calls[c].url \in Urls \union Keys
    BY DEF SchemaInv, SchemaTypes, SchemaCall
  <2>3. SchemaTypeOK
    BY <2>1, <2>2 DEF SchemaInv, SchemaTypes, SchemaTypeOK
  <2> QED
    BY <2>3 DEF SchemaInv, SchemaIsCurrent
<1> QED
  BY <1>1, <1>2, <1>3, PTL DEF SchemaSpec

-----------------------------------------------------------------------------
(* The runners of collections and batches.                                 *)

Status == {"passed", "failed", "error"}
Run == [pc : {"idle", "wait", "sleep", "ended"}, kind : {"collection", "batch"},
        stopOnFailure : BOOLEAN, delay : BOOLEAN, cancelled : BOOLEAN, over : BOOLEAN,
        results : Seq(Status), variables : SUBSET Nat, saw : Seq(SUBSET Nat),
        i : Nat, inFlight : Nat, issued : Nat, passed : Nat, failed : Nat, done : Nat]

\* The results among the first k whose answers extracted something.
Gave(results, k) == {j \in 1..k : results[j] # "error"}

\* A run of a collection has a result for every request that was answered, and
\* its variables are those that the answers gave.
CollectionOK(run) ==
  /\ run.i = Len(run.saw) /\ run.i <= Requests /\ run.done = 0 /\ run.pc # "sleep"
  /\ Len(run.results) = IF run.pc = "wait" THEN run.i - 1 ELSE run.i
  /\ run.variables = Gave(run.results, Len(run.results))
  /\ \A k \in 1..run.i : run.saw[k] = Gave(run.results, k - 1)
  /\ run.stopOnFailure =>
       \A k \in 1..Len(run.results) :
         run.results[k] # "passed" => k = Len(run.results) /\ run.pc = "ended"

\* A batch has issued the iterations up to the end of its batch, of which the
\* ones in flight are not answered; it has counted those of the batches before.
BatchOK(run) ==
  /\ run.saw = <<>> /\ run.results = <<>> /\ run.pc # "idle"
  /\ run.issued = run.passed + run.failed + run.inFlight
  /\ run.pc = "wait" =>
       /\ run.i < Requests /\ run.done = run.i
       /\ run.issued = run.i + Smaller(Concurrency, Requests - run.i)
       /\ run.inFlight \in 1..Smaller(Concurrency, Requests - run.i)
  /\ run.pc = "sleep" =>
       /\ run.i + Concurrency < Requests /\ run.inFlight = 0
       /\ run.issued = run.i + Concurrency /\ run.done = run.issued
  /\ run.pc = "ended" =>
       /\ run.inFlight = 0 /\ run.done = run.issued /\ run.issued <= Requests
       /\ run.cancelled \/ (run.stopOnFailure /\ run.failed > 0) \/ run.issued = Requests

\* A run that has not started has done nothing.
Fresh(run) ==
  /\ run.saw = <<>> /\ run.results = <<>> /\ run.variables = {} /\ run.i = 0 /\ run.inFlight = 0
  /\ run.issued = 0 /\ run.passed = 0 /\ run.failed = 0 /\ run.done = 0

RunOK(run) ==
  /\ run \in Run
  /\ run.kind = "collection" => CollectionOK(run)
  /\ run.kind = "batch" => BatchOK(run)

\* The types of the fields of a run.
LEMMA RunFields ==
  ASSUME NEW run \in Run
  PROVE  /\ run.pc \in {"idle", "wait", "sleep", "ended"} /\ run.kind \in {"collection", "batch"}
         /\ run.results \in Seq(Status) /\ run.variables \subseteq Nat /\ run.saw \in Seq(SUBSET Nat)
         /\ run.i \in Nat /\ run.inFlight \in Nat /\ run.issued \in Nat
         /\ run.passed \in Nat /\ run.failed \in Nat /\ run.done \in Nat
         /\ Len(run.results) \in Nat /\ Len(run.saw) \in Nat
BY DEF Run

\* A run that ends keeps everything else.
LEMMA RunEnds ==
  ASSUME NEW run \in Run
  PROVE  LET e == [run EXCEPT !.pc = "ended"]
         IN  /\ e \in Run /\ e.pc = "ended" /\ e.kind = run.kind
             /\ e.stopOnFailure = run.stopOnFailure /\ e.cancelled = run.cancelled
             /\ e.over = run.over
             /\ e.results = run.results /\ e.variables = run.variables /\ e.saw = run.saw
             /\ e.i = run.i /\ e.inFlight = run.inFlight /\ e.issued = run.issued
             /\ e.passed = run.passed /\ e.failed = run.failed /\ e.done = run.done
BY DEF Run

\* The head of a collection's loop: everything so far is answered.
AtCollectionHead(run) ==
  /\ run \in Run /\ run.kind = "collection"
  /\ run.i = Len(run.saw) /\ run.i <= Requests /\ run.done = 0
  /\ Len(run.results) = run.i
  /\ run.variables = Gave(run.results, Len(run.results))
  /\ \A k \in 1..run.i : run.saw[k] = Gave(run.results, k - 1)
  /\ run.stopOnFailure => \A k \in 1..Len(run.results) : run.results[k] = "passed"

LEMMA CollectionHeadOK ==
  ASSUME NEW run, AtCollectionHead(run)
  PROVE  /\ RunOK(CollectionHead(run)) /\ CollectionHead(run).pc \in {"wait", "ended"}
         /\ CollectionHead(run).cancelled = run.cancelled /\ CollectionHead(run).over = run.over
<1>1. run \in Run /\ run.kind = "collection"
  BY DEF AtCollectionHead
<1>2. CASE run.cancelled \/ run.i = Requests
  <2> DEFINE e == [run EXCEPT !.pc = "ended"]
  <2>1. CollectionHead(run) = e
    BY <1>2 DEF CollectionHead
  <2>2. /\ e \in Run /\ e.pc = "ended" /\ e.kind = run.kind /\ e.cancelled = run.cancelled
        /\ e.over = run.over
        /\ e.stopOnFailure = run.stopOnFailure /\ e.results = run.results
        /\ e.variables = run.variables /\ e.saw = run.saw /\ e.i = run.i /\ e.done = run.done
    BY <1>1, RunEnds
  <2> HIDE DEF e
  <2>3. CollectionOK(e)
    BY <2>2 DEF AtCollectionHead, CollectionOK
  <2> QED
    BY <1>1, <2>1, <2>2, <2>3 DEF RunOK
<1>3. CASE ~(run.cancelled \/ run.i = Requests)
  <2> DEFINE e == CollectionHead(run)
  <2>1. e = [run EXCEPT !.pc = "wait", !.i = @ + 1, !.issued = @ + 1, !.saw = Append(@, run.variables)]
    BY <1>3 DEF CollectionHead
  <2>2. /\ run.i \in Nat /\ run.issued \in Nat /\ run.saw \in Seq(SUBSET Nat) /\ run.variables \subseteq Nat
        /\ Len(run.saw) \in Nat /\ Len(run.results) \in Nat
    BY <1>1, RunFields
  <2>3. Append(run.saw, run.variables) \in Seq(SUBSET Nat)
    BY <2>2
  <2> HIDE DEF e
  <2>4. /\ e.pc = "wait" /\ e.kind = run.kind /\ e.cancelled = run.cancelled /\ e.over = run.over
        /\ e.stopOnFailure = run.stopOnFailure
        /\ e.results = run.results /\ e.variables = run.variables
        /\ e.saw = Append(run.saw, run.variables) /\ e.i = run.i + 1 /\ e.done = run.done
    BY <1>1, <2>1 DEF Run
  <2>5. e \in Run
    <3>1. run.i + 1 \in Nat /\ run.issued + 1 \in Nat
      BY <2>2
    <3>2. ASSUME NEW i \in Nat, NEW issued \in Nat, NEW saw \in Seq(SUBSET Nat)
          PROVE  [run EXCEPT !.pc = "wait", !.i = i, !.issued = issued, !.saw = saw] \in Run
      BY <1>1 DEF Run
    <3> QED
      BY <2>1, <2>3, <3>1, <3>2
  <2>6. Len(e.saw) = run.i + 1 /\ e.saw[run.i + 1] = run.variables /\ \A k \in 1..run.i : e.saw[k] = run.saw[k]
    BY <2>2, <2>4 DEF AtCollectionHead
  <2>7. run.i + 1 <= Requests
    BY <1>3, <2>2, ConcurrencyAssumption DEF AtCollectionHead
  <2>8. ASSUME NEW k \in 1..e.i PROVE e.saw[k] = Gave(e.results, k - 1)
    <3>1. CASE k \in 1..run.i
      BY <2>4, <2>6, <3>1 DEF AtCollectionHead
    <3>2. CASE k = run.i + 1
      <4>1. k - 1 = run.i
        BY <2>2, <3>2
      <4> QED
        BY <2>4, <2>6, <3>2, <4>1 DEF AtCollectionHead
    <3>3. k \in 1..(run.i + 1)
      BY <2>4
    <3> QED
      BY <2>2, <3>1, <3>2, <3>3
  <2>9. e.i - 1 = run.i
    BY <2>2, <2>4
  <2>10. CollectionOK(e)
    BY <2>4, <2>6, <2>7, <2>8, <2>9 DEF AtCollectionHead, CollectionOK
  <2> QED
    BY <1>1, <2>4, <2>5, <2>10 DEF RunOK, e
<1> QED
  BY <1>2, <1>3

\* An answer to a request of a collection.
LEMMA CollectionAnswerOK ==
  ASSUME NEW run, RunOK(run), run.kind = "collection", run.pc = "wait", NEW status \in Status
  PROVE  LET a == CollectionAnswer(run, status)
         IN  /\ RunOK(a) /\ a.pc \in {"wait", "ended"} /\ a.cancelled = run.cancelled /\ a.over = run.over
<1> DEFINE n == [run EXCEPT !.results = Append(@, status), !.variables = Extracted(run, status)]
           m == Len(run.results)
<1>1. run \in Run /\ CollectionOK(run)
  BY DEF RunOK
<1>2. /\ run.results \in Seq(Status) /\ run.variables \subseteq Nat
      /\ run.i \in Nat /\ m \in Nat /\ run.saw \in Seq(SUBSET Nat)
  BY <1>1, RunFields
<1>3. m + 1 = run.i /\ run.variables = Gave(run.results, m) /\ run.i <= Requests /\ run.i = Len(run.saw)
  BY <1>1, <1>2 DEF CollectionOK
<1>4. Append(run.results, status) \in Seq(Status) /\ Extracted(run, status) \subseteq Nat
  BY <1>2 DEF Extracted
<1>5. /\ n.pc = run.pc /\ n.kind = run.kind /\ n.cancelled = run.cancelled /\ n.over = run.over
      /\ n.stopOnFailure = run.stopOnFailure
      /\ n.results = Append(run.results, status) /\ n.variables = Extracted(run, status)
      /\ n.saw = run.saw /\ n.i = run.i /\ n.done = run.done
  BY <1>1 DEF Run
<1>6. n \in Run
  BY <1>1, <1>4 DEF Run
<1> HIDE DEF n
<1>7. /\ Len(n.results) = run.i /\ n.results[run.i] = status
      /\ \A k \in 1..m : n.results[k] = run.results[k]
  BY <1>2, <1>3, <1>5
<1> HIDE DEF m
<1>8. \A k \in 0..m : Gave(n.results, k) = Gave(run.results, k)
  BY <1>2, <1>7 DEF Gave
<1>9. n.variables = Gave(n.results, run.i)
  <2>1. Gave(n.results, run.i) = Gave(run.results, m) \union (IF status = "error" THEN {} ELSE {run.i})
    BY <1>2, <1>3, <1>7 DEF Gave
  <2> QED
    BY <1>3, <1>5, <2>1 DEF Extracted
<1>10. \A k \in 1..run.i : n.saw[k] = Gave(n.results, k - 1)
  <2> SUFFICES ASSUME NEW k \in 1..run.i PROVE n.saw[k] = Gave(n.results, k - 1)
    OBVIOUS
  <2>1. k - 1 \in 0..m
    BY <1>2, <1>3
  <2>2. run.saw[k] = Gave(run.results, k - 1)
    BY <1>1 DEF CollectionOK
  <2> QED
    BY <1>5, <1>8, <2>1, <2>2
<1>11. run.stopOnFailure => \A k \in 1..m : run.results[k] = "passed"
  BY <1>1 DEF CollectionOK, m
<1>12. run.done = 0
  BY <1>1 DEF CollectionOK
<1>13. CASE run.stopOnFailure /\ status # "passed"
  <2> DEFINE e == [n EXCEPT !.pc = "ended"]
  <2>1. CollectionAnswer(run, status) = e
    BY <1>13 DEF CollectionAnswer, n
  <2>2. /\ e \in Run /\ e.pc = "ended" /\ e.kind = n.kind /\ e.cancelled = n.cancelled
        /\ e.over = n.over
        /\ e.stopOnFailure = n.stopOnFailure /\ e.results = n.results
        /\ e.variables = n.variables /\ e.saw = n.saw /\ e.i = n.i /\ e.done = n.done
    BY <1>6, RunEnds
  <2> HIDE DEF e
  <2>3. \A k \in 1..run.i : n.results[k] # "passed" => k = run.i
    BY <1>2, <1>3, <1>7, <1>11, <1>13
  <2>4. CollectionOK(e)
    BY <1>3, <1>5, <1>7, <1>9, <1>10, <1>12, <2>2, <2>3 DEF CollectionOK
  <2> QED
    BY <1>5, <2>1, <2>2, <2>4 DEF RunOK
<1>14. CASE ~(run.stopOnFailure /\ status # "passed")
  <2>1. CollectionAnswer(run, status) = CollectionHead(n)
    BY <1>14 DEF CollectionAnswer, n
  <2>2. run.stopOnFailure => \A k \in 1..run.i : n.results[k] = "passed"
    BY <1>2, <1>3, <1>7, <1>11, <1>14
  <2>3. AtCollectionHead(n)
    BY <1>3, <1>5, <1>6, <1>7, <1>9, <1>10, <1>12, <2>2 DEF AtCollectionHead
  <2> QED
    BY <1>5, <2>1, <2>3, CollectionHeadOK
<1> QED
  BY <1>13, <1>14

\* The head of a batch's loop: the batches before it are answered and counted.
AtBatchHead(run) ==
  /\ run \in Run /\ run.kind = "batch" /\ run.saw = <<>> /\ run.results = <<>>
  /\ run.inFlight = 0 /\ run.issued = run.passed + run.failed /\ run.done = run.issued
  /\ run.issued = Smaller(run.i, Requests)

LEMMA BatchHeadOK ==
  ASSUME NEW run, AtBatchHead(run)
  PROVE  /\ RunOK(BatchHead(run)) /\ BatchHead(run).pc \in {"wait", "ended"}
         /\ BatchHead(run).cancelled = run.cancelled /\ BatchHead(run).over = run.over
<1> DEFINE e == BatchHead(run)
           batch == Smaller(Concurrency, Requests - run.i)
<1>1. /\ run \in Run /\ run.kind = "batch" /\ run.saw = <<>> /\ run.results = <<>>
      /\ run.inFlight = 0 /\ run.issued = run.passed + run.failed /\ run.done = run.issued
  BY DEF AtBatchHead
<1>2. run.i \in Nat /\ run.issued \in Nat /\ run.passed \in Nat /\ run.failed \in Nat
  BY <1>1, RunFields
<1>3. CASE run.cancelled \/ run.i >= Requests
  <2>1. e = [run EXCEPT !.pc = "ended"]
    BY <1>3 DEF BatchHead
  <2>2. /\ e \in Run /\ e.pc = "ended" /\ e.kind = run.kind /\ e.cancelled = run.cancelled
        /\ e.over = run.over /\ e.results = run.results /\ e.saw = run.saw
        /\ e.inFlight = run.inFlight /\ e.issued = run.issued
        /\ e.passed = run.passed /\ e.failed = run.failed /\ e.done = run.done
    BY <1>1, <2>1, RunEnds
  <2>3. run.issued <= Requests /\ (run.cancelled \/ run.issued = Requests)
    BY <1>2, <1>3, ConcurrencyAssumption DEF AtBatchHead, Smaller
  <2> HIDE DEF e
  <2>4. BatchOK(e)
    BY <1>1, <1>2, <2>2, <2>3 DEF BatchOK
  <2> QED
    BY <1>1, <2>2, <2>4 DEF RunOK, e
<1>4. CASE ~(run.cancelled \/ run.i >= Requests)
  <2>1. e = [run EXCEPT !.pc = "wait", !.inFlight = batch, !.issued = @ + batch]
    BY <1>4 DEF BatchHead
  <2>2. run.i < Requests /\ batch \in Nat \ {0} /\ run.issued = run.i
    BY <1>2, <1>4, ConcurrencyAssumption DEF AtBatchHead, Smaller
  <2> HIDE DEF e, batch
  <2>3. ASSUME NEW n \in Nat, NEW m \in Nat
        PROVE  [run EXCEPT !.pc = "wait", !.inFlight = n, !.issued = m] \in Run
    BY <1>1 DEF Run
  <2>4. e \in Run
    <3>1. batch \in Nat /\ run.issued + batch \in Nat
      BY <1>2, <2>2
    <3> QED
      BY <2>1, <2>3, <3>1
  <2>5. /\ e.pc = "wait" /\ e.kind = run.kind /\ e.cancelled = run.cancelled /\ e.over = run.over
        /\ e.results = run.results /\ e.saw = run.saw /\ e.i = run.i
        /\ e.inFlight = batch /\ e.issued = run.issued + batch
        /\ e.passed = run.passed /\ e.failed = run.failed /\ e.done = run.done
    BY <1>1, <2>1 DEF Run
  <2>6. BatchOK(e)
    BY <1>1, <1>2, <2>2, <2>5 DEF BatchOK, batch
  <2> QED
    BY <1>1, <2>4, <2>5, <2>6 DEF RunOK, e
<1> QED
  BY <1>3, <1>4

\* The batch that was under way is answered: the run goes on with the next
\* one, by itself or once it has slept.
LEMMA NextBatchOK ==
  ASSUME NEW run, run \in Run, run.kind = "batch", run.saw = <<>>, run.results = <<>>,
         run.inFlight = 0, run.issued = run.passed + run.failed, run.done = run.issued,
         run.issued = Smaller(run.i + Concurrency, Requests)
  PROVE  LET e == BatchHead(NextBatch(run))
         IN  RunOK(e) /\ e.pc \in {"wait", "ended"} /\ e.cancelled = run.cancelled /\ e.over = run.over
<1> DEFINE n == NextBatch(run)
<1>1. run.i + Concurrency \in Nat
  BY RunFields, ConcurrencyAssumption
<1>2. ASSUME NEW k \in Nat PROVE [run EXCEPT !.i = k] \in Run
  BY DEF Run
<1>3. n \in Run
  BY <1>1, <1>2 DEF NextBatch
<1>4. /\ n.kind = run.kind /\ n.saw = run.saw /\ n.results = run.results /\ n.i = run.i + Concurrency
      /\ n.inFlight = run.inFlight /\ n.issued = run.issued /\ n.passed = run.passed
      /\ n.failed = run.failed /\ n.done = run.done /\ n.cancelled = run.cancelled /\ n.over = run.over
  BY DEF NextBatch, Run
<1> HIDE DEF n
<1>5. AtBatchHead(n)
  BY <1>3, <1>4 DEF AtBatchHead
<1> QED
  BY <1>4, <1>5, BatchHeadOK DEF n

LEMMA BatchDoneOK ==
  ASSUME NEW run, run \in Run, run.kind = "batch", run.saw = <<>>, run.results = <<>>,
         run.i < Requests, run.inFlight = 0, run.issued = run.passed + run.failed, run.done = run.i,
         run.issued = run.i + Smaller(Concurrency, Requests - run.i)
  PROVE  LET e == BatchDone(run)
         IN  RunOK(e) /\ e.pc # "idle" /\ e.cancelled = run.cancelled /\ e.over = run.over
<1> DEFINE batch == Smaller(Concurrency, Requests - run.i)
           n == [run EXCEPT !.done = @ + batch]
<1>1. run.i \in Nat /\ run.issued \in Nat /\ run.passed \in Nat /\ run.failed \in Nat /\ run.done \in Nat
  BY RunFields
<1>2. batch \in Nat
  BY <1>1, ConcurrencyAssumption DEF Smaller
<1>3. run.issued <= Requests /\ run.issued = Smaller(run.i + Concurrency, Requests)
      /\ (run.i + batch < Requests => batch = Concurrency /\ run.i + Concurrency < Requests)
  BY <1>1, ConcurrencyAssumption DEF Smaller
<1>4. run.issued = run.i + batch
  OBVIOUS
<1> HIDE DEF batch
<1>5. run.done + batch \in Nat
  BY <1>1, <1>2
<1>6. ASSUME NEW k \in Nat PROVE [run EXCEPT !.done = k] \in Run
  BY DEF Run
<1>7. n \in Run
  BY <1>5, <1>6
<1>8. /\ n.kind = "batch" /\ n.saw = <<>> /\ n.results = <<>> /\ n.i = run.i /\ n.inFlight = 0
      /\ n.issued = run.issued /\ n.passed = run.passed /\ n.failed = run.failed
      /\ n.done = run.done + batch /\ n.cancelled = run.cancelled /\ n.over = run.over
      /\ n.stopOnFailure = run.stopOnFailure
  BY DEF Run
<1>9. n.done = n.issued
  BY <1>4, <1>8
<1>10. CASE run.stopOnFailure /\ run.failed > 0
  <2> DEFINE e == [n EXCEPT !.pc = "ended"]
  <2>1. BatchDone(run) = e
    BY <1>10 DEF BatchDone, batch
  <2> HIDE DEF n
  <2>2. /\ e \in Run /\ e.pc = "ended" /\ e.kind = n.kind /\ e.cancelled = n.cancelled
        /\ e.over = n.over /\ e.results = n.results /\ e.saw = n.saw
        /\ e.inFlight = n.inFlight /\ e.issued = n.issued /\ e.stopOnFailure = n.stopOnFailure
        /\ e.passed = n.passed /\ e.failed = n.failed /\ e.done = n.done
    BY <1>7, RunEnds
  <2> HIDE DEF e
  <2>3. BatchOK(e)
    BY <1>1, <1>3, <1>8, <1>9, <1>10, <2>2 DEF BatchOK
  <2> QED
    BY <1>8, <2>1, <2>2, <2>3 DEF RunOK
<1>11. CASE ~(run.stopOnFailure /\ run.failed > 0) /\ run.delay /\ run.i + batch < Requests
  <2> DEFINE e == [n EXCEPT !.pc = "sleep"]
  <2>1. BatchDone(run) = e
    BY <1>11 DEF BatchDone, batch
  <2> HIDE DEF n
  <2>2. /\ e \in Run /\ e.pc = "sleep" /\ e.kind = n.kind /\ e.cancelled = n.cancelled
        /\ e.over = n.over /\ e.results = n.results /\ e.saw = n.saw /\ e.i = n.i
        /\ e.inFlight = n.inFlight /\ e.issued = n.issued
        /\ e.passed = n.passed /\ e.failed = n.failed /\ e.done = n.done
    BY <1>7 DEF Run
  <2> HIDE DEF e
  <2>3. BatchOK(e)
    BY <1>1, <1>3, <1>4, <1>8, <1>9, <1>11, <2>2 DEF BatchOK
  <2> QED
    BY <1>8, <2>1, <2>2, <2>3 DEF RunOK
<1>12. CASE /\ ~(run.stopOnFailure /\ run.failed > 0)
            /\ ~(~(run.stopOnFailure /\ run.failed > 0) /\ run.delay /\ run.i + batch < Requests)
  <2>1. BatchDone(run) = BatchHead(NextBatch(n))
    BY <1>12 DEF BatchDone, batch
  <2> HIDE DEF n
  <2>2. n.issued = Smaller(n.i + Concurrency, Requests) /\ n.issued = n.passed + n.failed
    BY <1>3, <1>8
  <2> QED
    BY <1>7, <1>8, <1>9, <2>1, <2>2, NextBatchOK
<1> QED
  BY <1>10, <1>11, <1>12

\* An answer to an iteration of a batch.
LEMMA BatchAnswerOK ==
  ASSUME NEW run, RunOK(run), run.kind = "batch", run.pc = "wait", NEW status \in Status
  PROVE  LET a == BatchAnswer(run, status)
         IN  RunOK(a) /\ a.pc # "idle" /\ a.cancelled = run.cancelled /\ a.over = run.over
<1> DEFINE p == run.passed + (IF status = "passed" THEN 1 ELSE 0)
           f == run.failed + (IF status = "passed" THEN 0 ELSE 1)
           n == [run EXCEPT !.inFlight = @ - 1, !.passed = p, !.failed = f]
<1>1. run \in Run /\ BatchOK(run)
  BY DEF RunOK
<1>2. run.i \in Nat /\ run.issued \in Nat /\ run.passed \in Nat /\ run.failed \in Nat /\ run.inFlight \in Nat
  BY <1>1, RunFields
<1>3. /\ run.saw = <<>> /\ run.results = <<>> /\ run.i < Requests /\ run.done = run.i
      /\ run.issued = run.passed + run.failed + run.inFlight
      /\ run.issued = run.i + Smaller(Concurrency, Requests - run.i)
      /\ run.inFlight \in 1..Smaller(Concurrency, Requests - run.i)
  BY <1>1 DEF BatchOK
<1>4. p \in Nat /\ f \in Nat /\ p + f = run.passed + run.failed + 1
  BY <1>2
<1>5. /\ run.inFlight - 1 \in Nat
      /\ run.inFlight - 1 # 0 => run.inFlight - 1 \in 1..Smaller(Concurrency, Requests - run.i)
  <2>1. Smaller(Concurrency, Requests - run.i) \in Int
    BY <1>2, ConcurrencyAssumption DEF Smaller
  <2>2. \A s \in Int : \A q \in 1..s : q - 1 \in Nat /\ (q - 1 # 0 => q - 1 \in 1..s)
    OBVIOUS
  <2> QED
    BY <1>3, <2>1, <2>2
<1>6. BatchAnswer(run, status) = IF n.inFlight = 0 THEN BatchDone(n) ELSE n
  BY DEF BatchAnswer
<1> HIDE DEF p, f
<1>7. ASSUME NEW x \in Nat, NEW y \in Nat, NEW z \in Nat
      PROVE  [run EXCEPT !.inFlight = x, !.passed = y, !.failed = z] \in Run
  BY <1>1 DEF Run
<1>8. n \in Run
  BY <1>4, <1>5, <1>7
<1>9. /\ n.pc = "wait" /\ n.kind = "batch" /\ n.saw = <<>> /\ n.results = <<>> /\ n.i = run.i
      /\ n.inFlight = run.inFlight - 1 /\ n.issued = run.issued /\ n.passed = p /\ n.failed = f
      /\ n.done = run.done /\ n.cancelled = run.cancelled /\ n.over = run.over
  BY <1>1, <1>3 DEF Run
<1> HIDE DEF n
<1>10. n.issued = n.passed + n.failed + n.inFlight
  <2>1. run.issued = run.passed + run.failed + run.inFlight
    BY <1>3
  <2>2. n.inFlight = run.inFlight - 1 /\ n.issued = run.issued /\ n.passed = p /\ n.failed = f
    BY <1>9
  <2> QED
    BY <1>2, <1>4, <2>1, <2>2
<1>11. CASE n.inFlight = 0
  <2>1. n.issued = n.passed + n.failed
    BY <1>4, <1>9, <1>10, <1>11
  <2> QED
    BY <1>3, <1>6, <1>8, <1>9, <1>11, <2>1, BatchDoneOK
<1>12. CASE n.inFlight # 0
  <2>1. run.inFlight - 1 \in 1..Smaller(Concurrency, Requests - run.i)
    BY <1>5, <1>9, <1>12
  <2>2. BatchOK(n)
    BY <1>3, <1>9, <1>10, <2>1 DEF BatchOK
  <2> QED
    BY <1>6, <1>8, <1>9, <1>12, <2>2 DEF RunOK
<1> QED
  BY <1>11, <1>12

\* A run that is marked as cancelled is as it was.
LEMMA CancelledOK ==
  ASSUME NEW run, RunOK(run)
  PROVE  LET e == [run EXCEPT !.cancelled = TRUE]
         IN  RunOK(e) /\ e.pc = run.pc /\ e.cancelled /\ e.over = run.over /\ (Fresh(run) => Fresh(e))
<1> DEFINE e == [run EXCEPT !.cancelled = TRUE]
<1>1. run \in Run
  BY DEF RunOK
<1>2. /\ e.pc = run.pc /\ e.kind = run.kind /\ e.stopOnFailure = run.stopOnFailure /\ e.cancelled = TRUE
      /\ e.over = run.over /\ e.results = run.results /\ e.variables = run.variables
      /\ e.saw = run.saw /\ e.i = run.i /\ e.inFlight = run.inFlight /\ e.issued = run.issued
      /\ e.passed = run.passed /\ e.failed = run.failed /\ e.done = run.done /\ e \in Run
  BY <1>1 DEF Run
<1> HIDE DEF e
<1>3. run.kind = "collection" => CollectionOK(e)
  BY <1>2 DEF RunOK, CollectionOK
<1>4. run.kind = "batch" => BatchOK(e)
  BY <1>2 DEF RunOK, BatchOK
<1>5. Fresh(run) => Fresh(e)
  BY <1>2 DEF Fresh
<1> QED
  BY <1>2, <1>3, <1>4, <1>5 DEF RunOK, e

\* A run that is started is at the head of its loop.
LEMMA StartedOK ==
  ASSUME NEW run \in Run, Fresh(run)
  PROVE  LET e == IF run.kind = "batch" THEN BatchHead(run) ELSE CollectionHead(run)
         IN  RunOK(e) /\ e.pc # "idle" /\ e.over = run.over
<1>1. run.kind \in {"collection", "batch"}
  BY RunFields
<1>2. CASE run.kind = "batch"
  <2>1. AtBatchHead(run)
    BY <1>2, ConcurrencyAssumption DEF Fresh, AtBatchHead, Smaller
  <2> QED
    BY <1>2, <2>1, BatchHeadOK
<1>3. CASE run.kind = "collection"
  <2>1. AtCollectionHead(run)
    BY <1>3, ConcurrencyAssumption DEF Fresh, AtCollectionHead, Gave
  <2> QED
    BY <1>3, <2>1, CollectionHeadOK
<1> QED
  BY <1>1, <1>2, <1>3

\* A run that can be cancelled is alone: what it was started over would have
\* marked it, and nothing is started over it.
RunnersInv ==
  /\ dialog \in [running : BOOLEAN, runnerRef : Runs \union {NoRun}, result : Runs \union {NoRun}]
  /\ runs \in [Runs -> Run]
  /\ \A r \in Runs : RunOK(runs[r]) /\ (runs[r].pc = "idle" => Fresh(runs[r]))
  /\ \A r \in Runs :
       (Running(r) /\ ~runs[r].cancelled /\ ~runs[r].over) =>
         /\ dialog.running /\ dialog.runnerRef = r
         /\ \A q \in Runs : Running(q) => q = r

\* One step of one run.
LEMMA RunStep ==
  ASSUME RunnersInv, NEW r \in Runs, NEW run, After(r, run), Running(r),
         RunOK(run), run.pc # "idle", run.cancelled = runs[r].cancelled, run.over = runs[r].over
  PROVE  RunnersInv'
<1>1. /\ runs \in [Runs -> Run] /\ runs' = [runs EXCEPT ![r] = run] /\ run \in Run
      /\ dialog \in [running : BOOLEAN, runnerRef : Runs \union {NoRun}, result : Runs \union {NoRun}]
  BY DEF RunnersInv, After, RunOK
<1>2. runs' \in [Runs -> Run] /\ runs'[r] = run /\ \A q \in Runs : q # r => runs'[q] = runs[q]
  BY <1>1
<1>3. \A q \in Runs : RunOK(runs'[q]) /\ (runs'[q].pc = "idle" => Fresh(runs'[q]))
  BY <1>2 DEF RunnersInv
<1>4. dialog' \in [running : BOOLEAN, runnerRef : Runs \union {NoRun}, result : Runs \union {NoRun}]
  BY <1>1 DEF After
<1>5. ASSUME NEW q \in Runs, runs'[q].pc \in {"wait", "sleep"}, ~runs'[q].cancelled, ~runs'[q].over
      PROVE  /\ dialog'.running /\ dialog'.runnerRef = q
             /\ \A p \in Runs : runs'[p].pc \in {"wait", "sleep"} => p = q
  <2>1. Running(q) /\ ~runs[q].cancelled /\ ~runs[q].over
    BY <1>2, <1>5 DEF Running
  <2>2. q = r /\ dialog.running /\ dialog.runnerRef = q /\ \A p \in Runs : Running(p) => p = q
    BY <2>1 DEF RunnersInv
  <2>3. dialog' = dialog
    BY <1>2, <1>5, <2>2 DEF After
  <2> QED
    BY <1>2, <2>2, <2>3 DEF Running
<1> QED
  BY <1>2, <1>3, <1>4, <1>5 DEF RunnersInv, Running

LEMMA RunnersStep ==
  ASSUME RunnersInv, [RunnerNext]_runnerVars
  PROVE  RunnersInv'
<1>1. /\ runs \in [Runs -> Run] /\ \A r \in Runs : RunOK(runs[r])
      /\ dialog \in [running : BOOLEAN, runnerRef : Runs \union {NoRun}, result : Runs \union {NoRun}]
  BY DEF RunnersInv
<1>2. CASE UNCHANGED runnerVars
  BY <1>2 DEF RunnersInv, runnerVars, Running
<1>3. CASE handleCancel
  <2>1. /\ dialog.running /\ dialog'.runnerRef = dialog.runnerRef
        /\ dialog' \in [running : BOOLEAN, runnerRef : Runs \union {NoRun}, result : Runs \union {NoRun}]
    BY <1>1, <1>3 DEF handleCancel
  <2>2. CASE dialog.runnerRef = NoRun
    <3>1. runs' = runs
      BY <1>3, <2>2 DEF handleCancel
    <3>2. \A r \in Runs : ~(Running(r) /\ ~runs[r].cancelled /\ ~runs[r].over)
      BY <2>2, RunsAssumption DEF RunnersInv
    <3> QED
      BY <2>1, <3>1, <3>2 DEF RunnersInv, Running
  <2>3. CASE dialog.runnerRef # NoRun
    <3> DEFINE r == dialog.runnerRef
               e == [runs[r] EXCEPT !.cancelled = TRUE]
    <3>1. r \in Runs /\ runs' = [runs EXCEPT ![r] = e]
      BY <1>1, <1>3, <2>3 DEF handleCancel
    <3>2. RunOK(e) /\ e.pc = runs[r].pc /\ e.cancelled /\ (Fresh(runs[r]) => Fresh(e))
      BY <1>1, <3>1, CancelledOK
    <3> HIDE DEF e
    <3>3. /\ e \in Run /\ runs' \in [Runs -> Run] /\ runs'[r] = e
          /\ \A q \in Runs : q # r => runs'[q] = runs[q]
      BY <1>1, <3>1, <3>2 DEF RunOK
    <3>4. \A q \in Runs : RunOK(runs'[q]) /\ (runs'[q].pc = "idle" => Fresh(runs'[q]))
      BY <3>1, <3>2, <3>3 DEF RunnersInv
    <3>5. ASSUME NEW q \in Runs PROVE ~(runs'[q].pc \in {"wait", "sleep"} /\ ~runs'[q].cancelled /\ ~runs'[q].over)
      BY <3>1, <3>2, <3>3 DEF RunnersInv, Running
    <3> QED
      BY <2>1, <3>3, <3>4, <3>5 DEF RunnersInv, Running
  <2> QED
    BY <2>2, <2>3
<1>4. ASSUME NEW r \in Runs, handleRun(r) PROVE RunnersInv'
  <2> DEFINE over == \E q \in Runs : Running(q)
  <2>1. PICK kind \in {"collection", "batch"}, stop \in BOOLEAN, delay \in BOOLEAN :
          LET run == [runs[r] EXCEPT !.kind = kind, !.stopOnFailure = stop,
                                     !.delay = delay /\ kind = "batch", !.over = over]
          IN runs' = [runs EXCEPT ![r] = IF kind = "batch" THEN BatchHead(run) ELSE CollectionHead(run)]
    BY <1>4 DEF handleRun
  <2> DEFINE s == [runs[r] EXCEPT !.kind = kind, !.stopOnFailure = stop,
                                  !.delay = delay /\ kind = "batch", !.over = over]
             e == IF kind = "batch" THEN BatchHead(s) ELSE CollectionHead(s)
  <2>2. runs' = [runs EXCEPT ![r] = e]
    BY <2>1
  <2>3. /\ ~dialog.running /\ dialog' = [running |-> TRUE, runnerRef |-> r, result |-> NoRun]
        /\ Fresh(runs[r]) /\ runs[r] \in Run /\ over \in BOOLEAN /\ (delay /\ kind = "batch") \in BOOLEAN
    BY <1>1, <1>4 DEF handleRun, RunnersInv
  <2>4. RunOK(e) /\ e.pc # "idle" /\ e.over = over
    <3>1. ASSUME NEW d \in BOOLEAN, NEW o \in BOOLEAN
          PROVE  LET t == [runs[r] EXCEPT !.kind = kind, !.stopOnFailure = stop, !.delay = d, !.over = o]
                 IN  t \in Run /\ Fresh(t) /\ t.kind = kind /\ t.over = o
      BY <2>3 DEF Run, Fresh
    <3>2. s \in Run /\ Fresh(s) /\ s.kind = kind /\ s.over = over
      BY <2>3, <3>1, Zenon
    <3> HIDE DEF s, over
    <3> QED
      BY <3>2, StartedOK
  <2> HIDE DEF e, s
  <2>5. /\ e \in Run /\ runs' \in [Runs -> Run] /\ runs'[r] = e
        /\ \A q \in Runs : q # r => runs'[q] = runs[q]
    BY <1>1, <2>2, <2>4 DEF RunOK
  <2>6. \A q \in Runs : RunOK(runs'[q]) /\ (runs'[q].pc = "idle" => Fresh(runs'[q]))
    BY <2>4, <2>5 DEF RunnersInv
  <2>7. dialog' \in [running : BOOLEAN, runnerRef : Runs \union {NoRun}, result : Runs \union {NoRun}]
        /\ dialog'.running /\ dialog'.runnerRef = r
    BY <2>3
  <2>8. ASSUME NEW q \in Runs, runs'[q].pc \in {"wait", "sleep"}, ~runs'[q].cancelled, ~runs'[q].over
        PROVE  q = r /\ \A p \in Runs : runs'[p].pc \in {"wait", "sleep"} => p = q
    <3>1. q = r
      BY <2>3, <2>5, <2>8 DEF RunnersInv, Running
    <3>2. ~over
      BY <2>4, <2>5, <2>8, <3>1
    <3> QED
      BY <2>5, <3>1, <3>2 DEF Running
  <2> QED
    BY <2>5, <2>6, <2>7, <2>8 DEF RunnersInv, Running
<1>5. ASSUME NEW r \in Runs, Answered(r) PROVE RunnersInv'
  <2>1. PICK status \in Status :
          After(r, IF runs[r].kind = "batch" THEN BatchAnswer(runs[r], status)
                   ELSE CollectionAnswer(runs[r], status))
    BY <1>5 DEF Answered, Status
  <2>2. RunOK(runs[r]) /\ Running(r) /\ runs[r].pc = "wait" /\ runs[r].kind \in {"collection", "batch"}
    BY <1>1, <1>5, RunFields DEF Answered, Running
  <2>3. CASE runs[r].kind = "batch"
    <3> DEFINE a == BatchAnswer(runs[r], status)
    <3>1. RunOK(a) /\ a.pc # "idle" /\ a.cancelled = runs[r].cancelled /\ a.over = runs[r].over
      BY <2>2, <2>3, BatchAnswerOK
    <3>2. After(r, a)
      BY <2>1, <2>3
    <3> HIDE DEF a
    <3> QED
      BY <2>2, <3>1, <3>2, RunStep
  <2>4. CASE runs[r].kind = "collection"
    <3> DEFINE a == CollectionAnswer(runs[r], status)
    <3>1. RunOK(a) /\ a.pc \in {"wait", "ended"} /\ a.cancelled = runs[r].cancelled /\ a.over = runs[r].over
      BY <2>2, <2>4, CollectionAnswerOK
    <3>2. After(r, a)
      BY <2>1, <2>4
    <3> HIDE DEF a
    <3> QED
      BY <2>2, <3>1, <3>2, RunStep
  <2> QED
    BY <2>2, <2>3, <2>4
<1>6. ASSUME NEW r \in Runs, Slept(r) PROVE RunnersInv'
  <2> DEFINE a == BatchHead(NextBatch(runs[r]))
  <2>1. RunOK(runs[r]) /\ Running(r) /\ runs[r].pc = "sleep" /\ runs[r] \in Run
    BY <1>1, <1>6 DEF Slept, Running
  <2>2. runs[r].kind = "batch" /\ BatchOK(runs[r])
    BY <2>1 DEF RunOK, CollectionOK, Run
  <2>3. /\ runs[r].inFlight = 0 /\ runs[r].saw = <<>> /\ runs[r].results = <<>>
        /\ runs[r].issued = runs[r].passed + runs[r].failed /\ runs[r].done = runs[r].issued
        /\ runs[r].issued = Smaller(runs[r].i + Concurrency, Requests)
    BY <2>1, <2>2, RunFields DEF BatchOK, Smaller
  <2>4. RunOK(a) /\ a.pc \in {"wait", "ended"} /\ a.cancelled = runs[r].cancelled /\ a.over = runs[r].over
    BY <2>1, <2>2, <2>3, NextBatchOK
  <2>5. After(r, a)
    BY <1>6 DEF Slept
  <2> HIDE DEF a
  <2> QED
    BY <2>1, <2>4, <2>5, RunStep
<1> QED
  BY <1>2, <1>3, <1>4, <1>5, <1>6 DEF RunnerNext

\* The durations that a batch reports are in order and among those it has.
LEMMA PercentilesInOrder ==
  ASSUME NEW n \in Nat, n > 0
  PROVE  /\ percentile(n, 50) <= percentile(n, 95)
         /\ percentile(n, 95) <= percentile(n, 99) /\ percentile(n, 99) < n
BY DEF percentile, Smaller

\* What RunsAccount says of one run.
LEMMA RunAccounts ==
  ASSUME NEW run, RunOK(run)
  PROVE  /\ run.pc \in {"idle", "wait", "sleep", "ended"} /\ run.done \in 0..Requests
         /\ \A i \in DOMAIN run.saw : run.saw[i] = {j \in 1..(i - 1) : run.results[j] # "error"}
         /\ run.stopOnFailure =>
              \A i \in DOMAIN run.results : run.results[i] # "passed" => i = Len(run.results)
         /\ run.kind = "batch" =>
              /\ run.inFlight <= Concurrency /\ run.issued <= Requests
              /\ run.issued = run.passed + run.failed + run.inFlight
              /\ (run.pc = "ended" /\ ~run.cancelled /\ ~(run.stopOnFailure /\ run.failed > 0)) =>
                   run.passed + run.failed = Requests /\ run.done = Requests
<1>1. run \in Run
  BY DEF RunOK
<1>2. /\ run.results \in Seq(Status) /\ run.saw \in Seq(SUBSET Nat) /\ run.i \in Nat /\ run.inFlight \in Nat
      /\ run.issued \in Nat /\ run.passed \in Nat /\ run.failed \in Nat /\ run.done \in Nat
      /\ run.pc \in {"idle", "wait", "sleep", "ended"} /\ run.kind \in {"collection", "batch"}
  BY <1>1, RunFields
<1>3. CASE run.kind = "collection"
  <2>1. CollectionOK(run)
    BY <1>3 DEF RunOK
  <2>2. DOMAIN run.saw = 1..run.i /\ DOMAIN run.results = 1..Len(run.results)
    BY <1>2, <2>1 DEF CollectionOK
  <2> QED
    BY <1>2, <1>3, <2>1, <2>2, ConcurrencyAssumption DEF CollectionOK, Gave
<1>4. CASE run.kind = "batch"
  <2>1. BatchOK(run)
    BY <1>4 DEF RunOK
  <2>2. DOMAIN run.saw = {} /\ DOMAIN run.results = {}
    BY <2>1 DEF BatchOK
  <2>3. run.done \in 0..Requests /\ run.inFlight <= Concurrency /\ run.issued <= Requests
    BY <1>2, <2>1, ConcurrencyAssumption, SMTT(30) DEF BatchOK, Smaller
  <2> QED
    BY <1>2, <2>1, <2>2, <2>3, ConcurrencyAssumption DEF BatchOK
<1> QED
  BY <1>2, <1>3, <1>4

LEMMA RunnersStart ==
  ASSUME RunnerInit PROVE RunnersInv
<1>1. \A r \in Runs : runs[r] \in Run /\ Fresh(runs[r]) /\ runs[r].kind = "collection" /\ runs[r].pc = "idle"
                      /\ runs[r].stopOnFailure = FALSE
  BY DEF RunnerInit, Run, Fresh
<1>2. \A r \in Runs : RunOK(runs[r])
  BY <1>1, ConcurrencyAssumption DEF RunOK, CollectionOK, Fresh, Gave
<1>3. runs \in [Runs -> Run]
  BY <1>1 DEF RunnerInit
<1> QED
  BY <1>1, <1>2, <1>3 DEF RunnerInit, RunnersInv, Running

\* A run of a collection or a batch accounts for its requests, and one that
\* goes on can be cancelled, for any number of requests and any concurrency,
\* whichever run is started over one that is still ending
\* (CollectionRunner.run, BatchRunner.run and the dialogs' handleRun).
THEOREM RunsAreAccounted == RunnerSpec => []RunsAccount
<1>1. RunnerInit => RunnersInv
  BY RunnersStart
<1>2. RunnersInv /\ [RunnerNext]_runnerVars => RunnersInv'
  BY RunnersStep
<1>3. RunnersInv => RunsAccount
  <2> SUFFICES ASSUME RunnersInv PROVE RunsAccount
    OBVIOUS
  <2>1. \A r \in Runs : RunOK(runs[r])
    BY DEF RunnersInv
  <2>2. RunnerTypeOK
    BY <2>1, RunAccounts DEF RunnersInv, RunnerTypeOK
  <2>3. VariablesFlow
    BY <2>1, RunAccounts DEF VariablesFlow
  <2>4. BatchAccounted
    <3> SUFFICES ASSUME NEW r \in Runs, runs[r].kind = "batch"
                 PROVE  LET run == runs[r]
                            n == run.passed + run.failed
                        IN  /\ run.inFlight <= Concurrency /\ run.issued <= Requests
                            /\ run.issued = n + run.inFlight
                            /\ (run.pc = "ended" /\ ~run.cancelled /\ ~(run.stopOnFailure /\ run.failed > 0)) =>
                                 n = Requests /\ run.done = Requests
                            /\ n > 0 => /\ percentile(n, 50) <= percentile(n, 95)
                                        /\ percentile(n, 95) <= percentile(n, 99) /\ percentile(n, 99) < n
      BY DEF BatchAccounted
    <3>1. runs[r].passed + runs[r].failed \in Nat
      BY RunFields DEF RunnersInv
    <3> QED
      BY <2>1, <3>1, RunAccounts, PercentilesInOrder
  <2>5. RunCanBeCancelled
    BY DEF RunnersInv, RunCanBeCancelled
  <2> QED
    BY <2>2, <2>3, <2>4, <2>5 DEF RunsAccount
<1> QED
  BY <1>1, <1>2, <1>3, PTL DEF RunnerSpec

\* Only a run that was started is cancelled.
StartedFirst == \A r \in Runs : runs[r].pc = "idle" => ~runs[r].cancelled /\ dialog.runnerRef # r

\* Neither the head of a loop nor what leads to it issues a request or starts a
\* run afresh when the run is cancelled.
LEMMA CancelledIssuesNone ==
  ASSUME NEW run \in Run, run.cancelled, run.pc # "idle", NEW status \in Status
  PROVE  \A next \in {CollectionAnswer(run, status), BatchAnswer(run, status), BatchHead(NextBatch(run))} :
           next.issued = run.issued
<1>1. ASSUME NEW x \in Run, x.cancelled
      PROVE  CollectionHead(x).issued = x.issued /\ BatchHead(x).issued = x.issued
  BY <1>1 DEF CollectionHead, BatchHead, Run
<1>2. CollectionAnswer(run, status).issued = run.issued
  <2> DEFINE noted == [run EXCEPT !.results = Append(@, status), !.variables = Extracted(run, status)]
  <2>1. noted.issued = run.issued /\ noted.cancelled /\ CollectionHead(noted).issued = noted.issued
    BY DEF Run, CollectionHead
  <2> QED
    BY <2>1 DEF CollectionAnswer, Run
<1>3. BatchHead(NextBatch(run)).issued = run.issued
  BY DEF NextBatch, BatchHead, Run
<1>4. BatchAnswer(run, status).issued = run.issued
  <2> DEFINE counted == [run EXCEPT !.inFlight = @ - 1,
                                    !.passed = @ + (IF status = "passed" THEN 1 ELSE 0),
                                    !.failed = @ + (IF status = "passed" THEN 0 ELSE 1)]
  <2>1. counted.issued = run.issued /\ counted.cancelled
    BY DEF Run
  <2>2. ASSUME NEW y, y.issued = run.issued, y.cancelled,
               y = [counted EXCEPT !.done = @ + Smaller(Concurrency, Requests - counted.i)]
        PROVE  BatchHead(NextBatch(y)).issued = run.issued
    BY <2>2 DEF Run, NextBatch, BatchHead
  <2>3. BatchDone(counted).issued = run.issued
    BY <2>1, <2>2 DEF BatchDone, Run
  <2> HIDE DEF counted
  <2> QED
    BY <2>1, <2>3 DEF BatchAnswer, counted
<1> QED
  BY <1>2, <1>3, <1>4

\* A cancelled run issues no further request, for any number of runs and any
\* concurrency, also when it was cancelled during a delay or with a batch in
\* flight (CollectionRunner.cancel and BatchRunner.cancel).
THEOREM CancelsAreObeyed == RunnerSpec => CancelStopsRun
<1>1. RunnerInit => StartedFirst
  BY RunsAssumption DEF RunnerInit, StartedFirst
<1>2. RunnersInv /\ StartedFirst /\ [RunnerNext]_runnerVars =>
        StartedFirst' /\ [\A r \in Runs : runs[r].cancelled => runs'[r].issued = runs[r].issued]_runnerVars
  <2> SUFFICES ASSUME RunnersInv, StartedFirst, RunnerNext
               PROVE  /\ StartedFirst'
                      /\ \A r \in Runs : runs[r].cancelled => runs'[r].issued = runs[r].issued
    BY DEF StartedFirst, runnerVars
  <2>1. runs \in [Runs -> Run] /\ \A r \in Runs : RunOK(runs[r])
    BY DEF RunnersInv
  <2>2. CASE handleCancel
    BY <2>1, <2>2 DEF handleCancel, StartedFirst, RunnersInv, Run
  <2>3. ASSUME NEW r \in Runs, handleRun(r) PROVE
        /\ StartedFirst'
        /\ \A q \in Runs : runs[q].cancelled => runs'[q].issued = runs[q].issued
    <3>1. /\ ~runs[r].cancelled /\ dialog'.runnerRef = r
          /\ \A q \in Runs : q # r => runs'[q] = runs[q]
      BY <2>1, <2>3 DEF handleRun, StartedFirst
    <3>2. runs'[r].pc # "idle"
      BY <2>1, <2>3, RunsAssumption DEF handleRun, BatchHead, CollectionHead, Run
    <3> QED
      BY <3>1, <3>2 DEF StartedFirst
  <2>4. ASSUME NEW r \in Runs, NEW run, After(r, run), Running(r), run.pc # "idle",
               runs[r].cancelled => run.issued = runs[r].issued
        PROVE  /\ StartedFirst'
               /\ \A q \in Runs : runs[q].cancelled => runs'[q].issued = runs[q].issued
    <3>1. runs'[r] = run /\ \A q \in Runs : q # r => runs'[q] = runs[q]
      BY <2>1, <2>4 DEF After
    <3>2. \A q \in Runs : dialog'.runnerRef = q => dialog.runnerRef = q
      BY <2>4, RunsAssumption DEF After
    <3> QED
      BY <2>4, <3>1, <3>2 DEF StartedFirst
  <2>5. ASSUME NEW r \in Runs, Answered(r) PROVE
        /\ StartedFirst'
        /\ \A q \in Runs : runs[q].cancelled => runs'[q].issued = runs[q].issued
    <3>1. PICK status \in Status :
            After(r, IF runs[r].kind = "batch" THEN BatchAnswer(runs[r], status)
                     ELSE CollectionAnswer(runs[r], status))
      BY <2>5 DEF Answered, Status
    <3> DEFINE next == IF runs[r].kind = "batch" THEN BatchAnswer(runs[r], status)
                       ELSE CollectionAnswer(runs[r], status)
    <3>2. Running(r) /\ runs[r].pc = "wait"
      BY <2>5 DEF Answered, Running
    <3>3. next.pc # "idle"
      BY <2>1, <3>2 DEF BatchAnswer, BatchDone, BatchHead, NextBatch, CollectionAnswer, CollectionHead, Run
    <3>4. runs[r].cancelled => next.issued = runs[r].issued
      BY <2>1, <3>2, CancelledIssuesNone
    <3> HIDE DEF next
    <3>5. After(r, next)
      BY <3>1 DEF next
    <3> QED
      BY <2>4, <3>2, <3>3, <3>4, <3>5
  <2>6. ASSUME NEW r \in Runs, Slept(r) PROVE
        /\ StartedFirst'
        /\ \A q \in Runs : runs[q].cancelled => runs'[q].issued = runs[q].issued
    <3> DEFINE next == BatchHead(NextBatch(runs[r]))
    <3>1. After(r, next) /\ Running(r) /\ runs[r].pc = "sleep"
      BY <2>6 DEF Slept, Running
    <3>2. next.pc # "idle"
      BY <2>1, <3>1 DEF BatchHead, NextBatch, Run
    <3>3. runs[r].cancelled => next.issued = runs[r].issued
      BY <2>1, <3>1, CancelledIssuesNone DEF Status
    <3> HIDE DEF next
    <3> QED
      BY <2>4, <3>1, <3>2, <3>3
  <2> QED
    BY <2>2, <2>3, <2>5, <2>6 DEF RunnerNext
<1>3. RunnerInit => RunnersInv
  BY RunnersStart
<1>4. RunnersInv /\ [RunnerNext]_runnerVars => RunnersInv'
  BY RunnersStep
<1> QED
  BY <1>1, <1>2, <1>3, <1>4, PTL DEF RunnerSpec, CancelStopsRun

-----------------------------------------------------------------------------
(* The rate limiter.                                                       *)

USE LimiterAssumption

(* ---- arithmetic ---- *)

\* A refill over two spans of time is the sum of the refills over each.
LEMMA Spans ==
  ASSUME NEW r \in Int, NEW a \in Int, NEW b \in Int, NEW c \in Int
  PROVE  /\ (a - b) * r + (b - c) * r = (a - c) * r
         /\ r * (a - b) = (a - b) * r
         /\ (a - b) * r \in Int
  OBVIOUS

\* Longer spans refill more.
LEMMA LongerSpan ==
  ASSUME NEW r \in Nat, NEW a \in Int, NEW b \in Int, a <= b
  PROVE  a * r <= b * r
  OBVIOUS

\* Rounding up: the time that RetryAfter computes is long enough.
LEMMA RoundedUp ==
  ASSUME NEW r \in Nat \ {0}, NEW a \in Int
  PROVE  /\ (a + r - 1) \div r \in Int
         /\ ((a + r - 1) \div r) * r >= a
  OBVIOUS

\* A bucket that holds a whole number of tokens, at least one, holds one.
LEMMA OneMore ==
  ASSUME NEW m \in Nat \ {0}, NEW u \in Nat
  PROVE  m * u >= u
  OBVIOUS

\* What one more admitted request costs.
LEMMA Charged ==
  ASSUME NEW n \in Int, NEW u \in Int
  PROVE  (n + 1) * u = n * u + u
  OBVIOUS

(* ---- what a check computes ---- *)

\* The bucket sizes are integers that hold at least one token.
LEMMA CapFacts ==
  ASSUME NEW g \in Groups
  PROVE  Cap(g) \in Int /\ Cap(g) >= Unit
<1>1. MaxTokens[g] \in Nat \ {0} /\ Unit \in Nat
  OBVIOUS
<1>2. MaxTokens[g] * Unit \in Int
  BY <1>1
<1> QED  BY <1>1, <1>2, OneMore DEF Cap

\* Refilled on a client that has a bucket, and on one that has none.
LEMMA RefilledValue ==
  ASSUME TypeOK, NEW k \in ClientKeys, NEW g \in Groups, NEW n \in Nat
  PROVE  /\ Refilled(k, g, n) \in Int
         /\ Refilled(k, g, n) <= Cap(g)
         /\ \A b \in bucket[k] :
              Refilled(k, g, n) =
                LeastOf(Cap(g), b.tokens + (n - b.last) * RefillRate[g])
<1>1. CASE bucket[k] = {}
  BY <1>1, CapFacts DEF Refilled
<1>2. CASE bucket[k] # {}
  <2>1. PICK b \in bucket[k] : bucket[k] = {b}
    BY <1>2 DEF TypeOK
  <2>2. b \in Bucket
    BY DEF TypeOK
  <2>3. (CHOOSE x \in bucket[k] : TRUE) = b
    BY <2>1
  <2>4. Refilled(k, g, n) = LeastOf(Cap(g), b.tokens + (n - b.last) * RefillRate[g])
    BY <1>2, <2>3 DEF Refilled
  <2>5. (n - b.last) * RefillRate[g] \in Int
    BY <2>2 DEF Bucket
  <2> QED  BY <2>1, <2>2, <2>4, <2>5, CapFacts DEF LeastOf, Bucket
<1> QED  BY <1>1, <1>2

(* ---- type correctness ---- *)

\* A request that is being checked.
LEMMA BeingChecked ==
  ASSUME TypeOK, NEW f \in Fibers, fiber[f].pc = "read"
  PROVE  /\ fiber[f] \in Request
         /\ fiber[f].key \in ClientKeys
         /\ fiber[f].group \in Groups
         /\ fiber[f].at \in Nat
         /\ fiber[f].at <= now
<1>1. fiber[f] # Idle
  BY DEF Idle
<1> QED  BY <1>1 DEF TypeOK, Request

\* A check that leaves a new bucket behind keeps the types.
LEMMA CheckedType ==
  ASSUME TypeOK, NEW f \in Fibers, fiber[f].pc = "read",
         NEW tokens \in Int, NEW pc \in {"allowed", "rejected"},
         NEW admitted \in BOOLEAN,
         NEW p \in SUBSET [group : Groups, at : Int],
         bucket' = [bucket EXCEPT ![fiber[f].key] =
                      {[tokens |-> tokens, last |-> fiber[f].at]}],
         promise' = [promise EXCEPT ![fiber[f].key] = p],
         fiber' = [fiber EXCEPT ![f].pc = pc],
         Observe(fiber[f].key, fiber[f].group, fiber[f].at, admitted),
         now' = now
  PROVE  TypeOK'
<1> DEFINE k == fiber[f].key
           g == fiber[f].group
           n == fiber[f].at
<1>1. /\ fiber[f] \in Request
      /\ k \in ClientKeys /\ g \in Groups /\ n \in Nat /\ n <= now
  BY BeingChecked
<1>2. [tokens |-> tokens, last |-> n] \in Bucket
  BY <1>1 DEF Bucket
<1> HIDE DEF k, g, n
<1>3. /\ bucket' \in [ClientKeys -> SUBSET Bucket]
      /\ \A j \in ClientKeys : \A b, c \in bucket'[j] : b = c /\ b.last <= now'
  <2>1. bucket' = [bucket EXCEPT ![k] = {[tokens |-> tokens, last |-> n]}]
    BY DEF k, n
  <2>2. /\ bucket'[k] = {[tokens |-> tokens, last |-> n]}
        /\ \A j \in ClientKeys : j # k => bucket'[j] = bucket[j]
        /\ bucket' = [j \in ClientKeys |-> bucket'[j]]
    BY <1>1, <2>1 DEF TypeOK
  <2>3. \A j \in ClientKeys : bucket'[j] \in SUBSET Bucket
    BY <1>2, <2>2 DEF TypeOK
  <2>4. \A j \in ClientKeys : \A b, c \in bucket'[j] : b = c /\ b.last <= now'
    BY <1>1, <2>2 DEF TypeOK
  <2> QED  BY <2>2, <2>3, <2>4
<1>4. /\ fiber' \in [Fibers -> Request \union {Idle}]
      /\ \A h \in Fibers : fiber'[h] # Idle => fiber'[h].at <= now'
  <2>1. /\ fiber'[f] \in Request
        /\ fiber'[f].at = fiber[f].at
        /\ \A h \in Fibers : h # f => fiber'[h] = fiber[h]
        /\ DOMAIN fiber' = Fibers
    BY <1>1 DEF TypeOK, Request
  <2>2. fiber' = [h \in Fibers |-> fiber'[h]]
    BY DEF TypeOK
  <2> QED  BY <1>1, <2>1, <2>2 DEF TypeOK, n
<1>5. /\ since' \in [ClientKeys -> Nat]
      /\ \A j \in ClientKeys : since'[j] <= now'
      /\ count' \in [ClientKeys -> [Groups -> Nat]]
      /\ used' \in [ClientKeys -> SUBSET Groups]
  <2>1. used' = [used EXCEPT ![k] = @ \union {g}]
    BY DEF Observe, k, g
  <2>2. PICK d \in {0, 1} : count' = [count EXCEPT ![k][g] = @ + d]
    BY DEF Observe, k, g
  <2>3. since' = since
    BY DEF Observe
  <2> QED  BY <1>1, <2>1, <2>2, <2>3 DEF TypeOK
<1>6. promise' \in [ClientKeys -> SUBSET [group : Groups, at : Int]]
  BY <1>1 DEF TypeOK, k
<1> QED  BY <1>3, <1>4, <1>5, <1>6 DEF TypeOK

\* The types hold at the start.
LEMMA TypeInit == Init => TypeOK
  BY DEF Init, TypeOK, Idle

\* Every step keeps the types.
LEMMA TypeStep == TypeOK /\ [Next]_vars => TypeOK'
<1> SUFFICES ASSUME TypeOK, [Next]_vars PROVE TypeOK'
  OBVIOUS
<1>1. CASE Tick
  BY <1>1 DEF Tick, window, TypeOK, Bucket, Request, Idle
<1>2. ASSUME NEW k \in ClientKeys, OpenWindow(k) PROVE TypeOK'
  BY <1>2 DEF OpenWindow, TypeOK
<1>3. ASSUME NEW f \in Fibers, NEW k \in ClientKeys, NEW g \in Groups, ReadClock(f, k, g)
      PROVE  TypeOK'
  BY <1>3 DEF ReadClock, window, TypeOK, Request, Idle
<1>4. ASSUME NEW f \in Fibers, Reject(f) PROVE TypeOK'
  <2>1. fiber[f].pc = "read" /\ fiber[f].group \in Groups /\ fiber[f].at \in Nat
        /\ fiber[f].key \in ClientKeys
    BY <1>4, BeingChecked DEF Reject
  <2> DEFINE tokens == Refilled(fiber[f].key, fiber[f].group, fiber[f].at)
  <2>2. tokens \in Int
    BY <2>1, RefilledValue
  <2>3. RetryAfter(fiber[f].group, tokens) \in Int
    <3>1. Unit - tokens \in Int /\ RefillRate[fiber[f].group] \in Nat \ {0}
      BY <2>1, <2>2
    <3> QED  BY <3>1, RoundedUp DEF RetryAfter
  <2> DEFINE p == {[group |-> fiber[f].group,
                    at |-> fiber[f].at + RetryAfter(fiber[f].group, tokens)]}
  <2>4. p \in SUBSET [group : Groups, at : Int]
    BY <2>1, <2>3
  <2>5. /\ bucket' = [bucket EXCEPT ![fiber[f].key] =
                        {[tokens |-> tokens, last |-> fiber[f].at]}]
        /\ promise' = [promise EXCEPT ![fiber[f].key] = p]
        /\ fiber' = [fiber EXCEPT ![f].pc = "rejected"]
        /\ Observe(fiber[f].key, fiber[f].group, fiber[f].at, FALSE)
        /\ now' = now
    BY <1>4 DEF Reject
  <2>6. PICK t \in Int, q \in SUBSET [group : Groups, at : Int] : t = tokens /\ q = p
    BY <2>2, <2>4
  <2> HIDE DEF tokens, p
  <2> QED  BY <2>1, <2>5, <2>6, CheckedType
<1>5. ASSUME NEW f \in Fibers, Admit(f) PROVE TypeOK'
  <2>1. fiber[f].pc = "read" /\ fiber[f].group \in Groups /\ fiber[f].at \in Nat
        /\ fiber[f].key \in ClientKeys
    BY <1>5, BeingChecked DEF Admit
  <2> DEFINE tokens == Refilled(fiber[f].key, fiber[f].group, fiber[f].at) - Unit
  <2>2. tokens \in Int
    BY <2>1, RefilledValue
  <2>3. /\ bucket' = [bucket EXCEPT ![fiber[f].key] =
                        {[tokens |-> tokens, last |-> fiber[f].at]}]
        /\ promise' = [promise EXCEPT ![fiber[f].key] = {}]
        /\ fiber' = [fiber EXCEPT ![f].pc = "allowed"]
        /\ Observe(fiber[f].key, fiber[f].group, fiber[f].at, TRUE)
        /\ now' = now
    BY <1>5 DEF Admit
  <2>4. PICK t \in Int, q \in SUBSET [group : Groups, at : Int] : t = tokens /\ q = {}
    BY <2>2
  <2> HIDE DEF tokens
  <2> QED  BY <2>1, <2>3, <2>4, CheckedType
<1>6. ASSUME NEW f \in Fibers, Answer(f) PROVE TypeOK'
  BY <1>6 DEF Answer, window, TypeOK, Request, Idle
<1>7. CASE UNCHANGED vars
  BY <1>7 DEF vars, window, TypeOK
<1> QED  BY <1>1, <1>2, <1>3, <1>4, <1>5, <1>6, <1>7 DEF Next, Fiber

\* Every variable of the limiter has its type, a client has at most one
\* bucket, and no clock reading lies in the future.
THEOREM TypeCorrect == Spec => []TypeOK
  BY TypeInit, TypeStep, PTL DEF Spec

(***************************************************************************)
(* The two properties, from one inductive invariant.                       *)
(*                                                                         *)
(* The line of a bucket is the tokens it would hold at time t if it were   *)
(* never full.  A check, with whatever clock reading, never lifts it, and  *)
(* an admission lowers it by one token.                                    *)
(***************************************************************************)
Line(b, g, t) == b.tokens + (t - b.last) * RefillRate[g]

\* What a window has admitted, together with the line at the window's start,
\* stays within a full bucket; and the line is not below zero by now.
WindowInv ==
  \A k \in ClientKeys : \A g \in Groups :
    (used[k] \subseteq {g} /\ count[k][g] > 0) =>
      \E b \in bucket[k] :
        /\ count[k][g] * Unit + Line(b, g, since[k]) <= Cap(g)
        /\ Line(b, g, now) >= 0

\* At the promised time the line has reached a token.
PromiseInv ==
  \A k \in ClientKeys : \A p \in promise[k] :
    \E b \in bucket[k] : Line(b, p.group, p.at) >= Unit

IInv == TypeOK /\ WindowInv /\ PromiseInv

\* A line is a number that rises with time at the refill rate.
LEMMA LineFacts ==
  ASSUME NEW b \in Bucket, NEW g \in Groups, NEW t \in Int, NEW u \in Int
  PROVE  /\ Line(b, g, t) \in Int
         /\ Line(b, g, u) = Line(b, g, t) + (u - t) * RefillRate[g]
         /\ t <= u => Line(b, g, t) <= Line(b, g, u)
<1> DEFINE r == RefillRate[g]
           l == b.last
<1>1. r \in Nat /\ l \in Int /\ b.tokens \in Int
  BY DEF Bucket
<1> HIDE DEF r, l
<1>2. /\ (u - t) * r + (t - l) * r = (u - l) * r
      /\ (u - t) * r \in Int /\ (t - l) * r \in Int /\ (u - l) * r \in Int
  BY <1>1, Spans
<1>3. t <= u => (u - t) * r >= 0 * r
  BY <1>1, LongerSpan
<1> QED  BY <1>1, <1>2, <1>3 DEF Line, r, l

\* What a bucket holds when it was just updated is where its line starts.
LEMMA LineStart ==
  ASSUME NEW x \in Int, NEW n \in Nat, NEW g \in Groups
  PROVE  /\ [tokens |-> x, last |-> n] \in Bucket
         /\ Line([tokens |-> x, last |-> n], g, n) = x
<1>1. (n - n) * RefillRate[g] = 0
  OBVIOUS
<1> QED  BY <1>1 DEF Line, Bucket

\* What a check finds in the bucket is on the line, unless the bucket is full.
LEMMA OnTheLine ==
  ASSUME TypeOK, NEW k \in ClientKeys, NEW g \in Groups, NEW n \in Nat
  PROVE  \A b \in bucket[k] :
           b \in Bucket /\ Refilled(k, g, n) = LeastOf(Cap(g), Line(b, g, n))
  BY RefilledValue DEF TypeOK, Line

\* A check that is rejected keeps the invariant.
LEMMA RejectStep ==
  ASSUME IInv, TypeOK', NEW f \in Fibers, Reject(f)
  PROVE  WindowInv' /\ PromiseInv'
<1> DEFINE k == fiber[f].key
           g == fiber[f].group
           n == fiber[f].at
           R == Refilled(k, g, n)
           c == [tokens |-> R, last |-> n]
<1>1. k \in ClientKeys /\ g \in Groups /\ n \in Nat /\ n <= now /\ now \in Nat
  BY BeingChecked DEF Reject, IInv, TypeOK
<1>2. TypeOK
  BY DEF IInv
<1>3. R \in Int /\ R < Unit /\ c \in Bucket
  BY <1>1, <1>2, RefilledValue DEF Reject, Bucket
<1>4. bucket'[k] = {c} /\ \A j \in ClientKeys : j # k => bucket'[j] = bucket[j]
  BY <1>1, <1>2 DEF Reject, TypeOK
<1>5. /\ since' = since
      /\ \A j \in ClientKeys : j # k => used'[j] = used[j] /\ count'[j] = count[j]
      /\ used'[k] = used[k] \union {g}
      /\ count'[k][g] = count[k][g]
  <2>1. Observe(k, g, n, FALSE)
    BY DEF Reject
  <2> HIDE DEF k, g, n
  <2>2. count' = [count EXCEPT ![k][g] = @ + 0]
    BY <2>1 DEF Observe
  <2> QED  BY <1>1, <1>2, <2>1, <2>2 DEF Observe, TypeOK
<1>6. ASSUME NEW t \in Int
      PROVE  /\ Line(c, g, t) \in Int
             /\ \A b \in bucket[k] : Line(c, g, t) = Line(b, g, t)
  <2>1. ASSUME NEW b \in bucket[k] PROVE Line(c, g, t) = Line(b, g, t)
    <3>1. b \in Bucket /\ R = LeastOf(Cap(g), Line(b, g, n))
      BY <1>1, <1>2, OnTheLine
    <3>2. Line(c, g, n) = R
      BY <1>1, <1>3, LineStart
    <3>3. R = Line(b, g, n)
      BY <1>1, <1>3, <3>1, <3>2, CapFacts, LineFacts DEF LeastOf
    <3> HIDE DEF c, R
    <3>4. /\ Line(c, g, t) = Line(c, g, n) + (t - n) * RefillRate[g]
          /\ Line(b, g, t) = Line(b, g, n) + (t - n) * RefillRate[g]
      BY <1>1, <1>3, <3>1, LineFacts
    <3> QED  BY <1>3, <3>2, <3>3, <3>4
  <2> QED  BY <1>1, <1>3, <2>1, LineFacts
<1>7. now' = now
  BY DEF Reject
<1> HIDE DEF k, g, n, R, c
<1>8. WindowInv'
  <2> SUFFICES ASSUME NEW j \in ClientKeys, NEW h \in Groups,
                      used'[j] \subseteq {h}, count'[j][h] > 0
               PROVE  \E b \in bucket'[j] :
                        /\ count'[j][h] * Unit + Line(b, h, since'[j]) <= Cap(h)
                        /\ Line(b, h, now') >= 0
    BY <1>7 DEF WindowInv, Line, Cap
  <2>1. CASE j # k
    BY <1>4, <1>5, <1>7, <2>1 DEF IInv, WindowInv
  <2>2. CASE j = k
    <3>1. h = g /\ used[k] \subseteq {g} /\ count[k][g] > 0
      BY <1>5, <2>2
    <3>2. PICK b \in bucket[k] :
            /\ count[k][g] * Unit + Line(b, g, since[k]) <= Cap(g)
            /\ Line(b, g, now) >= 0
      BY <1>1, <3>1 DEF IInv, WindowInv
    <3>3. since[k] \in Int
      BY <1>1, <1>2 DEF TypeOK
    <3> QED  BY <1>1, <1>4, <1>5, <1>6, <1>7, <2>2, <3>1, <3>2, <3>3
  <2> QED  BY <2>1, <2>2
<1>9. PromiseInv'
  <2> DEFINE a == RetryAfter(g, R)
  <2>1. a \in Int /\ a * RefillRate[g] >= Unit - R
    <3>1. Unit - R \in Int /\ RefillRate[g] \in Nat \ {0}
      BY <1>1, <1>3
    <3> QED  BY <3>1, RoundedUp DEF RetryAfter
  <2>2. /\ promise'[k] = {[group |-> g, at |-> n + a]}
        /\ \A j \in ClientKeys : j # k => promise'[j] = promise[j]
    BY <1>1, <1>2 DEF Reject, TypeOK, k, g, n, R
  <2>3. Line(c, g, n + a) >= Unit
    <3> HIDE DEF a
    <3>1. Line(c, g, n + a) = R + ((n + a) - n) * RefillRate[g]
      BY <1>1, <1>3, <2>1 DEF Line, c
    <3>2. (n + a) - n = a
      BY <1>1, <2>1
    <3>3. a * RefillRate[g] \in Int
      BY <1>1, <2>1
    <3> QED  BY <1>3, <2>1, <3>1, <3>2, <3>3
  <2> SUFFICES ASSUME NEW j \in ClientKeys, NEW p \in promise'[j]
               PROVE  \E b \in bucket'[j] : Line(b, p.group, p.at) >= Unit
    BY DEF PromiseInv, Line
  <2>4. CASE j # k
    BY <1>4, <2>2, <2>4 DEF IInv, PromiseInv
  <2>5. CASE j = k
    BY <1>4, <2>2, <2>3, <2>5
  <2> QED  BY <2>4, <2>5
<1> QED  BY <1>8, <1>9

\* A check that is admitted keeps the invariant.
LEMMA AdmitStep ==
  ASSUME IInv, TypeOK', NEW f \in Fibers, Admit(f)
  PROVE  WindowInv' /\ PromiseInv'
<1> DEFINE k == fiber[f].key
           g == fiber[f].group
           n == fiber[f].at
           R == Refilled(k, g, n)
           c == [tokens |-> R - Unit, last |-> n]
<1>1. k \in ClientKeys /\ g \in Groups /\ n \in Nat /\ n <= now /\ now \in Nat
  BY BeingChecked DEF Admit, IInv, TypeOK
<1>2. TypeOK
  BY DEF IInv
<1>3. R \in Int /\ R >= Unit /\ R <= Cap(g) /\ Cap(g) \in Int /\ c \in Bucket
  BY <1>1, <1>2, RefilledValue, CapFacts DEF Admit, Bucket
<1>4. bucket'[k] = {c} /\ \A j \in ClientKeys : j # k => bucket'[j] = bucket[j]
  BY <1>1, <1>2 DEF Admit, TypeOK
<1>5. Observe(k, g, n, TRUE) /\ now' = now
  BY DEF Admit
<1>6. promise'[k] = {} /\ \A j \in ClientKeys : j # k => promise'[j] = promise[j]
  BY <1>1, <1>2 DEF Admit, TypeOK
<1>7. ASSUME NEW t \in Int
      PROVE  /\ Line(c, g, t) \in Int
             /\ Line(c, g, n) = R - Unit
             /\ \A b \in bucket[k] : Line(c, g, t) <= Line(b, g, t) - Unit
  <2>1. R - Unit \in Int
    BY <1>3
  <2>2. Line(c, g, n) = R - Unit
    BY <1>1, <2>1, LineStart
  <2>3. ASSUME NEW b \in bucket[k] PROVE Line(c, g, t) <= Line(b, g, t) - Unit
    <3>1. b \in Bucket /\ R = LeastOf(Cap(g), Line(b, g, n))
      BY <1>1, <1>2, OnTheLine
    <3> HIDE DEF k, g, n, R, c
    <3>2. /\ Line(c, g, t) = Line(c, g, n) + (t - n) * RefillRate[g]
          /\ Line(b, g, t) = Line(b, g, n) + (t - n) * RefillRate[g]
          /\ (t - n) * RefillRate[g] \in Int /\ Line(b, g, n) \in Int
      BY <1>1, <1>3, <3>1, LineFacts
    <3>3. R <= Line(b, g, n)
      BY <1>3, <3>1, <3>2 DEF LeastOf
    <3> QED  BY <1>3, <2>2, <3>2, <3>3
  <2>4. Line(c, g, t) \in Int
    BY <1>1, <1>3, LineFacts
  <2> QED  BY <2>2, <2>3, <2>4
<1> HIDE DEF k, g, n, R, c
<1>8. /\ since' = since
      /\ \A j \in ClientKeys : j # k => used'[j] = used[j] /\ count'[j] = count[j]
      /\ used'[k] = used[k] \union {g}
      /\ \/ count'[k][g] = count[k][g]
         \/ count'[k][g] = count[k][g] + 1 /\ n >= since[k]
  <2>1. CASE n >= since[k]
    <3>1. count' = [count EXCEPT ![k][g] = @ + 1]
      BY <1>5, <2>1 DEF Observe
    <3> QED  BY <1>1, <1>2, <1>5, <2>1, <3>1 DEF Observe, TypeOK
  <2>2. CASE ~(n >= since[k])
    <3>1. count' = [count EXCEPT ![k][g] = @ + 0]
      BY <1>5, <2>2 DEF Observe
    <3> QED  BY <1>1, <1>2, <1>5, <3>1 DEF Observe, TypeOK
  <2> QED  BY <2>1, <2>2
<1>9. WindowInv'
  <2> SUFFICES ASSUME NEW j \in ClientKeys, NEW h \in Groups,
                      used'[j] \subseteq {h}, count'[j][h] > 0
               PROVE  \E b \in bucket'[j] :
                        /\ count'[j][h] * Unit + Line(b, h, since'[j]) <= Cap(h)
                        /\ Line(b, h, now') >= 0
    BY DEF WindowInv, Line, Cap
  <2>1. CASE j # k
    BY <1>4, <1>5, <1>8, <2>1 DEF IInv, WindowInv
  <2>2. CASE j = k
    <3> DEFINE m == count[k][g]
               s == since[k]
    <3>1. h = g /\ used[k] \subseteq {g} /\ m \in Nat /\ s \in Nat
      <4>1. m \in Nat /\ s \in Nat
        BY <1>1, <1>2 DEF TypeOK
      <4>2. used[k] \union {g} \subseteq {h}
        BY <1>8, <2>2
      <4> QED  BY <4>1, <4>2
    <3> HIDE DEF m, s
    <3>2. Line(c, g, now) >= 0
      <4>1. Line(c, g, n) <= Line(c, g, now)
        BY <1>1, <1>3, LineFacts
      <4> QED  BY <1>1, <1>3, <1>7, <4>1
    <3>3. m > 0 => m * Unit + Unit + Line(c, g, s) <= Cap(g)
      <4> SUFFICES ASSUME m > 0 PROVE m * Unit + Unit + Line(c, g, s) <= Cap(g)
        OBVIOUS
      <4>1. PICK b \in bucket[k] : m * Unit + Line(b, g, s) <= Cap(g)
        BY <1>1, <3>1 DEF IInv, WindowInv, m, s
      <4>2. b \in Bucket /\ Line(b, g, s) \in Int /\ m * Unit \in Int
        BY <1>1, <1>2, <3>1, LineFacts DEF TypeOK
      <4>3. Line(c, g, s) \in Int /\ Line(c, g, s) <= Line(b, g, s) - Unit
        BY <1>7, <3>1
      <4> QED  BY <1>3, <4>1, <4>2, <4>3
    <3>4. n >= s => Unit + Line(c, g, s) <= Cap(g)
      <4>1. n >= s => Line(c, g, s) <= Line(c, g, n)
        BY <1>1, <1>3, <3>1, LineFacts
      <4> QED  BY <1>1, <1>3, <1>7, <3>1, <4>1
    <3>5. count'[k][g] * Unit + Line(c, g, s) <= Cap(g)
      <4>1. Line(c, g, s) \in Int /\ m * Unit \in Int /\ (m + 1) * Unit = m * Unit + Unit
        <5>1. Line(c, g, s) \in Int
          BY <1>7, <3>1
        <5>2. \A n1 \in Int, u \in Int : n1 * u \in Int /\ (n1 + 1) * u = n1 * u + u
          BY Charged
        <5> QED  BY <3>1, <5>1, <5>2
      <4>2. CASE count'[k][g] = m
        BY <1>3, <2>2, <3>1, <3>3, <4>1, <4>2
      <4>3. CASE count'[k][g] = m + 1 /\ n >= s
        <5>1. m = 0 => m * Unit = 0
          OBVIOUS
        <5> QED  BY <1>3, <3>1, <3>3, <3>4, <4>1, <4>3, <5>1
      <4> QED  BY <1>8, <4>2, <4>3 DEF m, s
    <3> QED  BY <1>4, <1>5, <1>8, <2>2, <3>1, <3>2, <3>5 DEF s
  <2> QED  BY <2>1, <2>2
<1>10. PromiseInv'
  <2> SUFFICES ASSUME NEW j \in ClientKeys, NEW p \in promise'[j]
               PROVE  \E b \in bucket'[j] : Line(b, p.group, p.at) >= Unit
    BY DEF PromiseInv, Line
  <2>1. j # k
    BY <1>6
  <2> QED  BY <1>4, <1>6, <2>1 DEF IInv, PromiseInv
<1> QED  BY <1>9, <1>10

\* Every step keeps the invariant.
LEMMA InvStep == IInv /\ [Next]_vars => IInv'
<1> SUFFICES ASSUME IInv, [Next]_vars PROVE IInv'
  OBVIOUS
<1>1. TypeOK /\ TypeOK'
  BY TypeStep DEF IInv
<1>2. CASE Tick
  <2>1. now' = now + 1 /\ UNCHANGED <<bucket, since, count, used, promise>>
    BY <1>2 DEF Tick, window
  <2>2. WindowInv'
    <3> SUFFICES ASSUME NEW k \in ClientKeys, NEW g \in Groups,
                        used[k] \subseteq {g}, count[k][g] > 0
                 PROVE  \E b \in bucket[k] :
                          /\ count[k][g] * Unit + Line(b, g, since[k]) <= Cap(g)
                          /\ Line(b, g, now + 1) >= 0
      BY <2>1 DEF WindowInv, Line, Cap
    <3>1. PICK b \in bucket[k] :
            /\ count[k][g] * Unit + Line(b, g, since[k]) <= Cap(g)
            /\ Line(b, g, now) >= 0
      BY DEF IInv, WindowInv
    <3>2. b \in Bucket /\ now \in Int
      BY <1>1 DEF TypeOK
    <3>3. /\ Line(b, g, now) \in Int /\ Line(b, g, now + 1) \in Int
          /\ Line(b, g, now) <= Line(b, g, now + 1)
      BY <3>2, LineFacts
    <3> QED  BY <3>1, <3>3
  <2>3. PromiseInv'
    BY <2>1 DEF IInv, PromiseInv, Line
  <2> QED  BY <1>1, <2>2, <2>3 DEF IInv
<1>3. ASSUME NEW k \in ClientKeys, OpenWindow(k) PROVE IInv'
  <2>1. WindowInv'
    BY <1>1, <1>3, SMTT(30) DEF IInv, WindowInv, OpenWindow, TypeOK, Line, Cap
  <2>2. PromiseInv'
    BY <1>3 DEF IInv, PromiseInv, OpenWindow, Line
  <2> QED  BY <1>1, <2>1, <2>2 DEF IInv
<1>4. ASSUME UNCHANGED <<now, bucket, window, promise>> PROVE IInv'
  BY <1>1, <1>4 DEF IInv, WindowInv, PromiseInv, window, Line, Cap
<1>5. ASSUME NEW f \in Fibers, Fiber(f) PROVE IInv'
  BY <1>1, <1>4, <1>5, RejectStep, AdmitStep DEF Fiber, ReadClock, Answer, IInv
<1> QED  BY <1>2, <1>3, <1>4, <1>5 DEF Next, vars

\* The invariant holds in every reachable state.
LEMMA Invariance == Spec => []IInv
<1>1. Init => IInv
  BY TypeInit DEF Init, IInv, WindowInv, PromiseInv
<1> QED  BY <1>1, InvStep, PTL DEF Spec

\* However the requests of a client interleave, and whatever clock readings
\* they bring, a group that alone is asked in some window of time admits at
\* most a full bucket and what is refilled in that time.
THEOREM LimitEnforced == Spec => []WindowBound
<1>1. IInv => WindowBound
  <2> SUFFICES ASSUME IInv, NEW k \in ClientKeys, NEW g \in Groups, used[k] = {g}
               PROVE  count[k][g] * Unit <= Cap(g) + RefillRate[g] * (now - since[k])
    BY DEF WindowBound
  <2> DEFINE m == count[k][g]
             s == since[k]
             r == RefillRate[g]
  <2>1. m \in Nat /\ s \in Nat /\ now \in Nat /\ s <= now /\ r \in Nat
    BY DEF IInv, TypeOK
  <2>2. Cap(g) \in Int /\ Cap(g) >= 0
    BY CapFacts
  <2> HIDE DEF m, s, r
  <2>3. /\ r * (now - s) = (now - s) * r /\ (now - s) * r \in Int
        /\ (now - s) * r >= 0
    BY <2>1, Spans, LongerSpan
  <2>4. CASE m = 0
    BY <2>1, <2>2, <2>3, <2>4 DEF m, s, r
  <2>5. CASE m > 0
    <3>1. PICK b \in bucket[k] :
            m * Unit + Line(b, g, s) <= Cap(g) /\ Line(b, g, now) >= 0
      BY <2>5 DEF IInv, WindowInv, m, s
    <3>2. b \in Bucket
      BY DEF IInv, TypeOK
    <3>3. /\ Line(b, g, now) = Line(b, g, s) + (now - s) * r
          /\ Line(b, g, s) \in Int /\ m * Unit \in Int
      BY <2>1, <3>2, LineFacts DEF r
    <3> QED  BY <2>2, <2>3, <3>1, <3>3 DEF m, s, r
  <2> QED  BY <2>1, <2>4, <2>5
<1> QED  BY <1>1, Invariance, PTL

\* A client of one group that waited as long as it was told is not rejected.
THEOREM RetryAfterKept == Spec => RetryAfterHonest
<1> DEFINE Honest ==
      \A f \in Fibers :
        (fiber[f].pc = "read" /\ fiber'[f].pc = "rejected") =>
          \A p \in promise[fiber[f].key] :
            p.group = fiber[f].group => fiber[f].at < p.at
<1>1. IInv /\ [Next]_vars => [Honest]_vars
  <2> SUFFICES ASSUME IInv, Next, NEW f \in Fibers,
                      fiber[f].pc = "read", fiber'[f].pc = "rejected",
                      NEW p \in promise[fiber[f].key], p.group = fiber[f].group
               PROVE  fiber[f].at < p.at
    OBVIOUS
  <2>1. Reject(f)
    <3>1. fiber \in [Fibers -> Request \union {Idle}] /\ fiber' # fiber
      BY DEF IInv, TypeOK
    <3>2. PICK h \in Fibers : Fiber(h)
      BY <3>1 DEF Next, Tick, OpenWindow
    <3>3. h = f
      BY <3>1, <3>2 DEF Fiber, ReadClock, Reject, Admit, Answer
    <3>4. ~Admit(f) /\ ~Answer(f) /\ \A k \in ClientKeys, g \in Groups : ~ReadClock(f, k, g)
      <4>1. fiber[f] \in Request
        BY BeingChecked DEF IInv
      <4>2. ~Admit(f)
        <5>1. SUFFICES ASSUME fiber' = [fiber EXCEPT ![f].pc = "allowed"] PROVE FALSE
          BY DEF Admit
        <5>2. fiber'[f] = [fiber[f] EXCEPT !.pc = "allowed"]
          BY <3>1, <5>1
        <5>3. fiber'[f].pc = "allowed"
          BY <4>1, <5>2 DEF Request
        <5> QED  BY <5>3
      <4>3. ~Answer(f)
        BY DEF Answer
      <4>4. fiber[f] # Idle
        BY DEF Idle
      <4> QED  BY <4>2, <4>3, <4>4 DEF ReadClock
    <3> QED  BY <3>2, <3>3, <3>4 DEF Fiber
  <2> DEFINE k == fiber[f].key
             g == fiber[f].group
             n == fiber[f].at
  <2>2. TypeOK /\ k \in ClientKeys /\ g \in Groups /\ n \in Nat
    BY BeingChecked DEF IInv
  <2>3. Refilled(k, g, n) < Unit
    BY <2>1 DEF Reject
  <2>4. p.at \in Int
    BY <2>2 DEF TypeOK
  <2>5. PICK b \in bucket[k] : Line(b, g, p.at) >= Unit
    BY <2>2 DEF IInv, PromiseInv
  <2>6. b \in Bucket
    BY <2>2 DEF TypeOK
  <2> HIDE DEF k, g, n
  <2>7. Refilled(k, g, n) = LeastOf(Cap(g), Line(b, g, n))
    BY <2>2, RefilledValue DEF Line
  <2>8. Cap(g) \in Int /\ Cap(g) >= Unit /\ Line(b, g, n) \in Int /\ Line(b, g, p.at) \in Int
    BY <2>2, <2>4, <2>6, CapFacts, LineFacts
  <2>9. Line(b, g, n) < Unit
    BY <2>3, <2>7, <2>8 DEF LeastOf
  <2>10. p.at <= n => Line(b, g, p.at) <= Line(b, g, n)
    BY <2>2, <2>4, <2>6, LineFacts
  <2>11. n < p.at
    BY <2>2, <2>4, <2>5, <2>8, <2>9, <2>10
  <2> QED  BY <2>11 DEF n
<1> QED  BY <1>1, Invariance, PTL DEF Spec, RetryAfterHonest
=============================================================================
