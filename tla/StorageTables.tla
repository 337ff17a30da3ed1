--------------------------- MODULE StorageTables ----------------------------
(***************************************************************************)
(* The tables of the local database beside the tree of collections, each   *)
(* with the writers that share it: the history, the cookie jar, the        *)
(* environments with the response examples. No table refers to another.    *)
(***************************************************************************)
EXTENDS FiniteSetsExt, Naturals, Sequences, FiniteSets

(***************************************************************************)
(* The history table: executions that two tabs add, retention after every  *)
(* add, and what the user pins, deletes or clears meanwhile.  Retention is *)
(* not a transaction: its settings, the entries past the age limit, the    *)
(* count and the oldest entries are read, and the victims deleted, in      *)
(* calls of their own.  Entries are numbered by creation time.             *)
(***************************************************************************)
CONSTANTS
  Writers,    \* executions that record history at the same time
  HistoryMax, \* bound: entries ever added
  Limits,     \* values of maxEntries a user may set, 0 for "none given"
  HISTORY_LIMIT,
  MostKept    \* no limit in force is above it

ASSUME HistoryAssumption ==
  /\ HistoryMax \in Nat /\ HISTORY_LIMIT \in Nat \ {0} /\ Limits \subseteq Nat
  /\ MostKept \in Nat /\ \A l \in Limits \union {HISTORY_LIMIT} : l <= MostKept
  /\ IsFiniteSet(Writers)

VARIABLES
  history,    \* the entries in the table, by number
  pinned,     \* those of them the user pinned
  added,      \* how many were ever added
  aged,       \* entries up to this one are older than retentionDays
  settings,   \* the retention settings: maxEntries, is retentionDays set?
  writer,     \* per writer: where its addHistory is, and what it read
  touched,    \* auxiliary: entries that were ever pinned
  apart       \* auxiliary: nothing happened while a writer was at work

historyVars == <<history, pinned, added, aged, settings, writer, touched, apart>>

IdleWriter == [pc |-> "idle", limit |-> 0, victims |-> {}, excess |-> 0]

HistoryInit ==
  /\ history = {} /\ pinned = {} /\ added = 0 /\ aged = 0
  /\ settings \in [max : Limits, days : BOOLEAN]
  /\ writer = [w \in Writers |-> IdleWriter]
  /\ touched = {} /\ apart = TRUE

AtWork(w) == writer[w].pc # "idle"
Quiet == \A w \in Writers : ~AtWork(w)
Go(w, pc, limit, victims, excess) ==
  writer' = [writer EXCEPT ![w] =
               [pc |-> pc, limit |-> limit, victims |-> victims, excess |-> excess]]
Rest(w) == Go(w, "idle", 0, {}, 0)
Unpinned == history \ pinned
\* The n smallest numbers: the n oldest entries.
Oldest(S, n) == {e \in S : Cardinality({d \in S : d < e}) < n}
Remove(ids) == history' = history \ ids /\ pinned' = pinned \ ids

addHistory(w) ==
  /\ ~AtWork(w) /\ added < HistoryMax
  /\ added' = added + 1
  /\ history' = history \union {added + 1}
  /\ Go(w, "settings", 0, {}, 0)
  /\ apart' = (apart /\ Quiet)
  /\ UNCHANGED <<pinned, aged, settings, touched>>

ReadSettings(w) ==
  /\ writer[w].pc = "settings"
  /\ Go(w, IF settings.days THEN "age" ELSE "count",
        IF settings.max > 0 THEN settings.max ELSE HISTORY_LIMIT, {}, 0)
  /\ UNCHANGED <<history, pinned, added, aged, settings, touched, apart>>

PickAged(w) ==
  /\ writer[w].pc = "age"
  /\ Go(w, "deleteAged", writer[w].limit, {e \in Unpinned : e <= aged}, 0)
  /\ UNCHANGED <<history, pinned, added, aged, settings, touched, apart>>

DeleteAged(w) ==
  /\ writer[w].pc = "deleteAged"
  /\ Remove(writer[w].victims)
  /\ Go(w, "count", writer[w].limit, {}, 0)
  /\ UNCHANGED <<added, aged, settings, touched, apart>>

CountEntries(w) ==
  /\ writer[w].pc = "count"
  /\ LET count == Cardinality(history)
     IN  IF count > writer[w].limit
           THEN Go(w, "oldest", writer[w].limit, {}, count - writer[w].limit)
           ELSE Rest(w)
  /\ UNCHANGED <<history, pinned, added, aged, settings, touched, apart>>

PickOldest(w) ==
  /\ writer[w].pc = "oldest"
  /\ Go(w, "delete", writer[w].limit, Oldest(Unpinned, writer[w].excess), writer[w].excess)
  /\ UNCHANGED <<history, pinned, added, aged, settings, touched, apart>>

DeleteOldest(w) ==
  /\ writer[w].pc = "delete"
  /\ Remove(writer[w].victims)
  /\ Rest(w)
  /\ UNCHANGED <<added, aged, settings, touched, apart>>

-----------------------------------------------------------------------------
(* What the user does in the history panel and in the settings.            *)

User == apart' = (apart /\ Quiet) /\ UNCHANGED <<added, aged, writer>>

pinHistoryEntry(e) ==
  /\ e \in history
  /\ pinned' = IF e \in pinned THEN pinned \ {e} ELSE pinned \union {e}
  /\ touched' = touched \union {e}
  /\ User /\ UNCHANGED <<history, settings>>

clearHistory == Remove(Unpinned) /\ User /\ UNCHANGED <<settings, touched>>

deleteHistoryEntries(ids) ==
  /\ ids # {} /\ Remove(ids) /\ User /\ UNCHANGED <<settings, touched>>

setRetentionSettings(s) ==
  /\ s # settings
  /\ settings' = s
  /\ User /\ UNCHANGED <<history, pinned, touched>>

TimePasses ==
  /\ aged < added
  /\ aged' = aged + 1
  /\ UNCHANGED <<history, pinned, added, settings, writer, touched, apart>>

HistoryNext ==
  \/ \E w \in Writers :
       \/ addHistory(w) \/ ReadSettings(w) \/ PickAged(w) \/ DeleteAged(w)
       \/ CountEntries(w) \/ PickOldest(w) \/ DeleteOldest(w)
  \/ \E e \in history : pinHistoryEntry(e)
  \/ clearHistory
  \/ \E e \in history : deleteHistoryEntries({e})
  \/ \E s \in [max : Limits, days : BOOLEAN] : setRetentionSettings(s)
  \/ TimePasses

HistorySpec == HistoryInit /\ [][HistoryNext]_historyVars

-----------------------------------------------------------------------------

HistoryTypeOK ==
  /\ history \subseteq 1..added /\ pinned \subseteq history /\ touched \subseteq 1..added
  /\ added \in 0..HistoryMax /\ aged \in 0..added
  /\ settings \in [max : Limits, days : BOOLEAN]
  /\ \A w \in Writers : writer[w].victims \subseteq 1..added

\* However adds, retention, pins and settings interleave, the table holds at
\* most the limit, one entry for each add whose retention is under way, and
\* entries the user pinned at some time (addHistory, applyRetention).
HistoryBounded ==
  Cardinality(history) <= MostKept
                          + Cardinality({w \in Writers : AtWork(w)})
                          + Cardinality(history \cap touched)

\* While nothing overlaps, trimming by count deletes no more than the excess
\* and only entries older than every unpinned one it keeps (applyRetention).
TrimsOldestOnly ==
  [][\A w \in Writers :
       (apart /\ writer[w].pc = "delete" /\ writer'[w] # writer[w]) =>
         /\ Cardinality(history') >= writer[w].limit
         /\ \A e \in history \ history', k \in history' \ pinned : e < k]_historyVars

-----------------------------------------------------------------------------
(***************************************************************************)
(* The cookie jar of the local database, from the upgrade of a version 6   *)
(* database, whose index allowed duplicates, to what executions, the cookie *)
(* manager and the settings panel of several tabs do with it.  A key       *)
(* stands for domain, path and name; upsertCookie is one transaction.      *)
(***************************************************************************)
CONSTANTS
  CookieIds,   \* ids of stored cookies
  Keys,        \* (domain, path, name) triples
  DomainOf,    \* the domain of a key
  Managers     \* cookie managers open, one per tab

\* A table has finitely many rows.
ASSUME CookieAssumption == IsFiniteSet(CookieIds)

VARIABLES
  version,     \* the schema version the database was upgraded to
  jar,         \* the cookies table: id -> its key and a version of its value
  drawn,       \* ids that were given out
  staged,      \* per manager, the deletes that are staged
  saving       \* per manager, the cookies its save has still to delete

cookieVars == <<version, jar, drawn, staged, saving>>

Cookie == [key : Keys, value : {"old", "new"}]

WithKey(k) == {i \in DOMAIN jar : jar[i].key = k}
Stow(i, c) == [j \in DOMAIN jar \union {i} |-> IF j = i THEN c ELSE jar[j]]
Without(ids) == [j \in DOMAIN jar \ ids |-> jar[j]]

\* Version 6 indexed the key without making it unique.
CookieInit ==
  /\ version = 6
  /\ jar \in UNION {[I -> [key : Keys, value : {"old"}]] : I \in SUBSET CookieIds}
  /\ drawn = DOMAIN jar
  /\ staged = [m \in Managers |-> {}] /\ saving = [m \in Managers |-> {}]

\* The first cookie of each key in the table's order is kept.
dedupe ==
  {[j \in DOMAIN jar \ gone |-> jar[j]] :
     gone \in {G \in SUBSET DOMAIN jar :
       \A k \in Keys : Cardinality(WithKey(k) \ G) =
                         IF WithKey(k) = {} THEN 0 ELSE 1}}

upgradeTo7 ==
  /\ version = 6
  /\ version' = 7
  /\ jar' \in dedupe
  /\ UNCHANGED <<drawn, staged, saving>>

\* The unique index; building it fails while a key occurs twice.
upgradeTo8 ==
  /\ version = 7
  /\ \A k \in Keys : Cardinality(WithKey(k)) <= 1
  /\ version' = 8
  /\ UNCHANGED <<jar, drawn, staged, saving>>

Upgraded == version = 8

\* A cookie of a response or of the form: it replaces the stored one, under
\* the id that one has.
upsertCookie(i, k) ==
  /\ Upgraded /\ i \notin drawn
  /\ drawn' = drawn \union {i}
  /\ \E keep \in IF WithKey(k) = {} THEN {i} ELSE WithKey(k) :
       jar' = [j \in (DOMAIN jar \ WithKey(k)) \union {keep} |->
                 IF j = keep THEN [key |-> k, value |-> "new"] ELSE jar[j]]
  /\ UNCHANGED <<version, staged, saving>>

\* A put under an id with another cookie's key violates the index: it fails.
updateCookie(i, k) ==
  /\ Upgraded /\ i \in DOMAIN jar
  /\ WithKey(k) \subseteq {i}
  /\ jar' = Stow(i, [key |-> k, value |-> "new"])
  /\ UNCHANGED <<version, drawn, staged, saving>>

clearCookies(domains) ==
  /\ Upgraded
  /\ jar' = Without({i \in DOMAIN jar : DomainOf[jar[i].key] \in domains})
  /\ UNCHANGED <<version, drawn, staged, saving>>

stageDelete(m, ids) ==
  /\ Upgraded /\ ids # {}
  /\ staged' = [staged EXCEPT ![m] = @ \union ids]
  /\ UNCHANGED <<version, jar, drawn, saving>>

cancelChanges(m) ==
  /\ staged[m] # {}
  /\ staged' = [staged EXCEPT ![m] = {}]
  /\ UNCHANGED <<version, jar, drawn, saving>>

\* The loop runs over the ids staged when it began, whatever is staged or
\* cancelled meanwhile, and then empties the stage.
saveChanges(m) ==
  /\ staged[m] # {} /\ saving[m] = {}
  /\ saving' = [saving EXCEPT ![m] = staged[m]]
  /\ UNCHANGED <<version, jar, drawn, staged>>

deleteCookie(m, i) ==
  /\ i \in saving[m]
  /\ jar' = Without({i})
  /\ saving' = [saving EXCEPT ![m] = @ \ {i}]
  /\ staged' = IF saving'[m] = {} THEN [staged EXCEPT ![m] = {}] ELSE staged
  /\ UNCHANGED <<version, drawn>>

CookieNext ==
  \/ upgradeTo7 \/ upgradeTo8
  \/ \E i \in CookieIds, k \in Keys : upsertCookie(i, k) \/ updateCookie(i, k)
  \/ \E D \in SUBSET {DomainOf[k] : k \in Keys} : D # {} /\ clearCookies(D)
  \/ \E m \in Managers :
       \/ \E k \in Keys : stageDelete(m, {i \in DOMAIN jar : DomainOf[jar[i].key] = DomainOf[k]})
       \/ \E i \in CookieIds : deleteCookie(m, i) \/ (i \in DOMAIN jar /\ stageDelete(m, {i}))
       \/ cancelChanges(m) \/ saveChanges(m)

CookieSpec == CookieInit /\ [][CookieNext]_cookieVars

-----------------------------------------------------------------------------

CookieTypeOK ==
  /\ version \in 6..8
  /\ DOMAIN jar \subseteq drawn /\ (\A i \in DOMAIN jar : jar[i] \in Cookie) /\ drawn \subseteq CookieIds
  /\ staged \in [Managers -> SUBSET CookieIds]
  /\ saving \in [Managers -> SUBSET CookieIds]

\* From version 7 on a key is never stored twice, whichever executions and
\* managers write at the same time: the unique index of version 8 can be
\* built on whatever duplicates a version 6 database held, and stays true
\* (db.ts upgrades, upsertCookie, updateCookie).
OneCookiePerKey == version >= 7 => \A k \in Keys : Cardinality(WithKey(k)) <= 1

-----------------------------------------------------------------------------
(***************************************************************************)
(* The environments table and the id of the active environment, which each *)
(* tab loads once when it boots and writes back, through an effect, every  *)
(* time its own copy changes - the first time with the empty copy it       *)
(* starts with.  Calls of one tab reach the database in the order they are *)
(* made; calls of two tabs interleave, and a tab may be closed any time.   *)
(* The response examples, one stored list that is read, changed and put    *)
(* back, are here too.                                                     *)
(***************************************************************************)
CONSTANTS
  Pages,     \* browser tabs
  Envs,     \* environment ids
  NoEnv,    \* undefined
  MaxCalls, \* bound: calls of one tab under way at a time
  Examples  \* ids of response examples

ASSUME EnvironmentAssumption == NoEnv \notin Envs /\ MaxCalls \in Nat

VARIABLES
  environments, \* the environments table
  activeMeta,   \* what the meta table holds under activeEnvironment
  tab,          \* per tab: open?, its activeEnvironmentId, its calls under way
  examples,     \* what the meta table holds under responseExamples
  example,      \* per tab: the list it read, with its change, to be put back
  wanted,       \* auxiliary: the examples saved and not deleted
  chosen,       \* auxiliary: the environment the user last chose to be active
  alone,        \* auxiliary: one tab at a time, and one operation in it
  cut           \* auxiliary: a tab was closed with calls under way

environmentVars == <<environments, activeMeta, tab, examples, example, wanted,
                     chosen, alone, cut>>

Closed == [open |-> FALSE, active |-> NoEnv, calls |-> <<>>]
NoChange == [pc |-> "idle", list |-> {}]
EnvCall(kind, env) == [kind |-> kind, env |-> env]

EnvironmentInit ==
  /\ environments \in SUBSET Envs
  /\ activeMeta \in environments \union {NoEnv}
  /\ tab = [t \in Pages |-> Closed]
  /\ examples = {} /\ wanted = {}
  /\ example = [t \in Pages |-> NoChange]
  /\ chosen = activeMeta /\ alone = TRUE /\ cut = FALSE

Busy(t) == tab[t].calls # <<>> \/ example[t].pc # "idle"
OthersIdle(t) == \A u \in Pages \ {t} : ~tab[u].open

\* Mutant: the copy is persisted before the stored id is read.
OpenTab_PersistFirst(t) ==
  /\ ~tab[t].open
  /\ tab' = [tab EXCEPT ![t] = [open |-> TRUE, active |-> NoEnv,
       calls |-> <<EnvCall("setActive", NoEnv), EnvCall("load", NoEnv)>>]]
  /\ alone' = (alone /\ OthersIdle(t))
  /\ UNCHANGED <<environments, activeMeta, examples, example, wanted, chosen, cut>>

\* Both hooks' effects run at the first render: bootstrap reads the stored
\* id, then the persistence hook stores the still empty copy.
OpenTab(t) ==
  /\ ~tab[t].open
  /\ tab' = [tab EXCEPT ![t] = [open |-> TRUE, active |-> NoEnv,
       calls |-> <<EnvCall("load", NoEnv), EnvCall("setActive", NoEnv)>>]]
  /\ alone' = (alone /\ OthersIdle(t))
  /\ UNCHANGED <<environments, activeMeta, examples, example, wanted, chosen, cut>>

\* The tab is closed or reloaded: what it has under way is not continued.
CloseTab(t) ==
  /\ tab[t].open
  /\ tab' = [tab EXCEPT ![t] = Closed]
  /\ example' = [example EXCEPT ![t] = NoChange]
  /\ cut' = (cut \/ Busy(t))
  /\ UNCHANGED <<environments, activeMeta, examples, wanted, chosen, alone>>

\* The copy changes, and the effect stores it.
SetCopy(t, e, rest) ==
  tab' = [tab EXCEPT ![t] =
            [open |-> tab[t].open, active |-> e,
             calls |-> rest \o (IF e = tab[t].active THEN <<>>
                                ELSE <<EnvCall("setActive", e)>>)]]

SelectEnvironment(t, e) ==
  /\ tab[t].open /\ e \in environments \union {NoEnv} /\ e # tab[t].active
  /\ Len(tab[t].calls) < MaxCalls
  /\ SetCopy(t, e, tab[t].calls)
  /\ chosen' = e
  /\ alone' = (alone /\ ~Busy(t))
  /\ UNCHANGED <<environments, activeMeta, examples, example, wanted, cut>>

\* Saving puts the draft: an environment deleted meanwhile comes back.
saveEnvironment(t, e) ==
  /\ tab[t].open /\ tab[t].calls = <<>>
  /\ environments' = environments \union {e}
  /\ UNCHANGED <<activeMeta, tab, examples, example, wanted, chosen, alone, cut>>

\* The tab drops its copy afterwards if it was e when the user clicked.
deleteEnvironment(t, e) ==
  /\ tab[t].open /\ tab[t].calls = <<>> /\ e \in environments
  /\ tab' = [tab EXCEPT ![t].calls =
       <<EnvCall("delete", e), EnvCall("getActive", e)>>
       \o (IF tab[t].active = e THEN <<EnvCall("forget", e)>> ELSE <<>>)]
  /\ chosen' = IF chosen = e THEN NoEnv ELSE chosen
  /\ UNCHANGED <<environments, activeMeta, examples, example, wanted, alone, cut>>

\* The stored id is read after the delete, and cleared when it is e.
ClearActive(e) == IF activeMeta = e THEN <<EnvCall("setActive", NoEnv)>> ELSE <<>>

EnvCallReturns(t) ==
  /\ tab[t].calls # <<>>
  /\ LET call == Head(tab[t].calls)
         rest == Tail(tab[t].calls)
     IN  \/ /\ call.kind = "load"
            /\ SetCopy(t, activeMeta, rest)
            /\ UNCHANGED <<environments, activeMeta>>
         \/ /\ call.kind = "setActive"
            /\ activeMeta' = call.env
            /\ tab' = [tab EXCEPT ![t].calls = rest]
            /\ UNCHANGED environments
         \/ /\ call.kind = "delete"
            /\ environments' = environments \ {call.env}
            /\ tab' = [tab EXCEPT ![t].calls = rest]
            /\ UNCHANGED activeMeta
         \/ /\ call.kind = "getActive"
            /\ tab' = [tab EXCEPT ![t].calls = ClearActive(call.env) \o rest]
            /\ UNCHANGED <<environments, activeMeta>>
         \/ /\ call.kind = "forget"
            /\ SetCopy(t, NoEnv, rest)
            /\ UNCHANGED <<environments, activeMeta>>
  /\ UNCHANGED <<examples, example, wanted, chosen, alone, cut>>

-----------------------------------------------------------------------------
(* saveResponseExample and deleteResponseExample: read, change, put back.  *)

ChangeExample(t, x) ==
  /\ tab[t].open /\ example[t].pc = "idle"
  /\ example' = [example EXCEPT ![t] = [pc |-> "put",
       list |-> IF x \in wanted THEN examples \ {x} ELSE examples \union {x}]]
  /\ wanted' = IF x \in wanted THEN wanted \ {x} ELSE wanted \union {x}
  /\ UNCHANGED <<environments, activeMeta, tab, examples, chosen, alone, cut>>

PutExamples(t) ==
  /\ example[t].pc = "put"
  /\ examples' = example[t].list
  /\ example' = [example EXCEPT ![t] = NoChange]
  /\ UNCHANGED <<environments, activeMeta, tab, wanted, chosen, alone, cut>>

TabNext == \E t \in Pages : OpenTab(t) \/ CloseTab(t)
EnvironmentNext ==
  \E t \in Pages :
    \/ EnvCallReturns(t)
    \/ \E e \in Envs \union {NoEnv} : SelectEnvironment(t, e)
    \/ \E e \in Envs : saveEnvironment(t, e) \/ deleteEnvironment(t, e)
ExampleNext ==
  \E t \in Pages : PutExamples(t) \/ \E x \in Examples : ChangeExample(t, x)
PagesNext == TabNext \/ EnvironmentNext \/ ExampleNext

EnvironmentSpec == EnvironmentInit /\ [][PagesNext]_environmentVars

-----------------------------------------------------------------------------

EnvironmentTypeOK ==
  /\ environments \subseteq Envs /\ activeMeta \in Envs \union {NoEnv}
  /\ \A t \in Pages : tab[t].open \in BOOLEAN /\ tab[t].active \in Envs \union {NoEnv}
  /\ examples \subseteq Examples /\ wanted \subseteq Examples

\* With one tab at a time and none closed in the middle of a write, a tab at
\* rest and the store both hold the environment chosen last, and it exists:
\* booting does not lose the choice although it first stores the empty copy,
\* and deleting the active environment clears it in both places
\* (useAppBootstrap, useActiveEnvironmentPersistence, deleteEnvironment).
ActiveIsRemembered ==
  alone /\ ~cut =>
    \A t \in Pages : tab[t].open /\ tab[t].calls = <<>> =>
      /\ tab[t].active = chosen /\ activeMeta = chosen
      /\ chosen \in environments \union {NoEnv}

\* With one tab at a time, no saved response example is lost and no deleted
\* one comes back (saveResponseExample, deleteResponseExample).
ExamplesKept ==
  alone /\ ~cut /\ (\A t \in Pages : example[t].pc = "idle") => examples = wanted
=============================================================================
