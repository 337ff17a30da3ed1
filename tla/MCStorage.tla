------------------------------ MODULE MCStorage ------------------------------
(***************************************************************************)
(* The local database, checked table by table: a behaviour is about the    *)
(* tables of one area.  The areas share no state, so nothing is lost, and  *)
(* the state spaces add up instead of multiplying.                         *)
(***************************************************************************)
EXTENDS CollectionTree, StorageTables, TLC

CONSTANTS c1, c2, f1, f2, r1, r2, k1, k2, k3

VARIABLE area

MCStored == [collections |-> {c1},
             folders |-> f1 :> [col |-> c1, parent |-> None],
             requests |-> r1 :> [col |-> c1, folder |-> f1]]
\* Two folders that name each other as parent, the first before the second.
MCFiles == {[folders |-> <<[id |-> f1, parent |-> f2], [id |-> f2, parent |-> f1]>>,
             folder |-> f1]}
MCDomainOf == k1 :> "a.test" @@ k2 :> "a.test" @@ k3 :> "b.test"

Symmetry == Permutations(Tabs) \union Permutations(Writers)

Areas == {"tree", "history", "cookies", "environments", "examples"}

Init ==
  /\ area \in Areas
  /\ TreeInit /\ HistoryInit /\ CookieInit /\ EnvironmentInit
  /\ area # "history" => settings = [max |-> 0, days |-> FALSE]
  /\ area # "cookies" => jar = <<>>
  /\ area # "environments" => environments = {}

Only(name, next, unchanged) == area = name /\ next /\ unchanged /\ UNCHANGED area

Next ==
  \/ Only("tree", TreeNext, UNCHANGED <<historyVars, cookieVars, environmentVars>>)
  \/ Only("history", HistoryNext, UNCHANGED <<treeVars, cookieVars, environmentVars>>)
  \/ Only("cookies", CookieNext, UNCHANGED <<treeVars, historyVars, environmentVars>>)
  \/ Only("environments", TabNext \/ EnvironmentNext,
          UNCHANGED <<treeVars, historyVars, cookieVars>>)
  \/ Only("examples", TabNext \/ ExampleNext,
          UNCHANGED <<treeVars, historyVars, cookieVars>>)

vars == <<treeVars, historyVars, cookieVars, environmentVars, area>>

Spec == Init /\ [][Next]_vars

\* The other tables keep their promises: however writers interleave the history
\* stays within its limit and a cookie has one row, and with one tab at a time
\* the active environment is remembered and no saved example is lost.
TablesAreSound ==
  /\ HistoryTypeOK /\ CookieTypeOK /\ EnvironmentTypeOK
  /\ HistoryBounded /\ OneCookiePerKey /\ ActiveIsRemembered /\ ExamplesKept

\* A deletion removes what it is meant to remove: a folder goes with all that
\* is below it, and trimming the history takes the oldest entries only.
DeletesWhatItMust == DeleteReachesAll /\ TrimsOldestOnly
=============================================================================
