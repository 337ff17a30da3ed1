---------------------------- MODULE StorageProofs ----------------------------
(***************************************************************************)
(* Proofs about the local database: the tree of collections that the tabs  *)
(* share, for any numbers of tabs, collections, folders, requests and      *)
(* files, and any number of operations; the cookie jar, for any number of  *)
(* cookies, keys and managers; the history, for any number of writers and  *)
(* any limits; and the environments and response examples of any tabs.     *)
(***************************************************************************)
EXTENDS MCStorage, FiniteSetTheorems, SequenceTheorems, WellFoundedInduction, TLAPS

-----------------------------------------------------------------------------
(* What the tables, the backup and the calls under way are.                *)

\* A parent that the tables or a file gave to the folder.
Nests(f, p) == p = None \/ <<f, p>> \in Nested

NestedTable == {fs \in FolderTable : \A f \in DOMAIN fs : Nests(f, fs[f].parent)}
Backups == [collections : SUBSET Cols, folders : NestedTable, requests : RequestTable]

FolderCalls == {c \in [kind : {"createFolder", "updateFolder"}, id : Folds, arg : FolderRec] :
                  Nests(c.id, c.arg.parent)}
BulkCalls == {c \in [kind : {"bulkPut"}, id : {"collections", "folders", "requests"},
                     arg : (SUBSET Cols) \union NestedTable \union RequestTable] :
                /\ c.id = "collections" => c.arg \in SUBSET Cols
                /\ c.id = "folders" => c.arg \in NestedTable
                /\ c.id = "requests" => c.arg \in RequestTable}
OtherCalls == [kind : {"putCollection", "deleteCollection"}, id : Cols, arg : {None}]
              \union [kind : {"deleteFolder"}, id : Folds, arg : {None}]
              \union [kind : {"saveRequest"}, id : Reqs, arg : RequestRec]
              \union [kind : {"deleteRequest"}, id : Reqs, arg : {None}]
              \union [kind : {"moveRequest"}, id : Reqs, arg : Folds \union {None}]
              \union [kind : {"listRequests"}, id : {None}, arg : SUBSET Cols]
              \union [kind : {"set"}, id : {None}, arg : SUBSET Reqs]
              \union [kind : {"export"}, id : {None}, arg : {"collections", "folders", "requests"}]
Calls == FolderCalls \union BulkCalls \union OtherCalls

TreeTypes ==
  /\ TreeTypeOK /\ folders \in NestedTable
  /\ backup \in Backups
  /\ op \in [Tabs -> Seq(Calls)]

-----------------------------------------------------------------------------
(* What an operation under way still finds, as long as no other overlaps.  *)

\* The collection and the folder that call i refers to are there, or an earlier
\* call of the operation puts them there.
Provided(cols, fs, calls, i, c, f) ==
  /\ c \in cols \/ \E j \in 1..(i - 1) : calls[j].kind = "putCollection" /\ calls[j].id = c
  /\ Holds(fs, f, c) \/ \E j \in 1..(i - 1) :
       calls[j].kind = "createFolder" /\ calls[j].id = f /\ calls[j].arg.col = c

Single(calls, i) == i = 1 /\ Len(calls) = 1
Deletes == {"deleteCollection", "deleteFolder", "deleteRequest"}

\* A call fits the tables: what it saves has its place, what it puts back is
\* what is there, and after a deletion nothing more is written.
CallFits(cols, fs, rs, calls, i) ==
  LET call == calls[i]
  IN  /\ call.kind # "bulkPut"
      /\ call.kind = "createFolder" => Provided(cols, fs, calls, i, call.arg.col, call.arg.parent)
      /\ call.kind = "saveRequest" => Provided(cols, fs, calls, i, call.arg.col, call.arg.folder)
      /\ call.kind = "updateFolder" =>
           Single(calls, i) /\ call.id \in DOMAIN fs /\ call.arg = fs[call.id]
      /\ call.kind = "moveRequest" =>
           Single(calls, i) /\ call.id \in DOMAIN rs /\ Holds(fs, call.arg, rs[call.id].col)
      /\ call.kind \in Deletes =>
           i = 1 /\ \A j \in 2..Len(calls) : calls[j].kind \in {"set", "listRequests"}

Fits(cols, fs, rs, calls) == \A i \in 1..Len(calls) : CallFits(cols, fs, rs, calls, i)

TreeOrder ==
  orderly =>
    /\ Intact(collections, folders, requests)
    /\ \A t \in Tabs : Fits(collections, folders, requests, op[t])
    /\ \A t, u \in Tabs : op[t] # <<>> /\ op[u] # <<>> => t = u

TreeInv == TreeTypes /\ TreeOrder

-----------------------------------------------------------------------------
(* Lemmas about the tables.                                                *)

LEMMA FolderTables ==
  ASSUME NEW fs
  PROVE  fs \in NestedTable <=>
           /\ fs \in [DOMAIN fs -> FolderRec] /\ DOMAIN fs \subseteq Folds
           /\ \A f \in DOMAIN fs : Nests(f, fs[f].parent)
BY DEF NestedTable, FolderTable

LEMMA RequestTables ==
  ASSUME NEW rs
  PROVE  rs \in RequestTable <=> rs \in [DOMAIN rs -> RequestRec] /\ DOMAIN rs \subseteq Reqs
BY DEF RequestTable

LEMMA PutFolders ==
  ASSUME NEW fs \in NestedTable, NEW f \in Folds, NEW rec \in FolderRec, Nests(f, rec.parent)
  PROVE  Put(fs, f, rec) \in NestedTable
BY FolderTables DEF Put

LEMMA DropFolders ==
  ASSUME NEW fs \in NestedTable, NEW ids
  PROVE  Drop(fs, ids) \in NestedTable
BY FolderTables DEF Drop

LEMMA BulkPutFolders ==
  ASSUME NEW fs \in NestedTable, NEW rows \in NestedTable
  PROVE  BulkPut(fs, rows) \in NestedTable
BY FolderTables DEF BulkPut

LEMMA PutRequests ==
  ASSUME NEW rs \in RequestTable, NEW r \in Reqs, NEW rec \in RequestRec
  PROVE  Put(rs, r, rec) \in RequestTable
BY RequestTables DEF Put

LEMMA DropRequests ==
  ASSUME NEW rs \in RequestTable, NEW ids
  PROVE  Drop(rs, ids) \in RequestTable
BY RequestTables DEF Drop

LEMMA BulkPutRequests ==
  ASSUME NEW rs \in RequestTable, NEW rows \in RequestTable
  PROVE  BulkPut(rs, rows) \in RequestTable
BY RequestTables DEF BulkPut

\* The folders that are deleted with root: root, and the folders in them.
LEMMA FoldersBelow ==
  ASSUME NEW fs, NEW root
  PROVE  LET ids == collectFolderIds(fs, root)
         IN  root \in ids /\ \A g \in DOMAIN fs : fs[g].parent \in ids => g \in ids
BY DEF collectFolderIds

\* No folder of a table is below itself.
LEMMA NestedHasNoCycle ==
  ASSUME NEW fs \in NestedTable
  PROVE  \A S \in SUBSET DOMAIN fs : S # {} => \E f \in S : fs[f].parent \notin S
<1> SUFFICES ASSUME NEW S \in SUBSET DOMAIN fs, S # {}
             PROVE  \E f \in S : fs[f].parent \notin S
  OBVIOUS
<1>1. S \in SUBSET Folds /\ None \notin S
  BY FolderTables, TreeAssumption
<1>2. PICK f \in S : \A p \in S : <<f, p>> \notin Nested
  BY <1>1, TreeAssumption
<1>3. Nests(f, fs[f].parent)
  BY FolderTables
<1> QED
  BY <1>1, <1>2, <1>3 DEF Nests

-----------------------------------------------------------------------------
(* Lemmas about the calls of an operation.                                 *)

\* When a call that deletes nothing was made, what the operation has provided
\* so far is still there, and the rest of its calls fit.
LEMMA RestFits ==
  ASSUME NEW cols, NEW fs, NEW rs, NEW calls \in Seq(Calls), calls # <<>>,
         Fits(cols, fs, rs, calls), Head(calls).kind \notin Deletes,
         NEW cols2, NEW fs2, NEW rs2, cols \subseteq cols2,
         \A f, c : Holds(fs, f, c) => Holds(fs2, f, c),
         Head(calls).kind = "putCollection" => Head(calls).id \in cols2,
         Head(calls).kind = "createFolder" => Holds(fs2, Head(calls).id, Head(calls).arg.col)
  PROVE  Fits(cols2, fs2, rs2, Tail(calls))
<1>1. /\ Len(calls) \in Nat \ {0} /\ Head(calls) = calls[1]
      /\ Len(Tail(calls)) = Len(calls) - 1
      /\ \A i \in 1..Len(Tail(calls)) : Tail(calls)[i] = calls[i + 1]
  OBVIOUS
<1>2. SUFFICES ASSUME NEW i \in 1..Len(Tail(calls))
               PROVE  CallFits(cols2, fs2, rs2, Tail(calls), i)
  BY DEF Fits
<1>3. /\ i + 1 \in 1..Len(calls) /\ i + 1 # 1 /\ Tail(calls)[i] = calls[i + 1]
      /\ CallFits(cols, fs, rs, calls, i + 1)
  BY <1>1 DEF Fits
<1>4. ASSUME NEW c, NEW f, Provided(cols, fs, calls, i + 1, c, f)
      PROVE  Provided(cols2, fs2, Tail(calls), i, c, f)
  <2>1. \A j \in 1..i : j = 1 \/ (j - 1 \in 1..(i - 1) /\ calls[j] = Tail(calls)[j - 1])
    BY <1>1
  <2>2. c \in cols2 \/ \E j \in 1..(i - 1) :
          Tail(calls)[j].kind = "putCollection" /\ Tail(calls)[j].id = c
    BY <1>1, <1>4, <2>1 DEF Provided
  <2>3. Holds(fs2, f, c) \/ \E j \in 1..(i - 1) :
          Tail(calls)[j].kind = "createFolder" /\ Tail(calls)[j].id = f
            /\ Tail(calls)[j].arg.col = c
    <3>1. CASE Holds(fs, f, c)
      BY <3>1
    <3>2. CASE \E j \in 1..((i + 1) - 1) :
                 calls[j].kind = "createFolder" /\ calls[j].id = f /\ calls[j].arg.col = c
      <4>1. PICK j \in 1..i :
              calls[j].kind = "createFolder" /\ calls[j].id = f /\ calls[j].arg.col = c
        BY <3>2
      <4>2. CASE j = 1
        BY <1>1, <4>1, <4>2
      <4>3. CASE j # 1
        BY <2>1, <4>1, <4>3
      <4> QED
        BY <4>2, <4>3
    <3> QED
      BY <1>4, <3>1, <3>2 DEF Provided
  <2> QED
    BY <2>2, <2>3 DEF Provided
<1> QED
  BY <1>1, <1>3, <1>4 DEF CallFits, Single

\* After a deletion the operation only overwrites its tab's list.
LEMMA RestOfDelete ==
  ASSUME NEW cols, NEW fs, NEW rs, NEW calls \in Seq(Calls), calls # <<>>,
         Fits(cols, fs, rs, calls), Head(calls).kind \in Deletes, NEW cols2, NEW fs2, NEW rs2
  PROVE  Fits(cols2, fs2, rs2, Tail(calls))
<1>1. /\ Len(calls) \in Nat \ {0} /\ Head(calls) = calls[1]
      /\ Len(Tail(calls)) = Len(calls) - 1
      /\ \A i \in 1..Len(Tail(calls)) : Tail(calls)[i] = calls[i + 1]
  OBVIOUS
<1>2. \A j \in 2..Len(calls) : calls[j].kind \in {"set", "listRequests"}
  BY <1>1 DEF Fits, CallFits
<1>3. \A i \in 1..Len(Tail(calls)) : Tail(calls)[i].kind \in {"set", "listRequests"}
  BY <1>1, <1>2
<1> QED
  BY <1>3 DEF Fits, CallFits, Deletes

LEMMA NothingFits == \A cols, fs, rs : Fits(cols, fs, rs, <<>>)
BY DEF Fits

\* A call that one may make first fits if it fits alone.
LEMMA FirstFits ==
  ASSUME NEW cols, NEW fs, NEW rs, NEW calls \in Seq(Calls), calls # <<>>,
         Fits(cols, fs, rs, calls)
  PROVE  /\ CallFits(cols, fs, rs, calls, 1) /\ Head(calls) = calls[1] /\ Head(calls) \in Calls
         /\ Tail(calls) \in Seq(Calls)
         /\ \A c, f : Provided(cols, fs, calls, 1, c, f) => c \in cols /\ Holds(fs, f, c)
BY DEF Fits, Provided

-----------------------------------------------------------------------------
(* A call is made, by an operation that no other overlaps.                 *)

LEMMA PutKeepsIntact ==
  ASSUME NEW cols, NEW fs, NEW rs, Intact(cols, fs, rs), NEW id, NEW rec
  PROVE  /\ rec.col \in cols /\ Holds(fs, rec.parent, rec.col) /\ id \notin DOMAIN fs
              => /\ Intact(cols, Put(fs, id, rec), rs) /\ Holds(Put(fs, id, rec), id, rec.col)
                 /\ \A f, c : Holds(fs, f, c) => Holds(Put(fs, id, rec), f, c)
         /\ id \in DOMAIN fs /\ rec = fs[id]
              => /\ Intact(cols, Put(fs, id, rec), rs)
                 /\ \A f, c : Holds(fs, f, c) => Holds(Put(fs, id, rec), f, c)
         /\ rec.col \in cols /\ Holds(fs, rec.folder, rec.col) => Intact(cols, fs, Put(rs, id, rec))
BY DEF Intact, Holds, Put

LEMMA CollectionDropped ==
  ASSUME NEW cols, NEW fs, NEW rs, Intact(cols, fs, rs), NEW id, NEW fids, NEW rids,
         fids = {f \in DOMAIN fs : fs[f].col = id}, rids = {r \in DOMAIN rs : rs[r].col = id}
  PROVE  Intact(cols \ {id}, Drop(fs, fids), Drop(rs, rids))
BY DEF Intact, Holds, Drop

LEMMA FolderDropped ==
  ASSUME NEW cols, NEW fs, NEW rs, Intact(cols, fs, rs), NEW id, NEW ids,
         ids = collectFolderIds(fs, id)
  PROVE  Intact(cols, Drop(fs, ids), Drop(rs, {r \in DOMAIN rs : rs[r].folder \in ids}))
BY FoldersBelow DEF Intact, Holds, Drop

LEMMA RequestDropped ==
  ASSUME NEW cols, NEW fs, NEW rs, Intact(cols, fs, rs), NEW id
  PROVE  Intact(cols, fs, Drop(rs, {id}))
BY DEF Intact, Drop

-----------------------------------------------------------------------------
(* A call is made: the types.                                              *)

LEMMA CallKinds ==
  ASSUME NEW c \in Calls
  PROVE  /\ c.kind \in {"putCollection", "deleteCollection"} => c.id \in Cols
         /\ c.kind \in {"createFolder", "updateFolder"} =>
              c.id \in Folds /\ c.arg \in FolderRec /\ Nests(c.id, c.arg.parent)
         /\ c.kind = "saveRequest" => c.id \in Reqs /\ c.arg \in RequestRec
         /\ c.kind = "moveRequest" => c.id \in Reqs /\ c.arg \in Folds \union {None}
         /\ c.kind = "set" => c.arg \subseteq Reqs
         /\ c.kind = "export" => c.arg \in {"collections", "folders", "requests"}
         /\ c.kind = "bulkPut" =>
              /\ c.id = "collections" => c.arg \subseteq Cols
              /\ c.id = "folders" => c.arg \in NestedTable
              /\ c.id = "requests" => c.arg \in RequestTable
BY DEF Calls, FolderCalls, BulkCalls, OtherCalls

LEMMA CallTypes ==
  ASSUME TreeTypes, NEW t \in Tabs, CallReturns(t)
  PROVE  TreeTypes'
<1> DEFINE call == Head(op[t])
<1>1. /\ op \in [Tabs -> Seq(Calls)] /\ op[t] \in Seq(Calls) /\ op[t] # <<>>
      /\ call \in Calls /\ Tail(op[t]) \in Seq(Calls)
  BY DEF TreeTypes, CallReturns
<1>2. /\ collections \subseteq Cols /\ folders \in NestedTable /\ requests \in RequestTable
      /\ used \subseteq Cols \union Folds \union Reqs
      /\ listed \in [Tabs -> SUBSET Reqs] /\ pending \in [Tabs -> BOOLEAN]
      /\ orderly \in BOOLEAN /\ started \in 0..MaxOps
      /\ backup \in Backups
  BY DEF TreeTypes, TreeTypeOK
<1> DEFINE Types == /\ collections' \subseteq Cols /\ folders' \in NestedTable
                    /\ requests' \in RequestTable /\ backup' \in Backups
                    /\ listed' \in [Tabs -> SUBSET Reqs] /\ pending' \in [Tabs -> BOOLEAN]
                    /\ op' \in [Tabs -> Seq(Calls)]
<1>3. used' = used /\ started' = started /\ orderly' = orderly
  BY DEF CallReturns
<1>4. ASSUME NEW rest \in Seq(Calls), Continue(t, rest)
      PROVE  op' \in [Tabs -> Seq(Calls)]
  BY <1>1, <1>4 DEF Continue
<1>5. <<>> \in Seq(Calls)
  OBVIOUS
<1>6. Written => pending' \in [Tabs -> BOOLEAN]
  BY DEF Written
<1> SUFFICES Types
  BY <1>2, <1>3 DEF TreeTypes, TreeTypeOK, NestedTable
<1> HIDE DEF call
<1>7. CASE exportTable(t, call)
  <2>1. [collections |-> collections, folders |-> folders, requests |-> requests] \in Backups
    BY <1>2 DEF Backups
  <2>2. backup' \in Backups
    <3>1. call.arg \in {"collections", "folders", "requests"}
      BY <1>1, <1>7, CallKinds DEF exportTable
    <3>2. CASE call.arg = "collections"
      BY <1>2, <1>7, <3>2 DEF exportTable, Backups
    <3>3. CASE call.arg = "folders"
      BY <1>2, <1>7, <3>3 DEF exportTable, Backups
    <3>4. CASE call.arg = "requests"
      BY <1>2, <1>7, <3>4 DEF exportTable, Backups
    <3> QED
      BY <3>1, <3>2, <3>3, <3>4
  <2> QED
    BY <1>1, <1>2, <1>4, <1>7, <2>2 DEF exportTable, tables
<1>8. CASE collectionCall(t, call) /\ backup' = backup
  BY <1>1, <1>2, <1>4, <1>6, <1>8, CallKinds, DropFolders, DropRequests DEF collectionCall
<1>9. CASE createFolder(t, call) /\ backup' = backup
  BY <1>1, <1>2, <1>4, <1>5, <1>9, CallKinds, PutFolders DEF createFolder
<1>10. CASE folderCall(t, call) /\ backup' = backup
  <2>1. CASE call.kind = "updateFolder" /\ folders' = Put(folders, call.id, call.arg)
               /\ UNCHANGED <<requests, pending>>
    BY <1>1, <1>2, <1>4, <1>10, <2>1, CallKinds, PutFolders DEF folderCall
  <2>2. CASE /\ call.kind = "deleteFolder" /\ Written
             /\ LET ids == collectFolderIds(folders, call.id)
                IN  /\ requests' = Drop(requests, {r \in DOMAIN requests : requests[r].folder \in ids})
                    /\ folders' = Drop(folders, ids)
    BY <1>1, <1>2, <1>4, <1>6, <1>10, <2>2, DropFolders, DropRequests DEF folderCall
  <2> QED
    BY <1>10, <2>1, <2>2 DEF folderCall
<1>11. CASE requestCall(t, call) /\ backup' = backup
  BY <1>1, <1>2, <1>4, <1>6, <1>11, CallKinds, PutRequests, DropRequests DEF requestCall
<1>12. CASE moveRequest(t, call) /\ backup' = backup
  <2>1. ASSUME call.id \in DOMAIN requests
        PROVE  <<PutRequest(call.id, [requests[call.id] EXCEPT !.folder = call.arg])>>
                 \in Seq(Calls)
    <3>1. /\ call.id \in Reqs /\ call.arg \in Folds \union {None}
          /\ requests[call.id] \in RequestRec
      BY <1>1, <1>2, <1>12, <2>1, CallKinds, RequestTables DEF moveRequest
    <3>2. [requests[call.id] EXCEPT !.folder = call.arg] \in RequestRec
      BY <3>1 DEF RequestRec
    <3> QED
      BY <3>1, <3>2 DEF PutRequest, Call, Calls, OtherCalls
  <2> QED
    BY <1>1, <1>2, <1>4, <1>5, <1>12, <2>1 DEF moveRequest, tables
<1>13. CASE bulkPut(t, call) /\ backup' = backup
  <2>1. pending' \in [Tabs -> BOOLEAN]
    BY <1>2, <1>6, <1>13 DEF bulkPut
  <2>2. folders' \in NestedTable
    BY <1>1, <1>2, <1>13, CallKinds, BulkPutFolders DEF bulkPut
  <2>3. requests' \in RequestTable
    BY <1>1, <1>2, <1>13, CallKinds, BulkPutRequests DEF bulkPut
  <2>4. collections' \subseteq Cols
    BY <1>1, <1>2, <1>13, CallKinds DEF bulkPut
  <2> QED
    BY <1>1, <1>2, <1>4, <1>13, <2>1, <2>2, <2>3, <2>4 DEF bulkPut
<1>14. CASE setRequests(t, call) /\ backup' = backup
  <2>1. /\ call.kind = "set" => call.arg \subseteq Reqs
        /\ {r \in DOMAIN requests : requests[r].col \in call.arg} \subseteq Reqs
    BY <1>1, <1>2, CallKinds, RequestTables
  <2>2. listed' \in [Tabs -> SUBSET Reqs]
    BY <1>2, <1>14, <2>1 DEF setRequests
  <2> QED
    BY <1>1, <1>2, <1>4, <1>14, <2>2 DEF setRequests, tables
<1> QED
  BY <1>7, <1>8, <1>9, <1>10, <1>11, <1>12, <1>13, <1>14 DEF CallReturns, call

-----------------------------------------------------------------------------
(* A call is made: the order.                                              *)

LEMMA CallOrder ==
  ASSUME TreeInv, NEW t \in Tabs, CallReturns(t)
  PROVE  TreeOrder'
<1> DEFINE call == Head(op[t])
           Sound(calls) == /\ Intact(collections', folders', requests')
                           /\ Fits(collections', folders', requests', calls)
           Goal == Intact(collections', folders', requests')
                   /\ Fits(collections', folders', requests', op'[t])
<1> SUFFICES ASSUME orderly' PROVE TreeOrder'
  BY DEF TreeOrder
<1>1. orderly /\ op[t] # <<>> /\ op \in [Tabs -> Seq(Calls)] /\ op[t] \in Seq(Calls)
  BY DEF CallReturns, TreeInv, TreeTypes
<1>2. /\ Intact(collections, folders, requests)
      /\ Fits(collections, folders, requests, op[t])
      /\ \A u \in Tabs \ {t} : op[u] = <<>>
  BY <1>1 DEF TreeInv, TreeOrder
<1>3. /\ CallFits(collections, folders, requests, op[t], 1)
      /\ call = op[t][1] /\ call \in Calls /\ Tail(op[t]) \in Seq(Calls)
  BY <1>1, <1>2, FirstFits
<1>4. \A c, f : Provided(collections, folders, op[t], 1, c, f) =>
        c \in collections /\ Holds(folders, f, c)
  BY <1>1, <1>2, FirstFits
<1>5. ASSUME NEW rest, Continue(t, rest)
      PROVE  op'[t] = rest /\ \A u \in Tabs \ {t} : op'[u] = <<>>
  BY <1>1, <1>2, <1>5 DEF Continue
<1>6. SUFFICES /\ \E rest : Continue(t, rest) /\ Sound(rest)
  <2>1. PICK rest : Continue(t, rest) /\ Sound(rest)
    BY <1>6
  <2>2. op'[t] = rest /\ \A u \in Tabs \ {t} : op'[u] = <<>>
    BY <1>5, <2>1
  <2> QED
    BY <2>1, <2>2, NothingFits DEF TreeOrder
\* What the call leaves as it was.
<1>7. ASSUME UNCHANGED tables, call.kind \notin Deletes \union {"putCollection", "createFolder"}
      PROVE  Sound(Tail(op[t]))
  BY <1>1, <1>2, <1>7, RestFits DEF tables
<1> HIDE DEF call
<1>8. CASE exportTable(t, call)
  BY <1>7, <1>8 DEF exportTable, Deletes
<1>9. CASE collectionCall(t, call)
  <2>1. CASE /\ call.kind = "putCollection"
             /\ collections' = collections \union {call.id}
             /\ UNCHANGED <<folders, requests, pending>>
    <3>1. Intact(collections', folders', requests')
      BY <1>2, <2>1 DEF Intact
    <3>2. Fits(collections', folders', requests', Tail(op[t]))
      BY <1>1, <1>2, <2>1, RestFits DEF Deletes, call
    <3> QED
      BY <1>9, <3>1, <3>2 DEF collectionCall
  <2>2. CASE /\ call.kind = "deleteCollection"
             /\ folders' = Drop(folders, {f \in DOMAIN folders : folders[f].col = call.id})
             /\ requests' = Drop(requests, {r \in DOMAIN requests : requests[r].col = call.id})
             /\ collections' = collections \ {call.id}
    <3>1. Intact(collections', folders', requests')
      <4> DEFINE fids == {f \in DOMAIN folders : folders[f].col = call.id}
                 rids == {r \in DOMAIN requests : requests[r].col = call.id}
      <4>1. /\ folders' = Drop(folders, fids) /\ requests' = Drop(requests, rids)
            /\ collections' = collections \ {call.id}
        BY <2>2
      <4>2. /\ fids = {f \in DOMAIN folders : folders[f].col = call.id}
            /\ rids = {r \in DOMAIN requests : requests[r].col = call.id}
        OBVIOUS
      <4> HIDE DEF fids, rids
      <4>3. Intact(collections \ {call.id}, Drop(folders, fids), Drop(requests, rids))
        BY <1>2, <4>2, CollectionDropped
      <4> QED
        BY <4>1, <4>3
    <3>2. Fits(collections', folders', requests', Tail(op[t]))
      BY <1>1, <1>2, <2>2, RestOfDelete DEF Deletes, call
    <3> QED
      BY <1>9, <3>1, <3>2 DEF collectionCall
  <2> QED
    BY <1>9, <2>1, <2>2 DEF collectionCall
<1>10. CASE createFolder(t, call)
  <2>1. CASE call.id \in DOMAIN folders
    <3>1. Continue(t, <<>>) /\ UNCHANGED <<collections, folders, requests>>
      BY <1>10, <2>1 DEF createFolder
    <3> QED
      BY <1>2, <3>1, NothingFits
  <2>2. CASE call.id \notin DOMAIN folders
    <3>1. /\ call.kind = "createFolder" /\ folders' = Put(folders, call.id, call.arg)
          /\ Continue(t, Tail(op[t])) /\ UNCHANGED <<collections, requests>>
      BY <1>10, <2>2 DEF createFolder
    <3>2. call.arg.col \in collections /\ Holds(folders, call.arg.parent, call.arg.col)
      BY <1>3, <1>4, <3>1 DEF CallFits
    <3>3. /\ Intact(collections', folders', requests')
          /\ Holds(folders', call.id, call.arg.col)
          /\ \A f, c : Holds(folders, f, c) => Holds(folders', f, c)
      BY <1>2, <2>2, <3>1, <3>2, PutKeepsIntact
    <3>4. Fits(collections', folders', requests', Tail(op[t]))
      BY <1>1, <1>2, <3>1, <3>3, RestFits DEF Deletes, call
    <3> QED
      BY <3>1, <3>3, <3>4
  <2> QED
    BY <2>1, <2>2
<1>11. CASE folderCall(t, call)
  <2>1. CASE /\ call.kind = "updateFolder"
             /\ folders' = Put(folders, call.id, call.arg)
             /\ UNCHANGED <<requests, pending>>
    <3>1. collections' = collections /\ Continue(t, Tail(op[t]))
      BY <1>11 DEF folderCall
    <3>2. call.id \in DOMAIN folders /\ call.arg = folders[call.id]
      BY <1>3, <2>1 DEF CallFits
    <3>3. /\ Intact(collections', folders', requests')
          /\ \A f, c : Holds(folders, f, c) => Holds(folders', f, c)
      BY <1>2, <2>1, <3>1, <3>2, PutKeepsIntact
    <3>4. Fits(collections', folders', requests', Tail(op[t]))
      BY <1>1, <1>2, <2>1, <3>1, <3>3, RestFits DEF Deletes, call
    <3> QED
      BY <3>1, <3>3, <3>4
  <2>2. CASE /\ call.kind = "deleteFolder"
             /\ LET ids == collectFolderIds(folders, call.id)
                IN  /\ requests' = Drop(requests, {r \in DOMAIN requests : requests[r].folder \in ids})
                    /\ folders' = Drop(folders, ids)
    <3>1. collections' = collections /\ Continue(t, Tail(op[t]))
      BY <1>11 DEF folderCall
    <3>2. Intact(collections', folders', requests')
      <4> DEFINE ids == collectFolderIds(folders, call.id)
      <4>1. /\ folders' = Drop(folders, ids)
            /\ requests' = Drop(requests, {r \in DOMAIN requests : requests[r].folder \in ids})
        BY <2>2
      <4>2. ids = collectFolderIds(folders, call.id)
        OBVIOUS
      <4> HIDE DEF ids
      <4> QED
        BY <1>2, <3>1, <4>1, <4>2, FolderDropped
    <3>3. Fits(collections', folders', requests', Tail(op[t]))
      BY <1>1, <1>2, <2>2, RestOfDelete DEF Deletes, call
    <3> QED
      BY <3>1, <3>2, <3>3
  <2> QED
    BY <1>11, <2>1, <2>2 DEF folderCall
<1>12. CASE requestCall(t, call)
  <2>1. collections' = collections /\ folders' = folders /\ Continue(t, Tail(op[t]))
    BY <1>12 DEF requestCall
  <2>2. CASE call.kind = "saveRequest" /\ requests' = Put(requests, call.id, call.arg)
    <3>1. call.arg.col \in collections /\ Holds(folders, call.arg.folder, call.arg.col)
      BY <1>3, <1>4, <2>2 DEF CallFits
    <3>2. Intact(collections', folders', requests')
      BY <1>2, <2>1, <2>2, <3>1, PutKeepsIntact
    <3>3. Fits(collections', folders', requests', Tail(op[t]))
      BY <1>1, <1>2, <2>1, <2>2, RestFits DEF Deletes, call
    <3> QED
      BY <2>1, <3>2, <3>3
  <2>3. CASE call.kind = "deleteRequest" /\ requests' = Drop(requests, {call.id})
    BY <1>1, <1>2, <2>1, <2>3, RestOfDelete, RequestDropped DEF Deletes, call
  <2> QED
    BY <1>12, <2>2, <2>3 DEF requestCall
<1>13. CASE moveRequest(t, call)
  <2>1. /\ UNCHANGED <<collections, folders, requests>>
        /\ call.id \in DOMAIN requests /\ Holds(folders, call.arg, requests[call.id].col)
    BY <1>3, <1>13 DEF moveRequest, tables, CallFits
  <2> DEFINE rec == [requests[call.id] EXCEPT !.folder = call.arg]
             put == PutRequest(call.id, rec)
  <2>2. Continue(t, <<put>>)
    BY <1>13, <2>1 DEF moveRequest
  <2>3. requests[call.id] \in RequestRec
    BY <2>1, RequestTables DEF TreeInv, TreeTypes, TreeTypeOK
  <2>4. rec.col = requests[call.id].col /\ rec.folder = call.arg
    BY <2>3 DEF RequestRec
  <2>5. rec.col \in collections /\ Holds(folders, rec.folder, rec.col)
    BY <1>2, <2>1, <2>4 DEF Intact
  <2>6. put.kind = "saveRequest" /\ put.arg = rec
    BY DEF PutRequest, Call
  <2> HIDE DEF put, rec
  <2>7. Fits(collections, folders, requests, <<put>>)
    BY <2>5, <2>6 DEF Fits, CallFits, Provided, Deletes
  <2> QED
    BY <1>2, <2>1, <2>2, <2>7
<1>14. CASE setRequests(t, call)
  BY <1>7, <1>14 DEF setRequests, Deletes
<1>15. ~bulkPut(t, call)
  BY <1>3 DEF bulkPut, CallFits
<1> QED
  BY <1>8, <1>9, <1>10, <1>11, <1>12, <1>13, <1>14, <1>15 DEF CallReturns, call

-----------------------------------------------------------------------------
(* An operation is started.                                                *)

LEMMA Started ==
  ASSUME TreeInv, NEW t \in Tabs, NEW calls \in Seq(Calls), NEW newIds,
         newIds \subseteq Cols \union Folds \union Reqs, Start(t, calls, newIds),
         orderly' /\ Intact(collections, folders, requests)
           => Fits(collections, folders, requests, calls)
  PROVE  TreeInv'
<1>1. op \in [Tabs -> Seq(Calls)] /\ op' = [op EXCEPT ![t] = calls]
  BY DEF TreeInv, TreeTypes, Start
<1>2. op' \in [Tabs -> Seq(Calls)] /\ op'[t] = calls /\ \A u \in Tabs \ {t} : op'[u] = op[u]
  BY <1>1
<1>3. UNCHANGED <<collections, folders, requests, backup, listed, pending>>
  BY DEF Start, tables
<1>4. TreeTypes'
  <2>1. used' \subseteq Cols \union Folds \union Reqs /\ started' \in 0..MaxOps
    BY TreeAssumption DEF TreeInv, TreeTypes, TreeTypeOK, Start
  <2>2. orderly' \in BOOLEAN
    BY DEF Start
  <2>3. TreeTypes
    BY DEF TreeInv
  <2> QED
    BY <1>2, <1>3, <2>1, <2>2, <2>3 DEF TreeTypes, TreeTypeOK
<1>5. ASSUME orderly' PROVE orderly /\ \A u \in Tabs : op[u] = <<>>
  BY <1>5 DEF Start
<1>6. ASSUME orderly'
      PROVE  /\ Intact(collections, folders, requests)
             /\ Fits(collections, folders, requests, calls)
  BY <1>5, <1>6 DEF TreeInv, TreeOrder
<1>7. TreeOrder'
  BY <1>2, <1>3, <1>5, <1>6, NothingFits DEF TreeOrder
<1> QED
  BY <1>4, <1>7 DEF TreeInv

\* The calls that operations are made of.
LEMMA CallsMade ==
  /\ \A c \in Cols : PutCollection(c) \in Calls /\ DelCollection(c) \in Calls
  /\ \A f \in Folds, rec \in FolderRec :
       Nests(f, rec.parent) => AddFolder(f, rec) \in Calls /\ PutFolder(f, rec) \in Calls
  /\ \A f \in Folds : DelFolder(f) \in Calls
  /\ \A r \in Reqs, rec \in RequestRec : PutRequest(r, rec) \in Calls
  /\ \A r \in Reqs : DelRequest(r) \in Calls
  /\ \A r \in Reqs, f \in Folds \union {None} : GetRequest(r, f) \in Calls
  /\ ListAll \in Calls /\ \A c \in Cols : ListOf(c) \in Calls
  /\ \A ids \in SUBSET Reqs : SetList(ids) \in Calls
  /\ \A name \in {"collections", "folders", "requests"} : Call("export", None, name) \in Calls
<1> USE DEF Call, Calls, OtherCalls, FolderCalls
<1>1. \A c \in Cols : PutCollection(c) \in Calls /\ DelCollection(c) \in Calls
  BY DEF PutCollection, DelCollection
<1>2. \A f \in Folds, rec \in FolderRec :
        Nests(f, rec.parent) => AddFolder(f, rec) \in Calls /\ PutFolder(f, rec) \in Calls
  BY DEF AddFolder, PutFolder
<1>3. /\ \A f \in Folds : DelFolder(f) \in Calls
      /\ \A r \in Reqs : DelRequest(r) \in Calls
  BY DEF DelFolder, DelRequest
<1>4. \A r \in Reqs, rec \in RequestRec : PutRequest(r, rec) \in Calls
  BY DEF PutRequest
<1>5. \A r \in Reqs, f \in Folds \union {None} : GetRequest(r, f) \in Calls
  BY DEF GetRequest
<1>6. /\ ListAll \in Calls /\ \A c \in Cols : ListOf(c) \in Calls
      /\ \A ids \in SUBSET Reqs : SetList(ids) \in Calls
      /\ \A name \in {"collections", "folders", "requests"} : Call("export", None, name) \in Calls
  BY DEF ListAll, ListOf, SetList
<1> QED
  BY <1>1, <1>2, <1>3, <1>4, <1>5, <1>6

LEMMA Records ==
  ASSUME TreeTypes
  PROVE  /\ \A f \in DOMAIN folders : f \in Folds /\ folders[f] \in FolderRec
                                      /\ folders[f].col \in Cols /\ Nests(f, folders[f].parent)
         /\ \A r \in DOMAIN requests : r \in Reqs /\ requests[r] \in RequestRec
                                       /\ requests[r].col \in Cols
                                       /\ requests[r].folder \in Folds \union {None}
         /\ collections \subseteq Cols /\ \A t \in Tabs : listed[t] \subseteq Reqs
<1>1. folders \in NestedTable /\ requests \in RequestTable
  BY DEF TreeTypes, TreeTypeOK
<1>2. \A f \in DOMAIN folders : f \in Folds /\ folders[f] \in FolderRec /\ Nests(f, folders[f].parent)
  BY <1>1, FolderTables
<1>3. \A r \in DOMAIN requests : r \in Reqs /\ requests[r] \in RequestRec
  BY <1>1, RequestTables
<1>4. collections \subseteq Cols /\ \A t \in Tabs : listed[t] \subseteq Reqs
  BY DEF TreeTypes, TreeTypeOK
<1> QED
  BY <1>2, <1>3, <1>4 DEF FolderRec, RequestRec

\* What is saved again has the place that the table gives it.
LEMMA SavedAgain ==
  ASSUME TreeTypes, NEW q \in DOMAIN requests, NEW id \in Reqs, NEW list \in Calls,
         list.kind = "listRequests"
  PROVE  /\ <<PutRequest(id, requests[q]), list>> \in Seq(Calls)
         /\ Intact(collections, folders, requests)
              => Fits(collections, folders, requests, <<PutRequest(id, requests[q]), list>>)
<1>1. PutRequest(id, requests[q]) \in Calls
  BY CallsMade, Records
<1>2. PutRequest(id, requests[q]).kind = "saveRequest"
      /\ PutRequest(id, requests[q]).arg = requests[q]
  BY DEF PutRequest, Call
<1> QED
  BY <1>1, <1>2 DEF Intact, Fits, CallFits, Provided, Deletes

\* Operations of one call, or of one and a new list.
LEMMA CollectionPut ==
  ASSUME TreeInv, NEW t \in Tabs, NEW c \in Cols, NewCollection(t, c) \/ RenameCollection(t, c)
  PROVE  TreeInv'
<1> USE DEF Fits, CallFits, Provided, Single, Deletes, Call
  <1>1. <<PutCollection(c)>> \in Seq(Calls)
    BY CallsMade
  <1>2. Fits(collections, folders, requests, <<PutCollection(c)>>)
    BY DEF PutCollection
  <1> QED
    BY <1>1, <1>2, Started DEF NewCollection, RenameCollection

LEMMA CollectionDeleted ==
  ASSUME TreeInv, NEW t \in Tabs, NEW c \in Cols, DeleteCollection(t, c)
  PROVE  TreeInv'
<1> USE DEF Fits, CallFits, Provided, Single, Deletes, Call
<1>0. TreeTypes
  BY DEF TreeInv
  <1> DEFINE rest == SetList({q \in listed[t] : q \in DOMAIN requests => requests[q].col # c})
             calls == <<DelCollection(c), rest>>
  <1>1. rest \in Calls
    BY <1>0, CallsMade, Records
  <1>2. DelCollection(c).kind = "deleteCollection" /\ rest.kind = "set"
    BY DEF DelCollection, SetList
  <1>3. Start(t, calls, {})
    BY DEF DeleteCollection
  <1> HIDE DEF rest
  <1>4. calls \in Seq(Calls)
    BY <1>1, CallsMade
  <1>5. Fits(collections, folders, requests, calls)
    BY <1>2
  <1> HIDE DEF calls
  <1> QED
    BY <1>3, <1>4, <1>5, Started

LEMMA FolderAdded ==
  ASSUME TreeInv, NEW t \in Tabs, NEW c \in Cols, NEW f \in Folds, NewFolder(t, c, f)
  PROVE  TreeInv'
<1> USE DEF Fits, CallFits, Provided, Single, Deletes, Call
  <1> DEFINE rec == [col |-> c, parent |-> None]
             calls == <<AddFolder(f, rec)>>
  <1>1. rec \in FolderRec /\ Nests(f, rec.parent)
    BY DEF FolderRec, Nests
  <1>2. calls \in Seq(Calls)
    BY <1>1, CallsMade
  <1>3. Fits(collections, folders, requests, calls)
    BY DEF AddFolder, NewFolder, Holds
  <1>4. Start(t, calls, {f})
    BY DEF NewFolder
  <1> HIDE DEF calls
  <1> QED
    BY <1>2, <1>3, <1>4, Started

LEMMA FolderEdited ==
  ASSUME TreeInv, NEW t \in Tabs, NEW f \in Folds, EditFolder(t, f)
  PROVE  TreeInv'
<1> USE DEF Fits, CallFits, Provided, Single, Deletes, Call
<1>0. TreeTypes
  BY DEF TreeInv
  <1> DEFINE calls == <<PutFolder(f, folders[f])>>
  <1>1. calls \in Seq(Calls)
    BY <1>0, CallsMade, Records DEF EditFolder
  <1>2. Fits(collections, folders, requests, calls)
    BY DEF PutFolder, EditFolder
  <1>3. Start(t, calls, {})
    BY DEF EditFolder
  <1> HIDE DEF calls
  <1> QED
    BY <1>1, <1>2, <1>3, Started

LEMMA FolderDeleted ==
  ASSUME TreeInv, NEW t \in Tabs, NEW f \in Folds, DeleteFolder(t, f)
  PROVE  TreeInv'
<1> USE DEF Fits, CallFits, Provided, Single, Deletes, Call
  <1> DEFINE calls == <<DelFolder(f)>>
  <1>1. calls \in Seq(Calls)
    BY CallsMade
  <1>2. Fits(collections, folders, requests, calls)
    BY DEF DelFolder
  <1>3. Start(t, calls, {})
    BY DEF DeleteFolder
  <1> HIDE DEF calls
  <1> QED
    BY <1>1, <1>2, <1>3, Started

LEMMA RequestAdded ==
  ASSUME TreeInv, NEW t \in Tabs, NEW c \in Cols, NEW r \in Reqs, NewRequest(t, c, r)
  PROVE  TreeInv'
<1> USE DEF Fits, CallFits, Provided, Single, Deletes, Call
  <1> DEFINE rec == [col |-> c, folder |-> None]
             calls == <<PutRequest(r, rec)>>
  <1>1. rec \in RequestRec
    BY DEF RequestRec
  <1>2. calls \in Seq(Calls)
    BY <1>1, CallsMade
  <1>3. Fits(collections, folders, requests, calls)
    BY DEF PutRequest, NewRequest, Holds
  <1>4. Start(t, calls, {r})
    BY DEF NewRequest
  <1> HIDE DEF calls
  <1> QED
    BY <1>2, <1>3, <1>4, Started

LEMMA RequestUpdated ==
  ASSUME TreeInv, NEW t \in Tabs, NEW r \in Reqs, UpdateRequest(t, r)
  PROVE  TreeInv'
<1> USE DEF Fits, CallFits, Provided, Single, Deletes, Call
<1>0. TreeTypes
  BY DEF TreeInv
  <1> DEFINE calls == <<PutRequest(r, requests[r]), ListAll>>
  <1>1. r \in DOMAIN requests /\ Start(t, calls, {})
    BY DEF UpdateRequest
  <1>2. ListAll \in Calls /\ ListAll.kind = "listRequests"
    BY CallsMade DEF ListAll
  <1>3. /\ calls \in Seq(Calls)
        /\ Intact(collections, folders, requests)
             => Fits(collections, folders, requests, calls)
    <2> HIDE DEF Fits
    <2> QED
      BY <1>0, <1>1, <1>2, SavedAgain
  <1> HIDE DEF calls
  <1> QED
    BY <1>1, <1>3, Started

LEMMA RequestDuplicated ==
  ASSUME TreeInv, NEW t \in Tabs, NEW r \in Reqs, NEW copy \in Reqs, DuplicateRequest(t, r, copy)
  PROVE  TreeInv'
<1> USE DEF Fits, CallFits, Provided, Single, Deletes, Call
<1>0. TreeTypes
  BY DEF TreeInv
  <1> DEFINE list == ListOf(requests[r].col)
             calls == <<PutRequest(copy, requests[r]), list>>
  <1>1. r \in DOMAIN requests /\ Start(t, calls, {copy})
    BY DEF DuplicateRequest
  <1>2. list \in Calls /\ list.kind = "listRequests"
    BY <1>0, <1>1, CallsMade, Records DEF ListOf
  <1>3. /\ calls \in Seq(Calls)
        /\ Intact(collections, folders, requests)
             => Fits(collections, folders, requests, calls)
    <2> HIDE DEF Fits
    <2> QED
      BY <1>0, <1>1, <1>2, SavedAgain
  <1> HIDE DEF calls
  <1> QED
    BY <1>1, <1>3, Started

LEMMA RequestDeleted ==
  ASSUME TreeInv, NEW t \in Tabs, NEW r \in Reqs, DeleteRequest(t, r)
  PROVE  TreeInv'
<1> USE DEF Fits, CallFits, Provided, Single, Deletes, Call
<1>0. TreeTypes
  BY DEF TreeInv
  <1> DEFINE list == ListOf(requests[r].col)
             calls == <<DelRequest(r), list>>
  <1>1. r \in DOMAIN requests /\ Start(t, calls, {})
    BY DEF DeleteRequest
  <1>2. list \in Calls /\ list.kind = "listRequests"
    BY <1>0, <1>1, CallsMade, Records DEF ListOf
  <1>3. DelRequest(r) \in Calls /\ DelRequest(r).kind = "deleteRequest"
    BY CallsMade DEF DelRequest
  <1> HIDE DEF list
  <1>4. calls \in Seq(Calls)
    BY <1>2, <1>3
  <1>5. Fits(collections, folders, requests, calls)
    BY <1>2, <1>3
  <1> HIDE DEF calls
  <1> QED
    BY <1>1, <1>4, <1>5, Started

LEMMA RequestDragged ==
  ASSUME TreeInv, NEW t \in Tabs, NEW r \in Reqs, NEW g \in Folds \union {None}, DragRequest(t, r, g)
  PROVE  TreeInv'
<1> USE DEF Fits, CallFits, Provided, Single, Deletes, Call
  <1> DEFINE calls == <<GetRequest(r, g)>>
  <1>1. r \in DOMAIN requests /\ Start(t, calls, {})
        /\ Holds(folders, g, requests[r].col)
    BY DEF DragRequest, Holds
  <1>2. calls \in Seq(Calls)
    BY CallsMade
  <1>3. Fits(collections, folders, requests, calls)
    BY <1>1 DEF GetRequest
  <1> HIDE DEF calls
  <1> QED
    BY <1>1, <1>2, <1>3, Started

\* "Save as new": what it creates on the way is there before the request.
LEMMA SaveAs ==
  ASSUME TreeInv, NEW t \in Tabs, NEW c \in Cols, NEW f \in Folds \union {None}, NEW r \in Reqs,
         SaveRequestAs(t, c, f, r)
  PROVE  TreeInv'
<1> DEFINE place == [col |-> c, parent |-> None]
           rec == [col |-> c, folder |-> f]
           a == PutCollection(c)
           b == AddFolder(f, place)
           p == PutRequest(r, rec)
           l == ListAll
           calls == (IF c \in collections THEN <<>> ELSE <<a>>)
                    \o (IF f \in DOMAIN folders \union {None} THEN <<>> ELSE <<b>>)
                    \o <<p, l>>
           newIds == ({c, f} \ {None}) \union {r}
<1>1. Start(t, calls, newIds) /\ (f \in DOMAIN folders => folders[f].col = c)
  BY DEF SaveRequestAs
<1>2. a \in Calls /\ p \in Calls /\ l \in Calls /\ (f # None => b \in Calls)
  <2>1. rec \in RequestRec /\ (f # None => place \in FolderRec /\ Nests(f, place.parent))
    BY DEF RequestRec, FolderRec, Nests
  <2> QED
    BY <2>1, CallsMade
<1>3. /\ a.kind = "putCollection" /\ a.id = c
      /\ b.kind = "createFolder" /\ b.id = f /\ b.arg.col = c /\ b.arg.parent = None
      /\ p.kind = "saveRequest" /\ p.arg.col = c /\ p.arg.folder = f
      /\ l.kind = "listRequests"
  BY DEF PutCollection, AddFolder, PutRequest, ListAll, Call
<1>4. newIds \subseteq Cols \union Folds \union Reqs
  BY DEF ListAll
<1> HIDE DEF a, b, p, l, newIds
<1>5. CASE c \in collections /\ f \in DOMAIN folders \union {None}
  <2>1. /\ calls \in Seq(Calls) /\ Len(calls) = 2
        /\ calls[1] = p /\ calls[2] = l
    BY <1>2, <1>5
  <2> HIDE DEF calls
  <2>2. \A i \in 1..2 : CallFits(collections, folders, requests, calls, i)
    BY <1>1, <1>3, <1>5, <2>1 DEF CallFits, Provided, Deletes, Holds
  <2>3. Fits(collections, folders, requests, calls)
    BY <2>1, <2>2 DEF Fits
  <2> QED
    BY <1>1, <1>4, <2>1, <2>3, Started
<1>6. CASE c \notin collections /\ f \in DOMAIN folders \union {None}
  <2>1. /\ calls \in Seq(Calls) /\ Len(calls) = 3
        /\ calls[1] = a /\ calls[2] = p /\ calls[3] = l
    BY <1>2, <1>6
  <2> HIDE DEF calls
  <2>2. \A i \in 1..3 : CallFits(collections, folders, requests, calls, i)
    BY <1>1, <1>3, <1>6, <2>1 DEF CallFits, Provided, Deletes, Holds
  <2>3. Fits(collections, folders, requests, calls)
    BY <2>1, <2>2 DEF Fits
  <2> QED
    BY <1>1, <1>4, <2>1, <2>3, Started
<1>7. CASE c \in collections /\ f \notin DOMAIN folders \union {None}
  <2>1. /\ calls \in Seq(Calls) /\ Len(calls) = 3
        /\ calls[1] = b /\ calls[2] = p /\ calls[3] = l
    BY <1>2, <1>7
  <2> HIDE DEF calls
  <2>2. \A i \in 1..3 : CallFits(collections, folders, requests, calls, i)
    BY <1>1, <1>3, <1>7, <2>1 DEF CallFits, Provided, Deletes, Holds
  <2>3. Fits(collections, folders, requests, calls)
    BY <2>1, <2>2 DEF Fits
  <2> QED
    BY <1>1, <1>4, <2>1, <2>3, Started
<1>8. CASE c \notin collections /\ f \notin DOMAIN folders \union {None}
  <2>1. /\ calls \in Seq(Calls) /\ Len(calls) = 4
        /\ calls[1] = a /\ calls[2] = b /\ calls[3] = p /\ calls[4] = l
    BY <1>2, <1>8
  <2> HIDE DEF calls
  <2>2. \A i \in 1..4 : CallFits(collections, folders, requests, calls, i)
    BY <1>1, <1>3, <1>8, <2>1 DEF CallFits, Provided, Deletes, Holds
  <2>3. Fits(collections, folders, requests, calls)
    BY <2>1, <2>2 DEF Fits
  <2> QED
    BY <1>1, <1>4, <2>1, <2>3, Started
<1> QED
  BY <1>5, <1>6, <1>7, <1>8

LEMMA Elements ==
  ASSUME NEW S, NEW s \in Seq(S)
  PROVE  Len(s) \in Nat /\ DOMAIN s = 1..Len(s) /\ \A i \in 1..Len(s) : s[i] \in S
OBVIOUS

\* A file: the collection, its folders with the parents that came before them,
\* and the request.
LEMMA Imported ==
  ASSUME TreeInv, NEW t \in Tabs, NEW file \in Files, NEW c \in Cols, NEW r \in Reqs,
         persistImported(t, file, c, r)
  PROVE  TreeInv'
<1> DEFINE n == Len(file.folders)
           ids == {file.folders[i].id : i \in DOMAIN file.folders}
           rec == [col |-> c, folder |-> IF file.folder \in ids THEN file.folder ELSE None]
           a == PutCollection(c)
           p == PutRequest(r, rec)
           folderCalls == [i \in DOMAIN file.folders |-> ImportedFolder(file, c, i)]
           calls == <<a>> \o folderCalls \o <<p>>
<1>1. Start(t, calls, ids \union {c, r})
  BY DEF persistImported
<1>2. /\ file.folders \in Seq([id : Folds, parent : Folds \union {None}])
      /\ n \in Nat /\ DOMAIN file.folders = 1..n
      /\ \A i \in 1..n : file.folders[i].id \in Folds
      /\ file.folder \in Folds \union {None}
  <2>1. file \in FileRec
    BY TreeAssumption
  <2>2. file.folders \in Seq([id : Folds, parent : Folds \union {None}])
        /\ file.folder \in Folds \union {None}
    BY <2>1 DEF FileRec
  <2>3. n \in Nat /\ DOMAIN file.folders = 1..n
        /\ \A i \in 1..n : file.folders[i] \in [id : Folds, parent : Folds \union {None}]
    BY <2>2, Elements
  <2> QED
    BY <2>2, <2>3
<1>3. \A i \in 1..n : ParentKept(file, i) \in Folds \union {None}
  BY <1>2 DEF ParentKept
<1>4. ASSUME NEW i \in 1..n
      PROVE  /\ ImportedFolder(file, c, i) \in Calls
             /\ ImportedFolder(file, c, i).kind = "createFolder"
             /\ ImportedFolder(file, c, i).id = file.folders[i].id
             /\ ImportedFolder(file, c, i).arg.col = c
             /\ ImportedFolder(file, c, i).arg.parent = ParentKept(file, i)
  <2>1. Nests(file.folders[i].id, ParentKept(file, i))
    BY <1>2 DEF Nests, Nested
  <2>2. [col |-> c, parent |-> ParentKept(file, i)] \in FolderRec
    BY <1>3 DEF FolderRec
  <2>3. ImportedFolder(file, c, i) \in Calls
    BY <1>2, <2>1, <2>2, CallsMade DEF ImportedFolder
  <2> QED
    BY <2>3 DEF ImportedFolder, AddFolder, Call
<1>5. a \in Calls /\ p \in Calls
  BY <1>2, CallsMade DEF RequestRec
<1>6. /\ a.kind = "putCollection" /\ a.id = c
      /\ p.kind = "saveRequest" /\ p.arg.col = c
      /\ p.arg.folder = None \/ \E i \in 1..n : file.folders[i].id = p.arg.folder
  BY <1>2 DEF PutCollection, PutRequest, Call
<1>7. folderCalls \in Seq(Calls) /\ Len(folderCalls) = n
      /\ \A i \in 1..n : folderCalls[i] = ImportedFolder(file, c, i)
  BY <1>2, <1>4
<1>8. ids \union {c, r} \subseteq Cols \union Folds \union Reqs
  BY <1>2
<1> HIDE DEF a, p, folderCalls, n, ids
<1>9. /\ calls \in Seq(Calls) /\ Len(calls) = n + 2
      /\ calls[1] = a /\ calls[n + 2] = p
      /\ \A i \in 1..n : calls[i + 1] = ImportedFolder(file, c, i)
  BY <1>2, <1>5, <1>7
<1> HIDE DEF calls
<1>10. CallFits(collections, folders, requests, calls, 1)
  BY <1>6, <1>9 DEF CallFits, Deletes
<1>11. ASSUME NEW i \in 1..n
       PROVE  CallFits(collections, folders, requests, calls, i + 1)
  <2>1. 1 \in 1..((i + 1) - 1) /\ calls[1].kind = "putCollection" /\ calls[1].id = c
    BY <1>2, <1>6, <1>9
  <2>2. ParentKept(file, i) # None =>
          \E j \in 1..((i + 1) - 1) : /\ calls[j].kind = "createFolder"
                                     /\ calls[j].id = ParentKept(file, i) /\ calls[j].arg.col = c
    <3> SUFFICES ASSUME ParentKept(file, i) # None
                 PROVE  \E j \in 1..((i + 1) - 1) :
                          /\ calls[j].kind = "createFolder"
                          /\ calls[j].id = ParentKept(file, i) /\ calls[j].arg.col = c
      OBVIOUS
    <3>1. PICK j \in 1..(i - 1) : file.folders[j].id = ParentKept(file, i)
      BY DEF ParentKept
    <3>2. j \in 1..n /\ j + 1 \in 1..((i + 1) - 1)
      BY <1>2
    <3>3. calls[j + 1] = ImportedFolder(file, c, j)
      BY <1>9, <3>2
    <3> QED
      BY <1>4, <3>1, <3>2, <3>3
  <2>3. calls[i + 1] = ImportedFolder(file, c, i)
    BY <1>9
  <2>4. Provided(collections, folders, calls, i + 1, c, ParentKept(file, i))
    BY <2>1, <2>2 DEF Provided, Holds
  <2> QED
    BY <1>4, <2>3, <2>4 DEF CallFits, Deletes
<1>12. CallFits(collections, folders, requests, calls, n + 2)
  <2>1. 1 \in 1..((n + 2) - 1) /\ calls[1].kind = "putCollection" /\ calls[1].id = c
    BY <1>2, <1>6, <1>9
  <2>2. p.arg.folder # None =>
          \E j \in 1..((n + 2) - 1) : /\ calls[j].kind = "createFolder"
                                     /\ calls[j].id = p.arg.folder /\ calls[j].arg.col = c
    <3> SUFFICES ASSUME p.arg.folder # None
                 PROVE  \E j \in 1..((n + 2) - 1) :
                          /\ calls[j].kind = "createFolder"
                          /\ calls[j].id = p.arg.folder /\ calls[j].arg.col = c
      OBVIOUS
    <3>1. PICK j \in 1..n : file.folders[j].id = p.arg.folder
      BY <1>6
    <3>2. j + 1 \in 1..((n + 2) - 1) /\ calls[j + 1] = ImportedFolder(file, c, j)
      BY <1>2, <1>9
    <3> QED
      BY <1>4, <3>1, <3>2
  <2>3. Provided(collections, folders, calls, n + 2, c, p.arg.folder)
    BY <2>1, <2>2 DEF Provided, Holds
  <2> QED
    BY <1>6, <1>9, <2>3 DEF CallFits, Deletes
<1>13. Fits(collections, folders, requests, calls)
  <2>1. \A i \in 1..(n + 2) : i = 1 \/ i = n + 2 \/ (i - 1 \in 1..n /\ i = (i - 1) + 1)
    BY <1>2
  <2> QED
    BY <1>9, <1>10, <1>11, <1>12, <2>1 DEF Fits
<1> QED
  BY <1>1, <1>8, <1>9, <1>13, Started

\* A backup is exported or merged: a merge is not orderly, an export only reads.
LEMMA Transferred ==
  ASSUME TreeInv, NEW t \in Tabs, NEW order \in InAnyOrder,
         exportWorkspace(t, order) \/ importWorkspace(t, order)
  PROVE  TreeInv'
<1>1. /\ \A i \in 1..3 : order[i] \in {"collections", "folders", "requests"}
      /\ backup \in Backups
  BY DEF InAnyOrder, TreeInv, TreeTypes
<1>2. CASE exportWorkspace(t, order)
  <2> DEFINE calls == Transfer("export", order)
  <2>1. calls \in Seq(Calls) /\ Len(calls) = 3
        /\ \A i \in 1..3 : calls[i] = Call("export", None, order[i])
    BY <1>1, CallsMade DEF Transfer
  <2>2. Start(t, calls, {})
    BY <1>2 DEF exportWorkspace
  <2> HIDE DEF calls
  <2>3. Fits(collections, folders, requests, calls)
    BY <2>1 DEF Fits, CallFits, Call, Deletes
  <2> QED
    BY <2>1, <2>2, <2>3, Started
<1>3. CASE importWorkspace(t, order)
  <2> DEFINE puts == [i \in 1..3 |-> Call("bulkPut", order[i], backup[order[i]])]
             calls == puts \o <<ListAll>>
  <2>1. \A i \in 1..3 : puts[i] \in Calls /\ puts[i].kind = "bulkPut"
    <3> SUFFICES ASSUME NEW i \in 1..3
                 PROVE  puts[i] \in Calls /\ puts[i].kind = "bulkPut"
      OBVIOUS
    <3>1. /\ order[i] = "collections" => backup[order[i]] \in SUBSET Cols
          /\ order[i] = "folders" => backup[order[i]] \in NestedTable
          /\ order[i] = "requests" => backup[order[i]] \in RequestTable
      BY <1>1 DEF Backups
    <3> QED
      BY <1>1, <3>1 DEF Call, Calls, BulkCalls
  <2>2. Start(t, calls, {})
    BY <1>3 DEF importWorkspace
  <2>3. ListAll \in Calls /\ puts \in Seq(Calls) /\ Len(puts) = 3
    BY <2>1, CallsMade
  <2> HIDE DEF puts
  <2>4. calls \in Seq(Calls) /\ calls[1].kind = "bulkPut" /\ 1 \in DOMAIN calls
    BY <2>1, <2>3
  <2> HIDE DEF calls
  <2>5. ~orderly'
    BY <2>2, <2>4 DEF Start
  <2> QED
    BY <2>2, <2>4, <2>5, Started
<1> QED
  BY <1>2, <1>3

-----------------------------------------------------------------------------
(* The invariant holds, and what follows from it.                          *)

LEMMA TreeInvInitially == TreeInit => TreeInv
<1> SUFFICES ASSUME TreeInit PROVE TreeInv
  OBVIOUS
<1>1. /\ Stored.collections \subseteq Cols /\ Stored.folders \in FolderTable
      /\ Stored.requests \in RequestTable /\ MaxOps \in Nat
      /\ Intact(Stored.collections, Stored.folders, Stored.requests)
  BY TreeAssumption
<1>2. Stored.folders \in NestedTable
  BY <1>1 DEF NestedTable, Nests, Nested
<1>3. Stored \in Backups
  BY <1>2, TreeAssumption DEF Backups
<1>4. DOMAIN Stored.folders \subseteq Folds /\ DOMAIN Stored.requests \subseteq Reqs
  BY <1>1, <1>2, FolderTables, RequestTables
<1>5. op = [t \in Tabs |-> <<>>] /\ <<>> \in Seq(Calls)
  BY DEF TreeInit
<1>6. TreeTypes
  BY <1>1, <1>2, <1>3, <1>4, <1>5 DEF TreeInit, TreeTypes, TreeTypeOK
<1>7. TreeOrder
  BY <1>1, <1>5, NothingFits DEF TreeInit, TreeOrder
<1> QED
  BY <1>6, <1>7 DEF TreeInv

LEMMA TreeInvKept == TreeInv /\ [TreeNext]_treeVars => TreeInv'
<1> SUFFICES ASSUME TreeInv, [TreeNext]_treeVars PROVE TreeInv'
  OBVIOUS
<1>1. CASE UNCHANGED treeVars
  BY <1>1 DEF TreeInv, TreeTypes, TreeTypeOK, TreeOrder, treeVars
<1>2. ASSUME NEW t \in Tabs, CallReturns(t) PROVE TreeInv'
  BY <1>2, CallTypes, CallOrder DEF TreeInv
<1>3. ASSUME NEW t \in Tabs, LiveQuery(t) PROVE TreeInv'
  <2>1. TreeTypes'
    <3>1. UNCHANGED <<collections, folders, requests, used, backup, op, started, orderly>>
      BY <1>3 DEF LiveQuery, tables
    <3>2. DOMAIN requests \subseteq Reqs
      BY RequestTables DEF TreeInv, TreeTypes, TreeTypeOK
    <3> QED
      BY <1>3, <3>1, <3>2 DEF LiveQuery, TreeInv, TreeTypes, TreeTypeOK
  <2>2. TreeOrder'
    BY <1>3 DEF LiveQuery, tables, TreeInv, TreeOrder
  <2> QED
    BY <2>1, <2>2 DEF TreeInv
<1>4. ASSUME NEW t \in Tabs, NEW order \in InAnyOrder,
             exportWorkspace(t, order) \/ importWorkspace(t, order)
      PROVE  TreeInv'
  BY <1>4, Transferred
<1>5. ASSUME NEW t \in Tabs, NEW c \in Cols,
             NewCollection(t, c) \/ RenameCollection(t, c) \/ DeleteCollection(t, c)
      PROVE  TreeInv'
  BY <1>5, CollectionPut, CollectionDeleted
<1>6. ASSUME NEW t \in Tabs, NEW c \in Cols, NEW f \in Folds, NewFolder(t, c, f)
      PROVE  TreeInv'
  BY <1>6, FolderAdded
<1>7. ASSUME NEW t \in Tabs, NEW c \in Cols, NEW r \in Reqs, NewRequest(t, c, r)
      PROVE  TreeInv'
  BY <1>7, RequestAdded
<1>8. ASSUME NEW t \in Tabs, NEW c \in Cols, NEW r \in Reqs, NEW f \in Folds \union {None},
             SaveRequestAs(t, c, f, r)
      PROVE  TreeInv'
  BY <1>8, SaveAs
<1>9. ASSUME NEW t \in Tabs, NEW c \in Cols, NEW r \in Reqs, NEW file \in Files,
             persistImported(t, file, c, r)
      PROVE  TreeInv'
  BY <1>9, Imported
<1>10. ASSUME NEW t \in Tabs, NEW f \in Folds, EditFolder(t, f) \/ DeleteFolder(t, f)
       PROVE  TreeInv'
  BY <1>10, FolderEdited, FolderDeleted
<1>11. ASSUME NEW t \in Tabs, NEW r \in Reqs, UpdateRequest(t, r) \/ DeleteRequest(t, r)
       PROVE  TreeInv'
  BY <1>11, RequestUpdated, RequestDeleted
<1>12. ASSUME NEW t \in Tabs, NEW r \in Reqs, NEW copy \in Reqs, DuplicateRequest(t, r, copy)
       PROVE  TreeInv'
  BY <1>12, RequestDuplicated
<1>13. ASSUME NEW t \in Tabs, NEW r \in Reqs, NEW f \in Folds \union {None}, DragRequest(t, r, f)
       PROVE  TreeInv'
  BY <1>13, RequestDragged
<1> QED
  BY <1>1, <1>2, <1>3, <1>4, <1>5, <1>6, <1>7, <1>8, <1>9, <1>10, <1>11, <1>12, <1>13 DEF TreeNext

\* Whatever the tabs do, every record is of its kind, operations that do not
\* overlap leave no folder and no request without its place, and no folders are
\* in each other in a circle (CollectionTree, useCollectionImport, InvokeStore).
THEOREM TreesAreSound == TreeSpec => []TreeIsSound
<1>1. TreeInv => TreeIsSound
  <2> SUFFICES ASSUME TreeInv PROVE TreeIsSound
    OBVIOUS
  <2>1. TreeTypeOK /\ OrderlyIsIntact
    BY DEF TreeInv, TreeTypes, TreeOrder, OrderlyIsIntact
  <2>2. NoFolderCycle
    BY NestedHasNoCycle DEF TreeInv, TreeTypes, NoFolderCycle
  <2> QED
    BY <2>1, <2>2 DEF TreeIsSound
<1> QED
  BY <1>1, TreeInvInitially, TreeInvKept, PTL DEF TreeSpec

\* A call changes nothing of another tab's operation.
LEMMA CallContinues ==
  ASSUME NEW u \in Tabs, CallReturns(u), op \in [Tabs -> Seq(Calls)]
  PROVE  \A t \in Tabs \ {u} : op'[t] = op[t]
<1>1. ASSUME NEW rest, Continue(u, rest)
      PROVE  \A t \in Tabs \ {u} : op'[t] = op[t]
  BY <1>1 DEF Continue
<1> QED
  BY <1>1 DEF CallReturns, exportTable, collectionCall, createFolder, folderCall, requestCall,
              moveRequest, bulkPut, setRequests

\* The call of deleteFolder takes the folder with all that is below it, also
\* what other tabs put there meanwhile (deleteFolder).
THEOREM DeletionsReachAll == TreeSpec => DeleteReachesAll
<1> DEFINE Reached ==
             \A t \in Tabs : op[t] # <<>> /\ Head(op[t]).kind = "deleteFolder" /\ op'[t] # op[t] =>
               LET gone == (DOMAIN folders \ DOMAIN folders') \union {Head(op[t]).id}
               IN  /\ \A g \in DOMAIN folders' : folders'[g].parent \notin gone
                   /\ \A r \in DOMAIN requests' : requests'[r].folder \notin gone
<1>1. TreeInv /\ [TreeNext]_treeVars => [Reached]_treeVars
  <2> SUFFICES ASSUME TreeInv, TreeNext, NEW t \in Tabs, op[t] # <<>>,
                      Head(op[t]).kind = "deleteFolder", op'[t] # op[t]
               PROVE  LET gone == (DOMAIN folders \ DOMAIN folders') \union {Head(op[t]).id}
                      IN  /\ \A g \in DOMAIN folders' : folders'[g].parent \notin gone
                          /\ \A r \in DOMAIN requests' : requests'[r].folder \notin gone
    OBVIOUS
  <2> DEFINE call == Head(op[t])
             ids == collectFolderIds(folders, call.id)
  <2>1. ASSUME NEW u \in Tabs, CallReturns(u)
        PROVE  u = t
    <3>1. op \in [Tabs -> Seq(Calls)]
      BY DEF TreeInv, TreeTypes
    <3> QED
      BY <2>1, <3>1, CallContinues
  <2>2. ASSUME NEW u \in Tabs, NEW calls, NEW newIds, Start(u, calls, newIds)
        PROVE  FALSE
    <3>1. op \in [Tabs -> Seq(Calls)] /\ op' = [op EXCEPT ![u] = calls] /\ op[u] = <<>>
      BY <2>2 DEF TreeInv, TreeTypes, Start
    <3> QED
      BY <3>1
  <2>3. CallReturns(t)
    <3>1. ASSUME NEW u \in Tabs PROVE ~LiveQuery(u)
      BY DEF LiveQuery
    <3>2. ASSUME NEW u \in Tabs, NEW order
          PROVE  ~exportWorkspace(u, order) /\ ~importWorkspace(u, order)
      BY <2>2 DEF exportWorkspace, importWorkspace
    <3>3. ASSUME NEW u \in Tabs, NEW c
          PROVE  ~NewCollection(u, c) /\ ~RenameCollection(u, c) /\ ~DeleteCollection(u, c)
      BY <2>2 DEF NewCollection, RenameCollection, DeleteCollection
    <3>4. ASSUME NEW u \in Tabs, NEW c, NEW f
          PROVE  ~NewFolder(u, c, f) /\ ~EditFolder(u, f) /\ ~DeleteFolder(u, f)
      BY <2>2 DEF NewFolder, EditFolder, DeleteFolder
    <3>5. ASSUME NEW u \in Tabs, NEW c, NEW r, NEW f
          PROVE  ~NewRequest(u, c, r) /\ ~SaveRequestAs(u, c, f, r)
      BY <2>2 DEF NewRequest, SaveRequestAs
    <3>6. ASSUME NEW u \in Tabs, NEW file, NEW c, NEW r
          PROVE  ~persistImported(u, file, c, r)
      BY <2>2 DEF persistImported
    <3>7. ASSUME NEW u \in Tabs, NEW r, NEW copy, NEW f
          PROVE  /\ ~UpdateRequest(u, r) /\ ~DeleteRequest(u, r)
                 /\ ~DuplicateRequest(u, r, copy) /\ ~DragRequest(u, r, f)
      BY <2>2 DEF UpdateRequest, DeleteRequest, DuplicateRequest, DragRequest
    <3> QED
      BY <2>1, <3>1, <3>2, <3>3, <3>4, <3>5, <3>6, <3>7 DEF TreeNext
  <2>4. folderCall(t, call)
    BY <2>3 DEF CallReturns, exportTable, collectionCall, createFolder, requestCall,
                moveRequest, bulkPut, setRequests
  <2>5. /\ folders' = Drop(folders, ids)
        /\ requests' = Drop(requests, {r \in DOMAIN requests : requests[r].folder \in ids})
    BY <2>4 DEF folderCall
  <2>6. call.id \in ids /\ \A g \in DOMAIN folders : folders[g].parent \in ids => g \in ids
    BY FoldersBelow
  <2> HIDE DEF ids
  <2>7. (DOMAIN folders \ DOMAIN folders') \union {call.id} \subseteq ids
    BY <2>5, <2>6 DEF Drop
  <2>8. \A g \in DOMAIN folders' : folders'[g].parent \notin ids
    BY <2>5, <2>6 DEF Drop
  <2>9. \A r \in DOMAIN requests' : requests'[r].folder \notin ids
    BY <2>5 DEF Drop
  <2> QED
    BY <2>7, <2>8, <2>9
<1>2. TreeInv /\ [TreeNext]_treeVars => TreeInv'
  BY TreeInvKept
<1>3. TreeSpec => []TreeInv
  BY <1>2, TreeInvInitially, PTL DEF TreeSpec
<1>4. TreeSpec => [][Reached]_treeVars
  BY <1>1, <1>3, PTL DEF TreeSpec
<1> QED
  BY <1>4 DEF DeleteReachesAll

-----------------------------------------------------------------------------
(* The cookie jar.                                                         *)

LEMMA AtMostOne ==
  ASSUME NEW S, IsFiniteSet(S)
  PROVE  Cardinality(S) <= 1 <=> \A i, j \in S : i = j
<1>1. ASSUME NEW i \in S, NEW j \in S, i # j
      PROVE  ~(Cardinality(S) <= 1)
  <2>1. IsFiniteSet({i}) /\ Cardinality({i}) = 1
    BY FS_Singleton
  <2>2. IsFiniteSet({i} \union {j}) /\ Cardinality({i} \union {j}) = 2
    <3>1. /\ IsFiniteSet({i} \union {j})
          /\ Cardinality({i} \union {j}) =
               IF j \in {i} THEN Cardinality({i}) ELSE Cardinality({i}) + 1
      BY <2>1, FS_AddElement
    <3>2. j \notin {i}
      BY <1>1
    <3> QED
      BY <2>1, <3>1, <3>2
  <2>3. Cardinality({i} \union {j}) <= Cardinality(S)
    BY FS_Subset
  <2>4. Cardinality(S) \in Nat
    BY FS_CardinalityType
  <2>5. 2 <= Cardinality(S)
    BY <2>2, <2>3
  <2> QED
    BY <2>4, <2>5
<1>2. ASSUME \A i, j \in S : i = j
      PROVE  Cardinality(S) <= 1
  <2>1. CASE S = {}
    BY <2>1, FS_EmptySet
  <2>2. CASE \E i \in S : TRUE
    <3>1. PICK i \in S : S = {i}
      BY <1>2, <2>2
    <3>2. Cardinality({i}) = 1
      BY FS_Singleton
    <3> QED
      BY <3>1, <3>2
  <2> QED
    BY <2>1, <2>2
<1> QED
  BY <1>1, <1>2

\* Two rows of different ids have different keys.
KeysDiffer(rows) == \A i, j \in DOMAIN rows : rows[i].key = rows[j].key => i = j

CookieInv == CookieTypeOK /\ (version >= 7 => KeysDiffer(jar))

LEMMA KeysOfRows ==
  ASSUME CookieTypeOK
  PROVE  /\ \A k \in Keys : IsFiniteSet(WithKey(k))
         /\ KeysDiffer(jar) <=> \A k \in Keys : Cardinality(WithKey(k)) <= 1
<1>1. ASSUME NEW k \in Keys PROVE IsFiniteSet(WithKey(k))
  <2>1. WithKey(k) \subseteq CookieIds
    BY DEF CookieTypeOK, WithKey
  <2> QED
    BY <2>1, CookieAssumption, FS_Subset
<1>2. \A i \in DOMAIN jar : jar[i].key \in Keys
  BY DEF CookieTypeOK, Cookie
<1>3. KeysDiffer(jar) <=> \A k \in Keys : \A i, j \in WithKey(k) : i = j
  BY <1>2 DEF KeysDiffer, WithKey
<1> QED
  BY <1>1, <1>3, AtMostOne

LEMMA CookieInitially == CookieInit => CookieInv
<1> SUFFICES ASSUME CookieInit PROVE CookieInv
  OBVIOUS
<1>1. PICK I \in SUBSET CookieIds : jar \in [I -> [key : Keys, value : {"old"}]]
  BY DEF CookieInit
<1>2. DOMAIN jar = I /\ \A i \in I : jar[i] \in Cookie
  BY <1>1 DEF Cookie
<1> QED
  BY <1>1, <1>2 DEF CookieInit, CookieInv, CookieTypeOK

\* What is left of the jar after a deletion keeps the invariant.
LEMMA RowsLeft ==
  ASSUME NEW ids, CookieInv, jar' = [j \in DOMAIN jar \ ids |-> jar[j]],
         UNCHANGED <<version, drawn>>
  PROVE  /\ DOMAIN jar' \subseteq drawn' /\ \A i \in DOMAIN jar' : jar'[i] \in Cookie
         /\ version' >= 7 => KeysDiffer(jar')
<1>1. DOMAIN jar' \subseteq DOMAIN jar /\ \A i \in DOMAIN jar' : jar'[i] = jar[i]
  OBVIOUS
<1>2. KeysDiffer(jar) => KeysDiffer(jar')
  BY <1>1 DEF KeysDiffer
<1> QED
  BY <1>1, <1>2 DEF CookieInv, CookieTypeOK

LEMMA CookieInvKept == CookieInv /\ [CookieNext]_cookieVars => CookieInv'
<1> SUFFICES ASSUME CookieInv, [CookieNext]_cookieVars PROVE CookieInv'
  OBVIOUS
<1>1. /\ version \in 6..8 /\ DOMAIN jar \subseteq drawn /\ drawn \subseteq CookieIds
      /\ \A i \in DOMAIN jar : jar[i] \in Cookie
      /\ staged \in [Managers -> SUBSET CookieIds] /\ saving \in [Managers -> SUBSET CookieIds]
      /\ version >= 7 => KeysDiffer(jar)
  BY DEF CookieInv, CookieTypeOK
<1>2. CASE UNCHANGED cookieVars
  BY <1>2 DEF CookieInv, CookieTypeOK, cookieVars
<1>3. CASE upgradeTo7
  <2>1. PICK G \in SUBSET DOMAIN jar :
          /\ \A k \in Keys : Cardinality(WithKey(k) \ G) = IF WithKey(k) = {} THEN 0 ELSE 1
          /\ jar' = [j \in DOMAIN jar \ G |-> jar[j]]
    BY <1>3 DEF upgradeTo7, dedupe
  <2>2. DOMAIN jar' \subseteq drawn /\ \A i \in DOMAIN jar' : jar'[i] \in Cookie
    BY <1>1, <2>1
  <2>3. ASSUME NEW i \in DOMAIN jar', NEW j \in DOMAIN jar', jar'[i].key = jar'[j].key
        PROVE  i = j
    <3> DEFINE k == jar[i].key
    <3>1. k \in Keys /\ i \in WithKey(k) \ G /\ j \in WithKey(k) \ G
      BY <1>1, <2>1, <2>3 DEF WithKey, Cookie
    <3>2. IsFiniteSet(WithKey(k) \ G)
      BY <3>1, KeysOfRows, FS_Subset DEF CookieInv
    <3>3. Cardinality(WithKey(k) \ G) <= 1
      BY <2>1, <3>1
    <3> HIDE DEF k
    <3> QED
      BY <3>1, <3>2, <3>3, AtMostOne
  <2> QED
    BY <1>1, <1>3, <2>2, <2>3 DEF upgradeTo7, CookieInv, CookieTypeOK, KeysDiffer
<1>4. CASE upgradeTo8
  <2>1. KeysDiffer(jar)
    BY <1>4, KeysOfRows DEF upgradeTo8, CookieInv
  <2> QED
    BY <1>1, <1>4, <2>1 DEF upgradeTo8, CookieInv, CookieTypeOK
<1>5. ASSUME NEW i \in CookieIds, NEW k \in Keys, upsertCookie(i, k)
      PROVE  CookieInv'
  <2>1. PICK keep \in IF WithKey(k) = {} THEN {i} ELSE WithKey(k) :
          jar' = [j \in (DOMAIN jar \ WithKey(k)) \union {keep} |->
                    IF j = keep THEN [key |-> k, value |-> "new"] ELSE jar[j]]
    BY <1>5 DEF upsertCookie
  <2>2. keep \in drawn' /\ drawn' \subseteq CookieIds
    BY <1>1, <1>5, <2>1 DEF upsertCookie, WithKey
  <2>3. DOMAIN jar' \subseteq drawn' /\ \A j \in DOMAIN jar' : jar'[j] \in Cookie
    BY <1>1, <1>5, <2>1, <2>2 DEF upsertCookie, Cookie
  <2>4. KeysDiffer(jar')
    BY <1>1, <1>5, <2>1 DEF upsertCookie, Upgraded, KeysDiffer, WithKey
  <2> QED
    BY <1>1, <1>5, <2>2, <2>3, <2>4 DEF upsertCookie, CookieInv, CookieTypeOK
<1>6. ASSUME NEW i \in CookieIds, NEW k \in Keys, updateCookie(i, k)
      PROVE  CookieInv'
  <2>1. DOMAIN jar' \subseteq drawn /\ \A j \in DOMAIN jar' : jar'[j] \in Cookie
    BY <1>1, <1>6 DEF updateCookie, Stow, Cookie
  <2>2. KeysDiffer(jar')
    BY <1>1, <1>6 DEF updateCookie, Upgraded, Stow, KeysDiffer, WithKey
  <2> QED
    BY <1>1, <1>6, <2>1, <2>2 DEF updateCookie, CookieInv, CookieTypeOK
<1>7. ASSUME NEW D, clearCookies(D) PROVE CookieInv'
  <2> DEFINE ids == {i \in DOMAIN jar : DomainOf[jar[i].key] \in D}
  <2>1. jar' = [j \in DOMAIN jar \ ids |-> jar[j]]
    BY <1>7 DEF clearCookies, Without
  <2> HIDE DEF ids
  <2>2. UNCHANGED <<version, drawn, staged, saving>>
    BY <1>7 DEF clearCookies
  <2>3. /\ DOMAIN jar' \subseteq drawn' /\ \A i \in DOMAIN jar' : jar'[i] \in Cookie
        /\ version' >= 7 => KeysDiffer(jar')
    BY <2>1, <2>2, RowsLeft
  <2> QED
    BY <1>1, <2>2, <2>3 DEF CookieInv, CookieTypeOK
<1>8. ASSUME NEW m \in Managers, NEW ids \in SUBSET CookieIds, stageDelete(m, ids)
      PROVE  CookieInv'
  BY <1>1, <1>8 DEF stageDelete, CookieInv, CookieTypeOK
<1>9. ASSUME NEW m \in Managers, cancelChanges(m) \/ saveChanges(m)
      PROVE  CookieInv'
  BY <1>1, <1>9 DEF cancelChanges, saveChanges, CookieInv, CookieTypeOK
<1>10. ASSUME NEW m \in Managers, NEW i \in CookieIds, deleteCookie(m, i)
       PROVE  CookieInv'
  <2>1. jar' = [j \in DOMAIN jar \ {i} |-> jar[j]]
    BY <1>10 DEF deleteCookie, Without
  <2>2. /\ saving' \in [Managers -> SUBSET CookieIds]
        /\ staged' \in [Managers -> SUBSET CookieIds]
        /\ UNCHANGED <<version, drawn>>
    BY <1>1, <1>10 DEF deleteCookie
  <2>3. /\ DOMAIN jar' \subseteq drawn' /\ \A j \in DOMAIN jar' : jar'[j] \in Cookie
        /\ version' >= 7 => KeysDiffer(jar')
    BY <2>1, <2>2, RowsLeft
  <2> QED
    BY <1>1, <2>2, <2>3 DEF CookieInv, CookieTypeOK
<1>11. \A d : {i \in DOMAIN jar : DomainOf[jar[i].key] = d} \in SUBSET CookieIds
  BY <1>1
<1> QED
  BY <1>1, <1>2, <1>3, <1>4, <1>5, <1>6, <1>7, <1>8, <1>9, <1>10, <1>11 DEF CookieNext

\* From the upgrade of a version 6 database on, no key is stored twice, whatever
\* executions, cookie managers and the settings write (upsertCookie,
\* updateCookie, saveChanges, clearCookies).
THEOREM CookiesAreUnique == CookieSpec => [](CookieTypeOK /\ OneCookiePerKey)
<1>1. CookieInv => CookieTypeOK /\ OneCookiePerKey
  BY KeysOfRows DEF CookieInv, OneCookiePerKey
<1> QED
  BY <1>1, CookieInitially, CookieInvKept, PTL DEF CookieSpec

-----------------------------------------------------------------------------
(* Sets of numbers, and the oldest of them.                                *)

LEMMA LeastElement ==
  ASSUME NEW T \in SUBSET Nat, T # {}
  PROVE  \E m \in T : \A k \in T : m <= k
<1>1. ASSUME NEW R, R = OpToRel(<, Nat) PROVE \E m \in T : \A k \in T : ~(<<k, m>> \in R)
  <2>1. IsWellFoundedOn(R, Nat)
    BY <1>1, NatLessThanWellFounded
  <2> QED
    BY <2>1, WFMin
<1>2. \A x, y \in Nat : x < y => <<x, y>> \in OpToRel(<, Nat)
  BY DEF OpToRel
<1>3. PICK m \in T : \A k \in T : ~(<<k, m>> \in OpToRel(<, Nat))
  BY <1>1
<1>4. \A k \in T : ~(k < m)
  BY <1>2, <1>3
<1> QED
  BY <1>4

LEMMA GreatestElement ==
  ASSUME NEW n \in Nat, NEW T \in SUBSET (1..n), T # {}
  PROVE  \E m \in T : \A k \in T : k <= m
<1> DEFINE U == {n - k : k \in T}
<1>1. U \subseteq Nat /\ U # {}
  <2>1. \A k \in T : n - k \in Nat
    OBVIOUS
  <2> QED
    BY <2>1
<1>2. \A k \in T : n - k \in U
  OBVIOUS
<1>3. \A u \in U : \E k \in T : u = n - k
  OBVIOUS
<1> HIDE DEF U
<1>4. PICK u \in U : \A v \in U : u <= v
  BY <1>1, LeastElement
<1>5. PICK m \in T : u = n - m
  BY <1>3, <1>4
<1> QED
  BY <1>2, <1>4, <1>5

LEMMA Numbers ==
  ASSUME NEW n \in Nat, NEW S \in SUBSET (1..n)
  PROVE  IsFiniteSet(S) /\ Cardinality(S) \in Nat
<1>1. IsFiniteSet(1..n)
  BY FS_Interval
<1> QED
  BY <1>1, FS_Subset, FS_CardinalityType

LEMMA Older ==
  ASSUME NEW n \in Nat, NEW S \in SUBSET (1..n), NEW e, NEW d, d \in 1..n, e \in 1..n, d <= e
  PROVE  Cardinality({x \in S : x < d}) <= Cardinality({x \in S : x < e})
<1> DEFINE D == {x \in S : x < d}
           E == {x \in S : x < e}
<1>1. D \subseteq E /\ E \subseteq 1..n
  <2>1. \A x \in S : x < d => x < e
    OBVIOUS
  <2> QED
    BY <2>1
<1> HIDE DEF D, E
<1>2. Cardinality(D) <= Cardinality(E)
  BY <1>1, Numbers, FS_Subset
<1> QED
  BY <1>2 DEF D, E

\* Of the entries, the k oldest are k, or all there are; they are older than
\* the others.
LEMMA OldestOf ==
  ASSUME NEW n \in Nat, NEW S \in SUBSET (1..n), NEW k \in Nat
  PROVE  /\ Oldest(S, k) \in SUBSET S
         /\ \A e \in Oldest(S, k), d \in S \ Oldest(S, k) : e < d
         /\ Cardinality(Oldest(S, k)) <= k
         /\ Oldest(S, k) = S \/ Cardinality(Oldest(S, k)) = k
<1> DEFINE O == Oldest(S, k)
           Below(e) == {d \in S : d < e}
<1>1. O \in SUBSET S /\ \A e \in S : e \in O <=> Cardinality(Below(e)) < k
  BY DEF Oldest
<1>2. \A e \in S : Below(e) \in SUBSET S /\ \A d \in S : d \in Below(e) <=> d < e
  OBVIOUS
<1>3. \A e, d \in S : d <= e => Cardinality(Below(d)) <= Cardinality(Below(e))
  BY Older
<1> HIDE DEF O, Below
<1>4. O \in SUBSET (1..n) /\ S \in SUBSET (1..n)
  BY <1>1
<1>5. \A e \in S : IsFiniteSet(Below(e)) /\ Cardinality(Below(e)) \in Nat
  BY <1>2, Numbers
<1>6. IsFiniteSet(O) /\ Cardinality(O) \in Nat
  BY <1>4, Numbers
<1>7. \A e \in O, d \in S \ O : e < d
  BY <1>1, <1>3, <1>4, <1>5
<1>8. Cardinality(O) <= k
  <2>1. CASE O = {}
    BY <2>1, FS_EmptySet
  <2>2. CASE O # {}
    <3>1. PICK m \in O : \A e \in O : e <= m
      BY <1>4, <2>2, GreatestElement
    <3>2. O \ {m} \in SUBSET Below(m)
      BY <1>1, <1>2, <1>4, <3>1
    <3>3. Cardinality(O \ {m}) <= Cardinality(Below(m))
      BY <1>1, <1>5, <3>1, <3>2, FS_Subset
    <3>4. Cardinality(O \ {m}) = Cardinality(O) - 1
      BY <1>6, <3>1, FS_RemoveElement
    <3>5. Cardinality(Below(m)) < k /\ Cardinality(Below(m)) \in Nat
      BY <1>1, <1>5, <3>1
    <3> QED
      BY <1>6, <3>3, <3>4, <3>5
  <2> QED
    BY <2>1, <2>2
<1>9. ASSUME O # S PROVE Cardinality(O) = k
  <2>1. S \ O \subseteq Nat
    <3>1. \A x \in S : x \in Nat
      OBVIOUS
    <3> QED
      BY <3>1
  <2>6. S \ O # {}
    BY <1>1, <1>9
  <2>2. PICK m \in S \ O : \A e \in S \ O : m <= e
    BY <2>1, <2>6, LeastElement
  <2>3. Below(m) \subseteq O
    <3>1. \A d \in S : d < m => d \in O
      BY <2>2
    <3> QED
      BY <1>2, <2>2, <3>1
  <2>4. Cardinality(Below(m)) <= Cardinality(O)
    BY <1>6, <2>3, FS_Subset
  <2>5. ~(Cardinality(Below(m)) < k) /\ Cardinality(Below(m)) \in Nat
    BY <1>1, <1>5, <2>2
  <2> QED
    BY <1>6, <1>8, <2>4, <2>5
<1>10. O = Oldest(S, k)
  BY DEF O
<1> QED
  BY <1>1, <1>7, <1>8, <1>9, <1>10

-----------------------------------------------------------------------------
(* The history: bounded whatever overlaps.  A set of writers that have     *)
(* counted may all end without the table growing past the limit and an     *)
(* entry for each writer that is still at work: there are few enough       *)
(* entries already, or what one of the set is about to delete, the one     *)
(* that counted last, leaves few enough.                                   *)

Stages == {"idle", "settings", "age", "deleteAged", "count", "oldest", "delete"}

WriterRec == [pc : Stages, limit : 0..MostKept, victims : SUBSET Nat, excess : Nat]

HistoryTypes ==
  HistoryTypeOK /\ writer \in [Writers -> WriterRec] /\ pinned \subseteq touched

Working(wr) == {w \in Writers : wr[w].pc # "idle"}
Counted(wr) == {w \in Writers : wr[w].pc \in {"oldest", "delete"}}
Budget(wr, S) == MostKept + Cardinality(Working(wr) \ S)

\* What writer w is about to delete leaves at most b entries the user never pinned.
Trims(h, p, wr, w, b) ==
  \/ wr[w].pc = "oldest" /\ Cardinality(h) <= b + wr[w].excess
  \/ wr[w].pc = "delete" /\ Cardinality((h \ wr[w].victims) \ p) <= b

Trimmed(h, p, wr) ==
  \A S \in SUBSET Counted(wr) :
    \/ Cardinality(h \ p) <= Budget(wr, S)
    \/ \E w \in S : Trims(h, p, wr, w, Budget(wr, S))

\* A writer that nothing overlaps deletes the oldest entries over its limit.
Exact(h, p, wr) ==
  \A w \in Writers :
    /\ wr[w].pc \in {"oldest", "delete"} => Cardinality(h) = wr[w].limit + wr[w].excess
    /\ wr[w].pc = "delete" => wr[w].victims = Oldest(h \ p, wr[w].excess)
Alone(wr) == \A v, w \in Working(wr) : v = w

HistoryInv ==
  /\ HistoryTypes
  /\ Trimmed(history, touched, writer)
  /\ apart => Alone(writer) /\ Exact(history, pinned, writer)

LEMMA Budgets ==
  ASSUME NEW wr, NEW S
  PROVE  /\ IsFiniteSet(Working(wr) \ S) /\ Cardinality(Working(wr) \ S) \in Nat
         /\ Budget(wr, S) \in Nat /\ MostKept <= Budget(wr, S)
<1>1. IsFiniteSet(Working(wr))
  BY HistoryAssumption, FS_Subset DEF Working
<1>2. IsFiniteSet(Working(wr) \ S)
  BY <1>1, FS_Difference
<1>3. Cardinality(Working(wr) \ S) \in Nat
  BY <1>2, FS_CardinalityType
<1> QED
  BY <1>2, <1>3, HistoryAssumption DEF Budget

LEMMA Fewer ==
  ASSUME NEW T, IsFiniteSet(T), NEW S, S \subseteq T
  PROVE  /\ IsFiniteSet(S) /\ Cardinality(S) \in Nat
         /\ Cardinality(T) \in Nat /\ Cardinality(S) <= Cardinality(T)
BY FS_Subset, FS_CardinalityType

\* Entries that go, and entries that the user pins, make room.
LEMMA TrimmedFewer ==
  ASSUME NEW h, IsFiniteSet(h), NEW p, NEW wr, NEW h2, h2 \subseteq h, NEW p2, p \subseteq p2,
         \A w \in Counted(wr) : wr[w].excess \in Nat,
         Trimmed(h, p, wr)
  PROVE  Trimmed(h2, p2, wr)
<1> SUFFICES ASSUME NEW S \in SUBSET Counted(wr)
             PROVE  \/ Cardinality(h2 \ p2) <= Budget(wr, S)
                    \/ \E w \in S : Trims(h2, p2, wr, w, Budget(wr, S))
  BY DEF Trimmed
<1>1. Budget(wr, S) \in Nat
  BY Budgets
<1>2. \/ Cardinality(h \ p) <= Budget(wr, S)
      \/ \E w \in S : Trims(h, p, wr, w, Budget(wr, S))
  BY DEF Trimmed
<1>3. IsFiniteSet(h \ p)
  BY Fewer
<1>4. CASE Cardinality(h \ p) <= Budget(wr, S)
  <2>1. /\ Cardinality(h \ p) \in Nat /\ Cardinality(h2 \ p2) \in Nat
        /\ Cardinality(h2 \ p2) <= Cardinality(h \ p)
    BY <1>3, Fewer
  <2> QED
    BY <1>1, <1>4, <2>1
<1>5. ASSUME NEW w \in S, Trims(h, p, wr, w, Budget(wr, S))
      PROVE  Trims(h2, p2, wr, w, Budget(wr, S))
  <2>1. Cardinality(h) \in Nat /\ Cardinality(h2) \in Nat /\ Cardinality(h2) <= Cardinality(h)
    BY Fewer
  <2> DEFINE left == (h \ wr[w].victims) \ p
             left2 == (h2 \ wr[w].victims) \ p2
  <2>2. left \subseteq h /\ left2 \subseteq left
    OBVIOUS
  <2>3. Trims(h, p, wr, w, Budget(wr, S)) <=>
          \/ wr[w].pc = "oldest" /\ Cardinality(h) <= Budget(wr, S) + wr[w].excess
          \/ wr[w].pc = "delete" /\ Cardinality(left) <= Budget(wr, S)
    BY DEF Trims
  <2>4. Trims(h2, p2, wr, w, Budget(wr, S)) <=>
          \/ wr[w].pc = "oldest" /\ Cardinality(h2) <= Budget(wr, S) + wr[w].excess
          \/ wr[w].pc = "delete" /\ Cardinality(left2) <= Budget(wr, S)
    BY DEF Trims
  <2> HIDE DEF left, left2
  <2>5. IsFiniteSet(left)
    BY <2>2, Fewer
  <2>6. Cardinality(left) \in Nat /\ Cardinality(left2) \in Nat
        /\ Cardinality(left2) <= Cardinality(left)
    BY <2>2, <2>5, Fewer
  <2>7. wr[w].excess \in Nat
    OBVIOUS
  <2> QED
    BY <1>1, <1>5, <2>1, <2>3, <2>4, <2>6, <2>7
<1> QED
  BY <1>2, <1>4, <1>5

\* Writers that have not counted yet move on.
LEMMA TrimmedMoves ==
  ASSUME NEW h, NEW p, NEW wr, NEW wr2,
         Working(wr2) = Working(wr), Counted(wr2) = Counted(wr),
         \A w \in Counted(wr) : wr2[w] = wr[w],
         Trimmed(h, p, wr)
  PROVE  Trimmed(h, p, wr2)
<1>1. \A S : Budget(wr2, S) = Budget(wr, S)
  BY DEF Budget
<1>2. \A b : \A w \in Counted(wr) : Trims(h, p, wr2, w, b) <=> Trims(h, p, wr, w, b)
  BY DEF Trims
<1> QED
  BY <1>1, <1>2 DEF Trimmed

\* A writer adds its entry.
LEMMA TrimmedAdds ==
  ASSUME NEW h, IsFiniteSet(h), NEW p, NEW wr, NEW wr2, NEW e, NEW w \in Writers,
         wr[w].pc = "idle", wr2[w].pc = "settings",
         \A v \in Writers \ {w} : wr2[v] = wr[v],
         \A v \in Counted(wr) : wr[v].excess \in Nat,
         Trimmed(h, p, wr)
  PROVE  Trimmed(h \union {e}, p, wr2)
<1>1. /\ Working(wr2) = Working(wr) \union {w} /\ w \notin Working(wr)
      /\ Counted(wr2) = Counted(wr) /\ w \notin Counted(wr)
      /\ \A v \in Counted(wr) : wr2[v] = wr[v]
  BY DEF Working, Counted
<1>2. ASSUME NEW S \in SUBSET Counted(wr)
      PROVE  /\ Budget(wr2, S) = Budget(wr, S) + 1 /\ Budget(wr, S) \in Nat
  <2> DEFINE rest == Working(wr) \ S
  <2>1. Working(wr2) \ S = rest \union {w} /\ w \notin rest
    BY <1>1
  <2>2. IsFiniteSet(rest) /\ Cardinality(rest) \in Nat
    BY Budgets
  <2> HIDE DEF rest
  <2>3. Cardinality(rest \union {w}) = Cardinality(rest) + 1
    BY <2>1, <2>2, FS_AddElement
  <2>4. Budget(wr2, S) = MostKept + (Cardinality(rest) + 1) /\ Budget(wr, S) = MostKept + Cardinality(rest)
    BY <2>1, <2>3 DEF Budget, rest
  <2> QED
    BY <2>2, <2>4, HistoryAssumption
<1>3. ASSUME NEW x, IsFiniteSet(x), NEW y, y \subseteq x \union {e}
      PROVE  Cardinality(y) \in Nat /\ Cardinality(x) \in Nat /\ Cardinality(y) <= Cardinality(x) + 1
  <2>1. /\ IsFiniteSet(x \union {e}) /\ Cardinality(x) \in Nat
        /\ Cardinality(x \union {e}) <= Cardinality(x) + 1
    <3>1. Cardinality(x) \in Nat
      BY <1>3, FS_CardinalityType
    <3>2. /\ IsFiniteSet(x \union {e})
          /\ Cardinality(x \union {e}) = IF e \in x THEN Cardinality(x) ELSE Cardinality(x) + 1
      BY <1>3, FS_AddElement
    <3> QED
      BY <3>1, <3>2
  <2>2. /\ Cardinality(y) \in Nat /\ Cardinality(x \union {e}) \in Nat
        /\ Cardinality(y) <= Cardinality(x \union {e})
    BY <1>3, <2>1, Fewer
  <2> QED
    BY <2>1, <2>2
<1>4. SUFFICES ASSUME NEW S \in SUBSET Counted(wr)
               PROVE  \/ Cardinality((h \union {e}) \ p) <= Budget(wr2, S)
                      \/ \E v \in S : Trims(h \union {e}, p, wr2, v, Budget(wr2, S))
  BY <1>1 DEF Trimmed
<1>5. \/ Cardinality(h \ p) <= Budget(wr, S)
      \/ \E v \in S : Trims(h, p, wr, v, Budget(wr, S))
  BY DEF Trimmed
<1>6. CASE Cardinality(h \ p) <= Budget(wr, S)
  <2>1. IsFiniteSet(h \ p) /\ (h \union {e}) \ p \subseteq (h \ p) \union {e}
    BY Fewer
  <2>2. /\ Cardinality((h \union {e}) \ p) \in Nat /\ Cardinality(h \ p) \in Nat
        /\ Cardinality((h \union {e}) \ p) <= Cardinality(h \ p) + 1
    BY <1>3, <2>1
  <2> QED
    BY <1>2, <1>6, <2>2
<1>7. ASSUME NEW v \in S, Trims(h, p, wr, v, Budget(wr, S))
      PROVE  Trims(h \union {e}, p, wr2, v, Budget(wr2, S))
  <2>1. /\ Cardinality(h \union {e}) \in Nat /\ Cardinality(h) \in Nat
        /\ Cardinality(h \union {e}) <= Cardinality(h) + 1
    BY <1>3
  <2> DEFINE left == (h \ wr[v].victims) \ p
             left2 == ((h \union {e}) \ wr[v].victims) \ p
  <2>2. left \subseteq h /\ left2 \subseteq left \union {e}
    OBVIOUS
  <2>3. Trims(h, p, wr, v, Budget(wr, S)) <=>
          \/ wr[v].pc = "oldest" /\ Cardinality(h) <= Budget(wr, S) + wr[v].excess
          \/ wr[v].pc = "delete" /\ Cardinality(left) <= Budget(wr, S)
    BY DEF Trims
  <2>4. Trims(h \union {e}, p, wr2, v, Budget(wr2, S)) <=>
          \/ wr[v].pc = "oldest" /\ Cardinality(h \union {e}) <= Budget(wr2, S) + wr[v].excess
          \/ wr[v].pc = "delete" /\ Cardinality(left2) <= Budget(wr2, S)
    BY <1>1 DEF Trims
  <2> HIDE DEF left, left2
  <2>5. IsFiniteSet(left)
    BY <2>2, Fewer
  <2>6. Cardinality(left) \in Nat /\ Cardinality(left2) \in Nat
        /\ Cardinality(left2) <= Cardinality(left) + 1
    BY <1>3, <2>2, <2>5
  <2>7. wr[v].excess \in Nat
    OBVIOUS
  <2> QED
    BY <1>2, <1>7, <2>1, <2>3, <2>4, <2>6, <2>7
<1> QED
  BY <1>5, <1>6, <1>7

\* A writer counts: over its limit, it is the one that counted last.
LEMMA TrimmedCounts ==
  ASSUME NEW h, IsFiniteSet(h), NEW p, NEW wr, NEW wr2, NEW w \in Writers,
         wr[w].pc = "count", wr[w].limit \in Nat, wr[w].limit <= MostKept,
         \A v \in Writers \ {w} : wr2[v] = wr[v],
         IF Cardinality(h) > wr[w].limit
           THEN wr2[w].pc = "oldest" /\ wr2[w].excess = Cardinality(h) - wr[w].limit
           ELSE wr2[w].pc = "idle",
         Trimmed(h, p, wr)
  PROVE  Trimmed(h, p, wr2)
<1>1. Cardinality(h) \in Nat
  BY FS_CardinalityType
<1>2. CASE Cardinality(h) > wr[w].limit
  <2>1. /\ Working(wr2) = Working(wr) /\ Counted(wr2) = Counted(wr) \union {w}
        /\ \A v \in Counted(wr) : wr2[v] = wr[v]
    BY <1>2 DEF Working, Counted
  <2>2. \A S : Budget(wr2, S) = Budget(wr, S) /\ Budget(wr, S) \in Nat
    BY <2>1, Budgets DEF Budget
  <2>3. ASSUME NEW S \in SUBSET Counted(wr2), w \in S
        PROVE  Trims(h, p, wr2, w, Budget(wr2, S))
    <3>1. Budget(wr2, S) \in Nat /\ MostKept <= Budget(wr2, S)
      BY Budgets
    <3>2. wr2[w].pc = "oldest" /\ Cardinality(h) = wr[w].limit + wr2[w].excess /\ wr2[w].excess \in Nat
      BY <1>1, <1>2
    <3>3. Cardinality(h) <= Budget(wr2, S) + wr2[w].excess
      BY <1>1, <3>1, <3>2, HistoryAssumption
    <3> QED
      BY <3>2, <3>3 DEF Trims
  <2>4. ASSUME NEW S \in SUBSET Counted(wr2), w \notin S
        PROVE  \/ Cardinality(h \ p) <= Budget(wr2, S)
               \/ \E v \in S : Trims(h, p, wr2, v, Budget(wr2, S))
    <3>1. S \in SUBSET Counted(wr)
      BY <2>1, <2>4
    <3>2. \A b : \A v \in S : Trims(h, p, wr2, v, b) <=> Trims(h, p, wr, v, b)
      BY <2>1, <3>1 DEF Trims
    <3> QED
      BY <2>2, <3>1, <3>2 DEF Trimmed
  <2> QED
    BY <2>3, <2>4 DEF Trimmed
<1>3. CASE ~(Cardinality(h) > wr[w].limit)
  <2>1. ASSUME NEW S \in SUBSET Counted(wr2) PROVE Cardinality(h \ p) <= Budget(wr2, S)
    <3>1. Budget(wr2, S) \in Nat /\ MostKept <= Budget(wr2, S)
      BY Budgets
    <3>2. Cardinality(h \ p) \in Nat /\ Cardinality(h \ p) <= Cardinality(h)
      BY Fewer
    <3> QED
      BY <1>1, <1>3, <3>1, <3>2, HistoryAssumption
  <2> QED
    BY <2>1 DEF Trimmed
<1> QED
  BY <1>2, <1>3

\* A writer picks the oldest of what is over its limit, or all there is.
LEMMA TrimmedPicks ==
  ASSUME NEW n \in Nat, NEW h \in SUBSET (1..n), NEW q, NEW p, q \subseteq p,
         NEW wr, NEW wr2, NEW w \in Writers,
         wr[w].pc = "oldest", wr2[w].pc = "delete", wr[w].excess \in Nat,
         wr2[w].victims = Oldest(h \ q, wr[w].excess),
         \A v \in Writers \ {w} : wr2[v] = wr[v],
         Trimmed(h, p, wr)
  PROVE  Trimmed(h, p, wr2)
<1>1. /\ Working(wr2) = Working(wr) /\ Counted(wr2) = Counted(wr)
      /\ \A v \in Counted(wr) \ {w} : wr2[v] = wr[v]
  BY DEF Working, Counted
<1>2. \A S : Budget(wr2, S) = Budget(wr, S) /\ Budget(wr, S) \in Nat
  BY <1>1, Budgets DEF Budget
<1>3. \A b : \A v \in Counted(wr) \ {w} : Trims(h, p, wr2, v, b) <=> Trims(h, p, wr, v, b)
  BY <1>1 DEF Trims
<1> DEFINE V == wr2[w].victims
<1>4. /\ V \subseteq h \ q
      /\ V = h \ q \/ Cardinality(V) = wr[w].excess
  <2>1. h \ q \in SUBSET (1..n)
    OBVIOUS
  <2>2. ASSUME NEW S \in SUBSET (1..n)
        PROVE  /\ Oldest(S, wr[w].excess) \subseteq S
               /\ Oldest(S, wr[w].excess) = S \/ Cardinality(Oldest(S, wr[w].excess)) = wr[w].excess
    BY OldestOf
  <2> QED
    BY <2>1, <2>2
<1> HIDE DEF V
<1>5. /\ IsFiniteSet(h) /\ Cardinality(h) \in Nat
  BY Numbers
<1>6. ASSUME NEW b \in Nat, Trims(h, p, wr, w, b)
      PROVE  Trims(h, p, wr2, w, b) \/ Cardinality(h \ p) <= b
  <2>1. Cardinality(h) <= b + wr[w].excess
    BY <1>6 DEF Trims
  <2>2. CASE V = h \ q
    <3>1. (h \ V) \ p = {}
      BY <2>2
    <3>2. Cardinality((h \ V) \ p) <= b
      BY <3>1, FS_EmptySet
    <3> QED
      BY <3>2 DEF Trims, V
  <2>3. CASE Cardinality(V) = wr[w].excess
    <3>1. h \cap V = V
      BY <1>4
    <3>2. IsFiniteSet(h \ V) /\ Cardinality(h \ V) = Cardinality(h) - wr[w].excess
      <4>1. IsFiniteSet(h \ V) /\ Cardinality(h \ V) = Cardinality(h) - Cardinality(h \cap V)
        BY <1>5, FS_Difference
      <4> QED
        BY <2>3, <3>1, <4>1
    <3>3. /\ Cardinality((h \ V) \ p) \in Nat /\ Cardinality(h \ V) \in Nat
          /\ Cardinality((h \ V) \ p) <= Cardinality(h \ V)
      BY <3>2, Fewer
    <3>4. Cardinality((h \ V) \ p) <= b
      BY <1>5, <2>1, <3>2, <3>3
    <3> QED
      BY <3>4 DEF Trims, V
  <2> QED
    BY <1>4, <2>2, <2>3
<1> QED
  BY <1>1, <1>2, <1>3, <1>6 DEF Trimmed

\* A writer deletes what it picked, and is no longer at work.
LEMMA TrimmedDeletes ==
  ASSUME NEW h, IsFiniteSet(h), NEW p, NEW wr, NEW wr2, NEW w \in Writers,
         wr[w].pc = "delete", wr2[w].pc = "idle",
         \A v \in Writers \ {w} : wr2[v] = wr[v],
         \A v \in Counted(wr) : wr[v].excess \in Nat,
         Trimmed(h, p, wr)
  PROVE  Trimmed(h \ wr[w].victims, p, wr2)
<1> DEFINE h2 == h \ wr[w].victims
<1>1. Trimmed(h2, p, wr)
  BY TrimmedFewer
<1>2. /\ Working(wr2) = Working(wr) \ {w} /\ Counted(wr2) = Counted(wr) \ {w}
      /\ w \in Counted(wr) /\ \A v \in Counted(wr2) : wr2[v] = wr[v]
  BY DEF Working, Counted
<1>3. ASSUME NEW S \in SUBSET Counted(wr2)
      PROVE  \/ Cardinality(h2 \ p) <= Budget(wr2, S)
             \/ \E v \in S : Trims(h2, p, wr2, v, Budget(wr2, S))
  <2> DEFINE S2 == S \union {w}
  <2>1. S2 \in SUBSET Counted(wr) /\ Working(wr) \ S2 = Working(wr2) \ S
    BY <1>2
  <2>2. Budget(wr, S2) = Budget(wr2, S)
    BY <2>1 DEF Budget
  <2>3. \/ Cardinality(h2 \ p) <= Budget(wr, S2)
        \/ \E v \in S2 : Trims(h2, p, wr, v, Budget(wr, S2))
    BY <1>1, <2>1 DEF Trimmed
  <2>4. ASSUME Trims(h2, p, wr, w, Budget(wr, S2)) PROVE Cardinality(h2 \ p) <= Budget(wr, S2)
    <3>1. (h2 \ wr[w].victims) \ p = h2 \ p
      OBVIOUS
    <3> QED
      BY <2>4, <3>1 DEF Trims
  <2>5. \A b : \A v \in S : Trims(h2, p, wr2, v, b) <=> Trims(h2, p, wr, v, b)
    BY <1>2 DEF Trims
  <2> HIDE DEF h2
  <2> QED
    BY <2>2, <2>3, <2>4, <2>5
<1> HIDE DEF h2
<1>4. Trimmed(h2, p, wr2)
  BY <1>3 DEF Trimmed
<1> QED
  BY <1>4 DEF h2

LEMMA HistoryInitially == HistoryInit => HistoryInv
<1> SUFFICES ASSUME HistoryInit PROVE HistoryInv
  OBVIOUS
<1>1. HistoryTypes
  BY HistoryAssumption DEF HistoryInit, HistoryTypes, HistoryTypeOK, IdleWriter, Stages, WriterRec
<1>2. \A w \in Writers : writer[w].pc = "idle"
  BY DEF HistoryInit, IdleWriter
<1>3. Trimmed(history, touched, writer)
  <2>1. Cardinality(history \ touched) = 0
    BY FS_EmptySet DEF HistoryInit
  <2>2. ASSUME NEW S PROVE Cardinality(history \ touched) <= Budget(writer, S)
    <3>1. Budget(writer, S) \in Nat
      BY Budgets
    <3> QED
      BY <2>1, <3>1
  <2> QED
    BY <2>2 DEF Trimmed
<1>4. Alone(writer) /\ Exact(history, pinned, writer)
  BY <1>2 DEF Alone, Exact, Working
<1> QED
  BY <1>1, <1>3, <1>4 DEF HistoryInv

\* What the types say of the entries.
LEMMA HistoryFacts ==
  ASSUME HistoryTypes
  PROVE  /\ added \in Nat /\ aged \in 0..added
         /\ history \in SUBSET (1..added) /\ pinned \subseteq history /\ touched \subseteq 1..added
         /\ pinned \subseteq touched
         /\ IsFiniteSet(history) /\ Cardinality(history) \in Nat
         /\ writer \in [Writers -> WriterRec]
         /\ \A w \in Writers : /\ writer[w].victims \subseteq 1..added
                               /\ writer[w].excess \in Nat
                               /\ writer[w].limit \in Nat /\ writer[w].limit <= MostKept
<1>1. /\ added \in Nat /\ aged \in 0..added
      /\ history \in SUBSET (1..added) /\ pinned \subseteq history /\ touched \subseteq 1..added
      /\ pinned \subseteq touched
      /\ writer \in [Writers -> WriterRec]
      /\ \A w \in Writers : writer[w].victims \subseteq 1..added
  BY HistoryAssumption DEF HistoryTypes, HistoryTypeOK
<1>2. IsFiniteSet(history) /\ Cardinality(history) \in Nat
  BY <1>1, Numbers
<1>3. \A w \in Writers : /\ writer[w].excess \in Nat
                         /\ writer[w].limit \in Nat /\ writer[w].limit <= MostKept
  BY <1>1, HistoryAssumption DEF WriterRec
<1> QED
  BY <1>1, <1>2, <1>3

\* A step of a writer that keeps the types.
LEMMA WriterTypes ==
  ASSUME HistoryTypes, UNCHANGED settings, touched' = touched,
         added' \in 0..HistoryMax, added <= added', aged' = aged,
         history' \subseteq 1..added', pinned' \subseteq history', pinned' \subseteq pinned,
         NEW w \in Writers, NEW pc \in Stages, NEW limit \in 0..MostKept,
         NEW victims \in SUBSET (1..added), NEW excess \in Nat,
         Go(w, pc, limit, victims, excess)
  PROVE  HistoryTypes'
<1>1. /\ writer \in [Writers -> WriterRec] /\ HistoryMax \in Nat /\ added \in Nat
      /\ \A v \in Writers : writer[v].victims \subseteq 1..added
      /\ settings \in [max : Limits, days : BOOLEAN] /\ aged \in 0..added
      /\ touched \subseteq 1..added /\ pinned \subseteq touched
  BY HistoryAssumption DEF HistoryTypes, HistoryTypeOK
<1>2. 1..added \subseteq 1..added' /\ aged \in 0..added'
  BY <1>1
<1>3. victims \in SUBSET Nat
  <2>1. \A x \in 1..added : x \in Nat
    BY <1>1
  <2> QED
    BY <2>1
<1>4. [pc |-> pc, limit |-> limit, victims |-> victims, excess |-> excess] \in WriterRec
  BY <1>3 DEF WriterRec
<1>5. writer' \in [Writers -> WriterRec]
  BY <1>1, <1>4 DEF Go
<1>6. \A v \in Writers : writer'[v].victims \subseteq 1..added'
  BY <1>1, <1>2 DEF Go
<1> QED
  BY <1>1, <1>2, <1>5, <1>6 DEF HistoryTypes, HistoryTypeOK

LEMMA HistoryTypesKept == HistoryTypes /\ [HistoryNext]_historyVars => HistoryTypes'
<1> SUFFICES ASSUME HistoryTypes, [HistoryNext]_historyVars PROVE HistoryTypes'
  OBVIOUS
<1>1. /\ added \in 0..HistoryMax /\ aged \in 0..added /\ added \in Nat /\ HistoryMax \in Nat
      /\ history \subseteq 1..added /\ pinned \subseteq history /\ touched \subseteq 1..added
      /\ pinned \subseteq touched
      /\ settings \in [max : Limits, days : BOOLEAN] /\ Cardinality(history) \in Nat
      /\ writer \in [Writers -> WriterRec]
      /\ \A w \in Writers : writer[w].victims \subseteq 1..added
      /\ 0 \in 0..MostKept /\ {} \in SUBSET (1..added)
  BY HistoryAssumption, HistoryFacts DEF HistoryTypes, HistoryTypeOK
<1>2. \A w \in Writers : /\ writer[w].limit \in 0..MostKept /\ writer[w].limit \in Nat
                         /\ writer[w].excess \in Nat /\ writer[w].victims \in SUBSET (1..added)
  BY <1>1, HistoryAssumption DEF WriterRec
<1>3. \A s \in {"idle", "settings", "age", "deleteAged", "count", "oldest", "delete"} : s \in Stages
  BY DEF Stages
<1>4. CASE UNCHANGED historyVars
  BY <1>4 DEF historyVars, HistoryTypes, HistoryTypeOK
<1>5. ASSUME NEW w \in Writers, addHistory(w) PROVE HistoryTypes'
  <2>1. added' \in 0..HistoryMax /\ added <= added'
        /\ history' \subseteq 1..added' /\ pinned' \subseteq history' /\ pinned' \subseteq pinned
    <3>1. /\ added' = added + 1 /\ added < HistoryMax
          /\ history' = history \union {added + 1} /\ pinned' = pinned
      BY <1>5 DEF addHistory
    <3>2. \A e \in 1..added : e \in 1..(added + 1)
      BY <1>1
    <3> QED
      BY <1>1, <3>1, <3>2
  <2>2. Go(w, "settings", 0, {}, 0) /\ UNCHANGED <<settings, touched, aged>>
    BY <1>5 DEF addHistory
  <2> QED
    BY <1>1, <1>3, <2>1, <2>2, WriterTypes
<1>6. ASSUME UNCHANGED <<added, aged, settings, touched>>,
             history' \subseteq history, pinned' \subseteq pinned \cap history'
      PROVE  /\ added' \in 0..HistoryMax /\ added <= added' /\ aged' = aged
             /\ history' \subseteq 1..added' /\ pinned' \subseteq history' /\ pinned' \subseteq pinned
  BY <1>1, <1>6
<1>7. ASSUME NEW w \in Writers, ReadSettings(w) PROVE HistoryTypes'
  <2> DEFINE limit == IF settings.max > 0 THEN settings.max ELSE HISTORY_LIMIT
             pc == IF settings.days THEN "age" ELSE "count"
  <2>1. limit \in 0..MostKept
    <3>1. settings.max \in Limits
      BY <1>1
    <3>2. limit \in Limits \union {HISTORY_LIMIT}
      BY <3>1
    <3>3. \A l \in Limits \union {HISTORY_LIMIT} : l \in 0..MostKept
      BY HistoryAssumption
    <3> QED
      BY <3>2, <3>3
  <2>2. pc \in Stages
    BY <1>3
  <2>3. Go(w, pc, limit, {}, 0)
    BY <1>7 DEF ReadSettings
  <2> HIDE DEF limit, pc
  <2>4. UNCHANGED <<added, aged, settings, touched, history, pinned>>
    BY <1>7 DEF ReadSettings
  <2> QED
    BY <1>1, <1>2, <1>6, <2>1, <2>2, <2>3, <2>4, WriterTypes
<1>8. ASSUME NEW w \in Writers, PickAged(w) PROVE HistoryTypes'
  <2> DEFINE old == {e \in Unpinned : e <= aged}
  <2>1. old \in SUBSET (1..added)
    <3>1. Unpinned \subseteq 1..added
      BY <1>1 DEF Unpinned
    <3> QED
      BY <3>1
  <2>2. Go(w, "deleteAged", writer[w].limit, old, 0)
    BY <1>8 DEF PickAged
  <2> HIDE DEF old
  <2>3. UNCHANGED <<added, aged, settings, touched, history, pinned>>
    BY <1>8 DEF PickAged
  <2> QED
    BY <1>1, <1>2, <1>3, <1>6, <2>1, <2>2, <2>3, WriterTypes
<1>9. ASSUME NEW w \in Writers, DeleteAged(w) PROVE HistoryTypes'
  <2>1. Go(w, "count", writer[w].limit, {}, 0)
    BY <1>9 DEF DeleteAged
  <2>2. UNCHANGED <<added, aged, settings, touched>> /\ history' \subseteq history
        /\ pinned' \subseteq pinned \cap history'
    BY <1>1, <1>9 DEF DeleteAged, Remove
  <2> QED
    BY <1>1, <1>2, <1>3, <1>6, <2>1, <2>2, WriterTypes
<1>10. ASSUME NEW w \in Writers, CountEntries(w) PROVE HistoryTypes'
  <2>1. UNCHANGED <<added, aged, settings, touched, history, pinned>>
    BY <1>10 DEF CountEntries
  <2>2. CASE Cardinality(history) > writer[w].limit
    <3>1. Cardinality(history) - writer[w].limit \in Nat
      BY <1>1, <1>2, <2>2
    <3>2. Go(w, "oldest", writer[w].limit, {}, Cardinality(history) - writer[w].limit)
      BY <1>10, <2>2 DEF CountEntries
    <3> QED
      BY <1>1, <1>2, <1>3, <1>6, <2>1, <3>1, <3>2, WriterTypes
  <2>3. CASE ~(Cardinality(history) > writer[w].limit)
    <3>1. Go(w, "idle", 0, {}, 0)
      BY <1>10, <2>3 DEF CountEntries, Rest
    <3> QED
      BY <1>1, <1>3, <1>6, <2>1, <3>1, WriterTypes
  <2> QED
    BY <2>2, <2>3
<1>11. ASSUME NEW w \in Writers, PickOldest(w) PROVE HistoryTypes'
  <2> DEFINE old == Oldest(Unpinned, writer[w].excess)
  <2>1. old \in SUBSET (1..added)
    <3>1. Unpinned \subseteq 1..added
      BY <1>1 DEF Unpinned
    <3> QED
      BY <3>1 DEF Oldest
  <2>2. Go(w, "delete", writer[w].limit, old, writer[w].excess)
    BY <1>11 DEF PickOldest
  <2> HIDE DEF old
  <2>3. UNCHANGED <<added, aged, settings, touched, history, pinned>>
    BY <1>11 DEF PickOldest
  <2> QED
    BY <1>1, <1>2, <1>3, <1>6, <2>1, <2>2, <2>3, WriterTypes
<1>12. ASSUME NEW w \in Writers, DeleteOldest(w) PROVE HistoryTypes'
  <2>1. Go(w, "idle", 0, {}, 0)
    BY <1>12 DEF DeleteOldest, Rest
  <2>2. UNCHANGED <<added, aged, settings, touched>> /\ history' \subseteq history
        /\ pinned' \subseteq pinned \cap history'
    BY <1>1, <1>12 DEF DeleteOldest, Remove
  <2> QED
    BY <1>1, <1>3, <1>6, <2>1, <2>2, WriterTypes
<1>13. ASSUME NEW e \in history, pinHistoryEntry(e) PROVE HistoryTypes'
  <2>1. pinned' \subseteq history /\ touched' \subseteq 1..added /\ pinned' \subseteq touched'
    BY <1>1, <1>13 DEF pinHistoryEntry
  <2> QED
    BY <1>1, <1>13, <2>1 DEF pinHistoryEntry, User, HistoryTypes, HistoryTypeOK
<1>14. CASE clearHistory
  BY <1>1, <1>14 DEF clearHistory, User, Remove, HistoryTypes, HistoryTypeOK
<1>15. ASSUME NEW e \in history, deleteHistoryEntries({e}) PROVE HistoryTypes'
  BY <1>1, <1>15 DEF deleteHistoryEntries, User, Remove, HistoryTypes, HistoryTypeOK
<1>16. ASSUME NEW s \in [max : Limits, days : BOOLEAN], setRetentionSettings(s) PROVE HistoryTypes'
  BY <1>1, <1>16 DEF setRetentionSettings, User, HistoryTypes, HistoryTypeOK
<1>17. CASE TimePasses
  <2>1. aged' \in 0..added
    BY <1>1, <1>17 DEF TimePasses
  <2> QED
    BY <1>1, <1>17, <2>1 DEF TimePasses, HistoryTypes, HistoryTypeOK
<1> QED
  BY <1>4, <1>5, <1>7, <1>8, <1>9, <1>10, <1>11, <1>12, <1>13, <1>14, <1>15, <1>16, <1>17
     DEF HistoryNext

LEMMA WentOn ==
  ASSUME HistoryTypes, NEW w \in Writers, NEW pc, NEW limit, NEW victims, NEW excess,
         Go(w, pc, limit, victims, excess)
  PROVE  /\ writer'[w].pc = pc /\ writer'[w].limit = limit
         /\ writer'[w].victims = victims /\ writer'[w].excess = excess
         /\ \A v \in Writers \ {w} : writer'[v] = writer[v]
BY DEF HistoryTypes, Go

\* What the table holds stays trimmed.
LEMMA TrimmedKept ==
  ASSUME HistoryTypes, Trimmed(history, touched, writer), [HistoryNext]_historyVars
  PROVE  Trimmed(history', touched', writer')
<1>1. /\ history \in SUBSET (1..added) /\ pinned \subseteq touched /\ added \in Nat
      /\ IsFiniteSet(history) /\ Cardinality(history) \in Nat
      /\ writer \in [Writers -> WriterRec]
      /\ \A w \in Writers : /\ writer[w].excess \in Nat
                            /\ writer[w].limit \in Nat /\ writer[w].limit <= MostKept
  BY HistoryFacts
<1>2. \A w \in Counted(writer) : writer[w].excess \in Nat
  BY <1>1 DEF Counted
<1>3. ASSUME writer' = writer, history' \subseteq history, touched \subseteq touched'
      PROVE  Trimmed(history', touched', writer')
  <2>1. Trimmed(history', touched', writer)
    BY <1>1, <1>2, <1>3, TrimmedFewer
  <2> QED
    BY <1>3, <2>1
<1>4. ASSUME NEW w \in Writers, \A v \in Writers \ {w} : writer'[v] = writer[v],
             writer[w].pc \notin {"idle", "oldest", "delete"},
             writer'[w].pc \notin {"idle", "oldest", "delete"},
             history' \subseteq history, touched' = touched
      PROVE  Trimmed(history', touched', writer')
  <2>1. /\ Working(writer') = Working(writer) /\ Counted(writer') = Counted(writer)
        /\ \A v \in Counted(writer) : writer'[v] = writer[v]
    BY <1>4 DEF Working, Counted
  <2>2. Trimmed(history', touched, writer)
    BY <1>1, <1>2, <1>4, TrimmedFewer
  <2>3. Trimmed(history', touched, writer')
    BY <2>1, <2>2, TrimmedMoves
  <2> QED
    BY <1>4, <2>3
<1>5. CASE UNCHANGED historyVars
  BY <1>5 DEF historyVars
<1>6. ASSUME NEW w \in Writers, addHistory(w) PROVE Trimmed(history', touched', writer')
  <2>1. /\ writer[w].pc = "idle" /\ writer'[w].pc = "settings"
        /\ \A v \in Writers \ {w} : writer'[v] = writer[v]
    BY <1>6, WentOn DEF addHistory, AtWork
  <2>2. history' = history \union {added + 1} /\ touched' = touched
    BY <1>6 DEF addHistory
  <2>3. Trimmed(history \union {added + 1}, touched, writer')
    BY <1>1, <1>2, <2>1, TrimmedAdds
  <2> QED
    BY <2>2, <2>3
<1>7. ASSUME NEW w \in Writers, ReadSettings(w) PROVE Trimmed(history', touched', writer')
  <2>1. /\ writer[w].pc = "settings" /\ writer'[w].pc \in {"age", "count"}
        /\ \A v \in Writers \ {w} : writer'[v] = writer[v]
    BY <1>7, WentOn DEF ReadSettings
  <2> QED
    BY <1>4, <1>7, <2>1 DEF ReadSettings
<1>8. ASSUME NEW w \in Writers, PickAged(w) PROVE Trimmed(history', touched', writer')
  <2>1. /\ writer[w].pc = "age" /\ writer'[w].pc = "deleteAged"
        /\ \A v \in Writers \ {w} : writer'[v] = writer[v]
    BY <1>8, WentOn DEF PickAged
  <2> QED
    BY <1>4, <1>8, <2>1 DEF PickAged
<1>9. ASSUME NEW w \in Writers, DeleteAged(w) PROVE Trimmed(history', touched', writer')
  <2>1. /\ writer[w].pc = "deleteAged" /\ writer'[w].pc = "count"
        /\ \A v \in Writers \ {w} : writer'[v] = writer[v]
    BY <1>9, WentOn DEF DeleteAged
  <2>2. history' \subseteq history /\ touched' = touched
    BY <1>9 DEF DeleteAged, Remove
  <2> QED
    BY <1>4, <2>1, <2>2
<1>10. ASSUME NEW w \in Writers, CountEntries(w) PROVE Trimmed(history', touched', writer')
  <2>1. writer[w].pc = "count" /\ history' = history /\ touched' = touched
    BY <1>10 DEF CountEntries
  <2>2. /\ \A v \in Writers \ {w} : writer'[v] = writer[v]
        /\ IF Cardinality(history) > writer[w].limit
             THEN writer'[w].pc = "oldest" /\ writer'[w].excess = Cardinality(history) - writer[w].limit
             ELSE writer'[w].pc = "idle"
    <3>1. CASE Cardinality(history) > writer[w].limit
      <4>1. Go(w, "oldest", writer[w].limit, {}, Cardinality(history) - writer[w].limit)
        BY <1>10, <3>1 DEF CountEntries
      <4> QED
        BY <3>1, <4>1, WentOn
    <3>2. CASE ~(Cardinality(history) > writer[w].limit)
      <4>1. Go(w, "idle", 0, {}, 0)
        BY <1>10, <3>2 DEF CountEntries, Rest
      <4> QED
        BY <3>2, <4>1, WentOn
    <3> QED
      BY <3>1, <3>2
  <2>3. Trimmed(history, touched, writer')
    BY <1>1, <2>1, <2>2, TrimmedCounts
  <2> QED
    BY <2>1, <2>3
<1>11. ASSUME NEW w \in Writers, PickOldest(w) PROVE Trimmed(history', touched', writer')
  <2>1. /\ writer[w].pc = "oldest" /\ history' = history /\ touched' = touched
        /\ Go(w, "delete", writer[w].limit, Oldest(Unpinned, writer[w].excess), writer[w].excess)
    BY <1>11 DEF PickOldest
  <2>2. /\ writer'[w].pc = "delete" /\ writer'[w].victims = Oldest(history \ pinned, writer[w].excess)
        /\ \A v \in Writers \ {w} : writer'[v] = writer[v]
    BY <2>1, WentOn DEF Unpinned
  <2>3. Trimmed(history, touched, writer')
    BY <1>1, <2>1, <2>2, TrimmedPicks
  <2> QED
    BY <2>1, <2>3
<1>12. ASSUME NEW w \in Writers, DeleteOldest(w) PROVE Trimmed(history', touched', writer')
  <2>1. /\ writer[w].pc = "delete" /\ history' = history \ writer[w].victims /\ touched' = touched
        /\ Go(w, "idle", 0, {}, 0)
    BY <1>12 DEF DeleteOldest, Remove, Rest
  <2>2. writer'[w].pc = "idle" /\ \A v \in Writers \ {w} : writer'[v] = writer[v]
    BY <2>1, WentOn
  <2>3. Trimmed(history \ writer[w].victims, touched, writer')
    BY <1>1, <1>2, <2>1, <2>2, TrimmedDeletes
  <2> QED
    BY <2>1, <2>3
<1>13. ASSUME NEW e \in history, pinHistoryEntry(e) PROVE Trimmed(history', touched', writer')
  BY <1>3, <1>13 DEF pinHistoryEntry, User
<1>14. CASE clearHistory
  BY <1>3, <1>14 DEF clearHistory, User, Remove
<1>15. ASSUME NEW e \in history, deleteHistoryEntries({e}) PROVE Trimmed(history', touched', writer')
  BY <1>3, <1>15 DEF deleteHistoryEntries, User, Remove
<1>16. ASSUME NEW s \in [max : Limits, days : BOOLEAN], setRetentionSettings(s)
       PROVE  Trimmed(history', touched', writer')
  BY <1>3, <1>16 DEF setRetentionSettings, User
<1>17. CASE TimePasses
  BY <1>3, <1>17 DEF TimePasses
<1> QED
  BY <1>5, <1>6, <1>7, <1>8, <1>9, <1>10, <1>11, <1>12, <1>13, <1>14, <1>15, <1>16, <1>17
     DEF HistoryNext

\* A writer that nothing overlaps knows the table.
LEMMA ExactKept ==
  ASSUME HistoryInv, [HistoryNext]_historyVars, apart'
  PROVE  Alone(writer') /\ Exact(history', pinned', writer')
<1>1. /\ HistoryTypes /\ Cardinality(history) \in Nat
      /\ \A w \in Writers : writer[w].limit \in Nat
      /\ apart => Alone(writer) /\ Exact(history, pinned, writer)
  BY HistoryFacts DEF HistoryInv
<1>2. ASSUME \A w \in Writers : writer'[w].pc = "idle"
      PROVE  Alone(writer') /\ Exact(history', pinned', writer')
  BY <1>2 DEF Alone, Exact, Working
<1>3. ASSUME Quiet, writer' = writer
      PROVE  Alone(writer') /\ Exact(history', pinned', writer')
  BY <1>2, <1>3 DEF Quiet, AtWork
<1>4. ASSUME NEW w \in Writers, \A v \in Writers \ {w} : writer'[v].pc = "idle",
             writer'[w].pc \in {"oldest", "delete"} =>
               Cardinality(history') = writer'[w].limit + writer'[w].excess,
             writer'[w].pc = "delete" => writer'[w].victims = Oldest(history' \ pinned', writer'[w].excess)
      PROVE  Alone(writer') /\ Exact(history', pinned', writer')
  BY <1>4 DEF Alone, Exact, Working
<1>5. ASSUME apart' = apart, NEW w \in Writers, AtWork(w),
             NEW pc, NEW limit, NEW victims, NEW excess, Go(w, pc, limit, victims, excess)
      PROVE  /\ \A v \in Writers \ {w} : writer'[v].pc = "idle"
             /\ writer'[w].pc = pc /\ writer'[w].limit = limit
             /\ writer'[w].victims = victims /\ writer'[w].excess = excess
             /\ Exact(history, pinned, writer)
  BY <1>1, <1>5, WentOn DEF Alone, Working, AtWork
<1>6. CASE UNCHANGED historyVars
  BY <1>1, <1>6 DEF historyVars
<1>7. ASSUME NEW w \in Writers, addHistory(w)
      PROVE  Alone(writer') /\ Exact(history', pinned', writer')
  <2>1. /\ writer'[w].pc = "settings" /\ \A v \in Writers \ {w} : writer'[v] = writer[v]
        /\ \A v \in Writers : writer[v].pc = "idle"
    BY <1>1, <1>7, WentOn DEF addHistory, Quiet, AtWork
  <2> QED
    BY <1>4, <2>1
<1>8. ASSUME NEW w \in Writers, ReadSettings(w) \/ PickAged(w) \/ DeleteAged(w)
      PROVE  Alone(writer') /\ Exact(history', pinned', writer')
  <2>1. apart' = apart /\ AtWork(w)
    BY <1>8 DEF ReadSettings, PickAged, DeleteAged, AtWork
  <2>2. PICK pc \in {"age", "deleteAged", "count"} : \E limit, victims : Go(w, pc, limit, victims, 0)
    BY <1>8 DEF ReadSettings, PickAged, DeleteAged
  <2>3. PICK limit, victims : Go(w, pc, limit, victims, 0)
    BY <2>2
  <2>4. (\A v \in Writers \ {w} : writer'[v].pc = "idle") /\ writer'[w].pc = pc
    BY <1>5, <2>1, <2>3
  <2> QED
    BY <1>4, <2>2, <2>4
<1>9. ASSUME NEW w \in Writers, CountEntries(w)
      PROVE  Alone(writer') /\ Exact(history', pinned', writer')
  <2>1. apart' = apart /\ AtWork(w) /\ history' = history
    BY <1>9 DEF CountEntries, AtWork
  <2>2. CASE Cardinality(history) > writer[w].limit
    <3>1. Go(w, "oldest", writer[w].limit, {}, Cardinality(history) - writer[w].limit)
      BY <1>9, <2>2 DEF CountEntries
    <3>2. /\ \A v \in Writers \ {w} : writer'[v].pc = "idle"
          /\ writer'[w].pc = "oldest" /\ writer'[w].limit = writer[w].limit
          /\ writer'[w].excess = Cardinality(history) - writer[w].limit
      BY <1>5, <2>1, <3>1
    <3>3. Cardinality(history') = writer'[w].limit + writer'[w].excess
      BY <1>1, <2>1, <3>2
    <3> QED
      BY <1>4, <3>2, <3>3
  <2>3. CASE ~(Cardinality(history) > writer[w].limit)
    <3>1. Go(w, "idle", 0, {}, 0)
      BY <1>9, <2>3 DEF CountEntries, Rest
    <3>2. (\A v \in Writers \ {w} : writer'[v].pc = "idle") /\ writer'[w].pc = "idle"
      BY <1>5, <2>1, <3>1
    <3> QED
      BY <1>2, <3>2
  <2> QED
    BY <2>2, <2>3
<1>10. ASSUME NEW w \in Writers, PickOldest(w)
       PROVE  Alone(writer') /\ Exact(history', pinned', writer')
  <2> DEFINE old == Oldest(Unpinned, writer[w].excess)
  <2>1. /\ apart' = apart /\ AtWork(w) /\ writer[w].pc = "oldest"
        /\ history' = history /\ pinned' = pinned
        /\ Go(w, "delete", writer[w].limit, old, writer[w].excess)
    BY <1>10 DEF PickOldest, AtWork
  <2>4. old = Oldest(Unpinned, writer[w].excess)
    OBVIOUS
  <2> HIDE DEF old
  <2>2. /\ \A v \in Writers \ {w} : writer'[v].pc = "idle"
        /\ writer'[w].pc = "delete" /\ writer'[w].limit = writer[w].limit
        /\ writer'[w].victims = old
        /\ writer'[w].excess = writer[w].excess
        /\ Exact(history, pinned, writer)
    BY <1>5, <2>1
  <2>3. Cardinality(history) = writer[w].limit + writer[w].excess
    BY <2>1, <2>2 DEF Exact
  <2> QED
    BY <1>4, <2>1, <2>2, <2>3, <2>4 DEF Unpinned
<1>11. ASSUME NEW w \in Writers, DeleteOldest(w)
       PROVE  Alone(writer') /\ Exact(history', pinned', writer')
  <2>1. apart' = apart /\ AtWork(w) /\ Go(w, "idle", 0, {}, 0)
    BY <1>11 DEF DeleteOldest, AtWork, Rest
  <2>2. (\A v \in Writers \ {w} : writer'[v].pc = "idle") /\ writer'[w].pc = "idle"
    BY <1>5, <2>1
  <2> QED
    BY <1>2, <2>2
<1>12. ASSUME NEW e \in history, pinHistoryEntry(e)
       PROVE  Alone(writer') /\ Exact(history', pinned', writer')
  BY <1>3, <1>12 DEF pinHistoryEntry, User
<1>13. CASE clearHistory
  BY <1>3, <1>13 DEF clearHistory, User
<1>14. ASSUME NEW e \in history, deleteHistoryEntries({e})
       PROVE  Alone(writer') /\ Exact(history', pinned', writer')
  BY <1>3, <1>14 DEF deleteHistoryEntries, User
<1>15. ASSUME NEW s \in [max : Limits, days : BOOLEAN], setRetentionSettings(s)
       PROVE  Alone(writer') /\ Exact(history', pinned', writer')
  BY <1>3, <1>15 DEF setRetentionSettings, User
<1>16. CASE TimePasses
  BY <1>1, <1>16 DEF TimePasses
<1> QED
  BY <1>6, <1>7, <1>8, <1>9, <1>10, <1>11, <1>12, <1>13, <1>14, <1>15, <1>16 DEF HistoryNext

LEMMA HistoryInvKept == HistoryInv /\ [HistoryNext]_historyVars => HistoryInv'
<1> SUFFICES ASSUME HistoryInv, [HistoryNext]_historyVars PROVE HistoryInv'
  OBVIOUS
<1>1. HistoryTypes'
  BY HistoryTypesKept DEF HistoryInv
<1>2. Trimmed(history', touched', writer')
  BY TrimmedKept DEF HistoryInv
<1>3. apart' => Alone(writer') /\ Exact(history', pinned', writer')
  BY ExactKept
<1> QED
  BY <1>1, <1>2, <1>3 DEF HistoryInv

LEMMA HistoryAlways == HistorySpec => []HistoryInv
BY HistoryInitially, HistoryInvKept, PTL DEF HistorySpec

\* However many executions record history at the same time, whatever the user
\* pins, deletes, clears or sets meanwhile (addHistory, applyRetention), the
\* table holds at most the limit, an entry for each add under way, and entries
\* that were pinned at some time.
THEOREM HistoryIsBounded == HistorySpec => [](HistoryTypeOK /\ HistoryBounded)
<1>1. HistoryInv => HistoryTypeOK /\ HistoryBounded
  <2> SUFFICES ASSUME HistoryInv PROVE HistoryTypeOK /\ HistoryBounded
    OBVIOUS
  <2>1. /\ HistoryTypes /\ IsFiniteSet(history)
        /\ Trimmed(history, touched, writer)
    BY HistoryFacts DEF HistoryInv
  <2>2. {} \in SUBSET Counted(writer) /\ Working(writer) \ {} = {w \in Writers : AtWork(w)}
    BY DEF Working, AtWork
  <2>3. Cardinality(history \ touched) <= MostKept + Cardinality({w \in Writers : AtWork(w)})
    BY <2>1, <2>2 DEF Trimmed, Budget
  <2>4. /\ IsFiniteSet(history \ touched) /\ IsFiniteSet(history \cap touched)
        /\ Cardinality(history) \in Nat /\ Cardinality(history \cap touched) \in Nat
        /\ Cardinality(history \ touched) \in Nat
    BY <2>1, Fewer
  <2>5. Cardinality(history \ touched) = Cardinality(history) - Cardinality(history \cap touched)
    BY <2>1, FS_Difference
  <2>6. Cardinality({w \in Writers : AtWork(w)}) \in Nat
    BY <2>2, Budgets
  <2> QED
    BY <2>1, <2>3, <2>4, <2>5, <2>6, HistoryAssumption DEF HistoryTypes, HistoryBounded
<1> QED
  BY <1>1, HistoryAlways, PTL

\* The step TrimsOldestOnly is about.
Trim ==
  \A w \in Writers :
    (apart /\ writer[w].pc = "delete" /\ writer'[w] # writer[w]) =>
      /\ Cardinality(history') >= writer[w].limit
      /\ \A e \in history \ history', k \in history' \ pinned : e < k

LEMMA TrimsExactly == HistoryInv /\ [HistoryNext]_historyVars => Trim
<1> SUFFICES ASSUME HistoryInv, [HistoryNext]_historyVars, NEW w \in Writers,
                    apart, writer[w].pc = "delete", writer'[w] # writer[w]
             PROVE  /\ Cardinality(history') >= writer[w].limit
                    /\ \A e \in history \ history', k \in history' \ pinned : e < k
  BY DEF Trim
<1>1. HistoryTypes /\ Exact(history, pinned, writer)
  BY DEF HistoryInv
<1>2. DeleteOldest(w)
  <2>1. ASSUME NEW v \in Writers, v # w, NEW pc, NEW limit, NEW victims, NEW excess,
               Go(v, pc, limit, victims, excess)
        PROVE  FALSE
    BY <1>1, <2>1, WentOn
  <2>2. writer' # writer
    OBVIOUS
  <2>3. ASSUME NEW v \in Writers,
               \/ addHistory(v) \/ ReadSettings(v) \/ PickAged(v) \/ DeleteAged(v)
               \/ CountEntries(v) \/ PickOldest(v) \/ DeleteOldest(v)
        PROVE  v = w
    <3>1. \E pc, limit, victims, excess : Go(v, pc, limit, victims, excess)
      BY <2>3 DEF addHistory, ReadSettings, PickAged, DeleteAged, CountEntries, PickOldest,
                  DeleteOldest, Rest
    <3> QED
      BY <2>1, <3>1
  <2>4. ~addHistory(w) /\ ~ReadSettings(w) /\ ~PickAged(w) /\ ~DeleteAged(w)
        /\ ~CountEntries(w) /\ ~PickOldest(w)
    BY DEF addHistory, ReadSettings, PickAged, DeleteAged, CountEntries, PickOldest, AtWork
  <2>5. \E v \in Writers :
          \/ addHistory(v) \/ ReadSettings(v) \/ PickAged(v) \/ DeleteAged(v)
          \/ CountEntries(v) \/ PickOldest(v) \/ DeleteOldest(v)
    BY <2>2 DEF HistoryNext, historyVars, pinHistoryEntry, clearHistory, deleteHistoryEntries,
                setRetentionSettings, TimePasses, User
  <2> QED
    BY <2>3, <2>4, <2>5
<1>3. /\ history \in SUBSET (1..added) /\ added \in Nat /\ pinned \subseteq history
      /\ IsFiniteSet(history) /\ Cardinality(history) \in Nat
      /\ writer[w].excess \in Nat /\ writer[w].limit \in Nat
  BY <1>1, HistoryFacts
<1> DEFINE U == history \ pinned
           V == writer[w].victims
<1>4. /\ V = Oldest(U, writer[w].excess)
      /\ Cardinality(history) = writer[w].limit + writer[w].excess
  BY <1>1 DEF Exact
<1>5. history' = history \ V /\ pinned' = pinned \ V
  BY <1>2 DEF DeleteOldest, Remove
<1>6. U \in SUBSET (1..added)
  BY <1>3
<1>7. ASSUME NEW S \in SUBSET (1..added), NEW k \in Nat
      PROVE  /\ Oldest(S, k) \in SUBSET S /\ Cardinality(Oldest(S, k)) <= k
             /\ \A e \in Oldest(S, k), d \in S \ Oldest(S, k) : e < d
  BY <1>3, OldestOf
<1>11. U = history \ pinned
  OBVIOUS
<1> HIDE DEF U, V
<1>8. V \in SUBSET U /\ Cardinality(V) <= writer[w].excess /\ \A e \in V, d \in U \ V : e < d
  <2>1. /\ Oldest(U, writer[w].excess) \in SUBSET U
        /\ Cardinality(Oldest(U, writer[w].excess)) <= writer[w].excess
        /\ \A e \in Oldest(U, writer[w].excess), d \in U \ Oldest(U, writer[w].excess) : e < d
    BY <1>3, <1>6, <1>7
  <2> QED
    BY <1>4, <2>1
<1>9. Cardinality(history') >= writer[w].limit
  <2>1. history \cap V = V
    BY <1>8, <1>11
  <2>2. Cardinality(history \ V) = Cardinality(history) - Cardinality(history \cap V)
    BY <1>3, FS_Difference
  <2>3. Cardinality(V) \in Nat
    BY <1>3, <1>8, <1>11, Fewer
  <2>4. Cardinality(history \cap V) = Cardinality(V)
    BY <2>1
  <2>5. Cardinality(history') = Cardinality(history \ V)
    BY <1>5
  <2> QED
    BY <1>3, <1>4, <1>8, <2>2, <2>3, <2>4, <2>5
<1>10. history \ history' \subseteq V /\ history' \ pinned \subseteq U \ V
  BY <1>5, <1>8, <1>11
<1> QED
  BY <1>8, <1>9, <1>10

\* While nothing overlaps, trimming the history by count deletes no more than
\* the excess, and only entries older than every unpinned one it keeps
\* (applyRetention).
THEOREM TrimsTheOldest == HistorySpec => TrimsOldestOnly
<1>1. HistoryInv /\ [HistoryNext]_historyVars => [Trim]_historyVars
  BY TrimsExactly
<1>2. HistorySpec => [][Trim]_historyVars
  BY <1>1, HistoryAlways, PTL DEF HistorySpec
<1> QED
  BY <1>2 DEF TrimsOldestOnly, Trim

-----------------------------------------------------------------------------
(* The environments and the response examples.  With one tab at a time and *)
(* none cut off, the calls under way, the copy, the stored id and the      *)
(* choice are in one of a few relations.                                   *)

SomeEnv == Envs \union {NoEnv}
EnvCalls == [kind : {"load", "setActive", "delete", "getActive", "forget"}, env : SomeEnv]
TabRec == [open : BOOLEAN, active : SomeEnv, calls : Seq(EnvCalls)]
ExampleRec == [pc : {"idle", "put"}, list : SUBSET Examples]

PageTypes ==
  /\ environments \subseteq Envs /\ activeMeta \in SomeEnv /\ chosen \in SomeEnv
  /\ tab \in [Pages -> TabRec] /\ example \in [Pages -> ExampleRec]
  /\ examples \subseteq Examples /\ wanted \subseteq Examples
  /\ \A t \in Pages : ~tab[t].open => tab[t].calls = <<>> /\ example[t].pc = "idle"

\* The calls c of a tab whose copy is a, the stored id m and the choice h.
Follows(c, a, m, h) ==
  \/ c = <<>> /\ a = h /\ m = h
  \/ c = <<EnvCall("load", NoEnv), EnvCall("setActive", NoEnv)>> /\ a = NoEnv /\ m = h
  \/ c = <<EnvCall("setActive", NoEnv), EnvCall("setActive", h)>> /\ a = h
  \/ c = <<EnvCall("setActive", h)>> /\ a = h
  \/ \E e \in Envs :
       /\ h # e /\ a = h /\ m = h
       /\ c \in {<<EnvCall("delete", e), EnvCall("getActive", e)>>, <<EnvCall("getActive", e)>>}
  \/ \E e \in Envs :
       /\ h = NoEnv /\ a = e
       /\ \/ m = e /\ c = <<EnvCall("delete", e), EnvCall("getActive", e), EnvCall("forget", e)>>
          \/ m = e /\ c = <<EnvCall("getActive", e), EnvCall("forget", e)>>
          \/ c = <<EnvCall("setActive", NoEnv), EnvCall("forget", e)>>
          \/ m = NoEnv /\ c = <<EnvCall("forget", e)>>

PageOrder ==
  alone /\ ~cut =>
    /\ \A t, u \in Pages : tab[t].open /\ tab[u].open => t = u
    /\ chosen \in environments \union {NoEnv}
    /\ \A t \in Pages : tab[t].open => Follows(tab[t].calls, tab[t].active, activeMeta, chosen)
    /\ (\A t \in Pages : ~tab[t].open) => activeMeta = chosen
    /\ \A t \in Pages : example[t].pc = "put" => example[t].list = wanted
    /\ (\A t \in Pages : example[t].pc = "idle") => examples = wanted

PageInv == PageTypes /\ PageOrder

LEMMA Tuples ==
  ASSUME NEW a, NEW b, NEW c
  PROVE  /\ Head(<<a>>) = a /\ Head(<<a, b>>) = a /\ Head(<<a, b, c>>) = a
         /\ Tail(<<a>>) = <<>> /\ Tail(<<a, b>>) = <<b>> /\ Tail(<<a, b, c>>) = <<b, c>>
         /\ <<a>> # <<>> /\ <<a, b>> # <<>> /\ <<a, b, c>> # <<>>
<1>1. Head(<<a>>) = a /\ Head(<<a, b>>) = a /\ Head(<<a, b, c>>) = a
  OBVIOUS
<1>2. Tail(<<a>>) = <<>>
  OBVIOUS
<1>3. Tail(<<a, b>>) = <<b>>
  OBVIOUS
<1>4. Tail(<<a, b, c>>) = <<b, c>>
  OBVIOUS
<1>5. <<a>> # <<>> /\ <<a, b>> # <<>> /\ <<a, b, c>> # <<>>
  OBVIOUS
<1> QED
  BY <1>1, <1>2, <1>3, <1>4, <1>5

LEMMA Joined ==
  ASSUME NEW a, NEW b, NEW c
  PROVE  /\ <<>> \o <<>> = <<>> /\ <<>> \o <<a>> = <<a>> /\ <<a>> \o <<>> = <<a>>
         /\ <<a>> \o <<b>> = <<a, b>> /\ <<a, b>> \o <<>> = <<a, b>>
         /\ <<a, b>> \o <<c>> = <<a, b, c>>
<1>1. <<>> \o <<>> = <<>>
  OBVIOUS
<1>2. <<>> \o <<a>> = <<a>>
  OBVIOUS
<1>3. <<a>> \o <<>> = <<a>>
  OBVIOUS
<1>4. <<a>> \o <<b>> = <<a, b>>
  <2> DEFINE s == <<a>> \o <<b>>
             X == {a, b}
  <2>1. s \in Seq(X) /\ Len(s) = 2 /\ s[1] = a /\ s[2] = b
    OBVIOUS
  <2>2. <<a, b>> \in Seq(X) /\ Len(<<a, b>>) = 2
    OBVIOUS
  <2> HIDE DEF s, X
  <2>3. \A i \in 1..2 : s[i] = <<a, b>>[i]
    <3>1. \A i \in 1..2 : i = 1 \/ i = 2
      OBVIOUS
    <3> QED
      BY <2>1, <3>1
  <2>4. s = <<a, b>>
    BY <2>1, <2>2, <2>3, SeqEqual
  <2> QED
    BY <2>4 DEF s
<1>5. <<a, b>> \o <<>> = <<a, b>>
  <2>1. <<a, b>> \in Seq({a, b})
    OBVIOUS
  <2> QED
    BY <2>1, ConcatEmptySeq
<1>6. <<a, b>> \o <<c>> = <<a, b, c>>
  <2> DEFINE s == <<a, b>> \o <<c>>
             X == {a, b, c}
  <2>1. s \in Seq(X) /\ Len(s) = 3 /\ s[1] = a /\ s[2] = b /\ s[3] = c
    <3>1. s \in Seq(X) /\ Len(s) = 3
      OBVIOUS
    <3>2. s[1] = a /\ s[2] = b /\ s[3] = c
      OBVIOUS
    <3> QED
      BY <3>1, <3>2
  <2>2. <<a, b, c>> \in Seq(X) /\ Len(<<a, b, c>>) = 3
    OBVIOUS
  <2> HIDE DEF s, X
  <2>3. \A i \in 1..3 : s[i] = <<a, b, c>>[i]
    <3>1. \A i \in 1..3 : i = 1 \/ i = 2 \/ i = 3
      OBVIOUS
    <3> QED
      BY <2>1, <3>1
  <2>4. s = <<a, b, c>>
    BY <2>1, <2>2, <2>3, SeqEqual
  <2> QED
    BY <2>4 DEF s
<1> QED
  BY <1>1, <1>2, <1>3, <1>4, <1>5, <1>6

LEMMA PageInitially == EnvironmentInit => PageInv
<1> SUFFICES ASSUME EnvironmentInit PROVE PageInv
  OBVIOUS
<1>1. PageTypes
  BY DEF EnvironmentInit, PageTypes, Closed, NoChange, SomeEnv, TabRec, ExampleRec
<1>2. PageOrder
  BY DEF EnvironmentInit, PageOrder, Closed, NoChange
<1> QED
  BY <1>1, <1>2 DEF PageInv

\* The copy changes.
LEMMA CopyTypes ==
  ASSUME PageTypes, NEW t \in Pages, NEW e \in SomeEnv, NEW rest \in Seq(EnvCalls),
         SetCopy(t, e, rest)
  PROVE  /\ tab' \in [Pages -> TabRec]
         /\ \A u \in Pages \ {t} : tab'[u] = tab[u]
         /\ tab'[t].open = tab[t].open /\ tab'[t].active = e
         /\ tab'[t].calls = IF e = tab[t].active THEN rest \o <<>>
                                                 ELSE rest \o <<EnvCall("setActive", e)>>
<1> DEFINE calls == rest \o (IF e = tab[t].active THEN <<>> ELSE <<EnvCall("setActive", e)>>)
<1>1. EnvCall("setActive", e) \in EnvCalls
  BY DEF EnvCall, EnvCalls
<1>2. calls \in Seq(EnvCalls)
  <2>1. <<EnvCall("setActive", e)>> \in Seq(EnvCalls) /\ <<>> \in Seq(EnvCalls)
    BY <1>1
  <2> QED
    BY <2>1, ConcatProperties
<1>3. tab' = [tab EXCEPT ![t] = [open |-> tab[t].open, active |-> e, calls |-> calls]]
  BY DEF SetCopy
<1>4. calls = IF e = tab[t].active THEN rest \o <<>> ELSE rest \o <<EnvCall("setActive", e)>>
  OBVIOUS
<1> HIDE DEF calls
<1>5. tab \in [Pages -> TabRec] /\ tab[t] \in TabRec
  BY DEF PageTypes
<1>6. [open |-> tab[t].open, active |-> e, calls |-> calls] \in TabRec
  BY <1>2, <1>5 DEF TabRec
<1> QED
  BY <1>3, <1>4, <1>5, <1>6

LEMMA PageTypesKept == PageTypes /\ [PagesNext]_environmentVars => PageTypes'
<1> SUFFICES ASSUME PageTypes, [PagesNext]_environmentVars PROVE PageTypes'
  OBVIOUS
<1>1. /\ environments \subseteq Envs /\ activeMeta \in SomeEnv /\ chosen \in SomeEnv
      /\ tab \in [Pages -> TabRec] /\ example \in [Pages -> ExampleRec]
      /\ examples \subseteq Examples /\ wanted \subseteq Examples
      /\ NoEnv \in SomeEnv /\ Envs \subseteq SomeEnv
      /\ \A t \in Pages : ~tab[t].open => tab[t].calls = <<>> /\ example[t].pc = "idle"
  BY DEF PageTypes, SomeEnv
<1>2. \A t \in Pages : /\ tab[t].calls \in Seq(EnvCalls) /\ tab[t].active \in SomeEnv
                       /\ tab[t].open \in BOOLEAN
                       /\ example[t].list \subseteq Examples
  BY <1>1 DEF TabRec, ExampleRec
<1>3. \A e \in SomeEnv, k \in {"load", "setActive", "delete", "getActive", "forget"} :
        EnvCall(k, e) \in EnvCalls
  BY DEF EnvCall, EnvCalls
<1>4. CASE UNCHANGED environmentVars
  BY <1>4 DEF environmentVars, PageTypes
<1>5. ASSUME NEW t \in Pages, OpenTab(t) PROVE PageTypes'
  <2>1. <<EnvCall("load", NoEnv), EnvCall("setActive", NoEnv)>> \in Seq(EnvCalls)
    BY <1>1, <1>3
  <2>2. [open |-> TRUE, active |-> NoEnv,
         calls |-> <<EnvCall("load", NoEnv), EnvCall("setActive", NoEnv)>>] \in TabRec
    BY <1>1, <2>1 DEF TabRec
  <2> QED
    BY <1>1, <1>5, <2>2 DEF OpenTab, PageTypes
<1>6. ASSUME NEW t \in Pages, CloseTab(t) PROVE PageTypes'
  <2>1. Closed \in TabRec /\ NoChange \in ExampleRec
    BY <1>1 DEF Closed, NoChange, TabRec, ExampleRec
  <2> QED
    BY <1>1, <1>6, <2>1 DEF CloseTab, PageTypes, Closed, NoChange
<1>7. ASSUME NEW t \in Pages, NEW e \in SomeEnv, SelectEnvironment(t, e) PROVE PageTypes'
  <2>1. /\ SetCopy(t, e, tab[t].calls) /\ tab[t].open /\ chosen' = e
        /\ UNCHANGED <<environments, activeMeta, examples, example, wanted>>
    BY <1>7 DEF SelectEnvironment
  <2>2. /\ tab' \in [Pages -> TabRec] /\ \A u \in Pages \ {t} : tab'[u] = tab[u]
        /\ tab'[t].open = tab[t].open
    BY <1>2, <2>1, CopyTypes
  <2> QED
    BY <1>1, <2>1, <2>2 DEF PageTypes
<1>8. ASSUME NEW t \in Pages, NEW e \in Envs, saveEnvironment(t, e) PROVE PageTypes'
  BY <1>1, <1>8 DEF saveEnvironment, PageTypes
<1>9. ASSUME NEW t \in Pages, NEW e \in Envs, deleteEnvironment(t, e) PROVE PageTypes'
  <2> DEFINE calls == <<EnvCall("delete", e), EnvCall("getActive", e)>>
                      \o (IF tab[t].active = e THEN <<EnvCall("forget", e)>> ELSE <<>>)
  <2>1. calls \in Seq(EnvCalls)
    <3>1. /\ <<EnvCall("delete", e), EnvCall("getActive", e)>> \in Seq(EnvCalls)
          /\ <<EnvCall("forget", e)>> \in Seq(EnvCalls) /\ <<>> \in Seq(EnvCalls)
      BY <1>1, <1>3
    <3> QED
      BY <3>1, ConcatProperties
  <2>2. tab' = [tab EXCEPT ![t].calls = calls] /\ tab[t].open
    BY <1>9 DEF deleteEnvironment
  <2> HIDE DEF calls
  <2>3. /\ tab' \in [Pages -> TabRec] /\ \A u \in Pages \ {t} : tab'[u] = tab[u]
        /\ tab'[t].open = tab[t].open
    BY <1>1, <2>1, <2>2 DEF TabRec
  <2>4. chosen' \in SomeEnv /\ UNCHANGED <<environments, activeMeta, examples, example, wanted>>
    BY <1>1, <1>9 DEF deleteEnvironment
  <2> QED
    BY <1>1, <2>2, <2>3, <2>4 DEF PageTypes
<1>10. ASSUME NEW t \in Pages, EnvCallReturns(t) PROVE PageTypes'
  <2> DEFINE call == Head(tab[t].calls)
             rest == Tail(tab[t].calls)
  <2>1. /\ tab[t].calls # <<>> /\ tab[t].open /\ call \in EnvCalls /\ rest \in Seq(EnvCalls)
        /\ UNCHANGED <<examples, example, wanted, chosen>>
    <3>1. tab[t].calls # <<>> /\ UNCHANGED <<examples, example, wanted, chosen>>
      BY <1>10 DEF EnvCallReturns
    <3>2. tab[t].open
      BY <1>1, <3>1
    <3> QED
      BY <1>2, <3>1, <3>2
  <2>2. call.env \in SomeEnv
    BY <2>1 DEF EnvCalls
  <2>3. ASSUME tab' \in [Pages -> TabRec], \A u \in Pages \ {t} : tab'[u] = tab[u],
               tab'[t].open = tab[t].open, environments' \subseteq Envs, activeMeta' \in SomeEnv
        PROVE  PageTypes'
    BY <1>1, <2>1, <2>3 DEF PageTypes
  <2>4. ASSUME NEW s \in Seq(EnvCalls), tab' = [tab EXCEPT ![t].calls = s]
        PROVE  /\ tab' \in [Pages -> TabRec] /\ \A u \in Pages \ {t} : tab'[u] = tab[u]
               /\ tab'[t].open = tab[t].open
    BY <1>1, <2>4 DEF TabRec
  <2>5. ASSUME NEW e \in SomeEnv, SetCopy(t, e, rest)
        PROVE  /\ tab' \in [Pages -> TabRec] /\ \A u \in Pages \ {t} : tab'[u] = tab[u]
               /\ tab'[t].open = tab[t].open
    BY <2>1, <2>5, CopyTypes
  <2>6. ClearActive(call.env) \o rest \in Seq(EnvCalls)
    <3>1. ClearActive(call.env) \in Seq(EnvCalls)
      BY <1>1, <1>3 DEF ClearActive
    <3> QED
      BY <2>1, <3>1, ConcatProperties
  <2>7. CASE /\ SetCopy(t, activeMeta, rest) /\ UNCHANGED <<environments, activeMeta>>
    BY <1>1, <2>3, <2>5, <2>7
  <2>8. CASE /\ activeMeta' = call.env /\ tab' = [tab EXCEPT ![t].calls = rest]
             /\ UNCHANGED environments
    BY <1>1, <2>1, <2>2, <2>3, <2>4, <2>8
  <2>9. CASE /\ environments' = environments \ {call.env} /\ tab' = [tab EXCEPT ![t].calls = rest]
             /\ UNCHANGED activeMeta
    BY <1>1, <2>1, <2>3, <2>4, <2>9
  <2>10. CASE /\ tab' = [tab EXCEPT ![t].calls = ClearActive(call.env) \o rest]
              /\ UNCHANGED <<environments, activeMeta>>
    BY <1>1, <2>3, <2>4, <2>6, <2>10
  <2>11. CASE SetCopy(t, NoEnv, rest) /\ UNCHANGED <<environments, activeMeta>>
    BY <1>1, <2>3, <2>5, <2>11
  <2> QED
    BY <1>10, <2>7, <2>8, <2>9, <2>10, <2>11 DEF EnvCallReturns
<1>11. ASSUME NEW t \in Pages, NEW x \in Examples, ChangeExample(t, x) PROVE PageTypes'
  <2> DEFINE list == IF x \in wanted THEN examples \ {x} ELSE examples \union {x}
  <2>1. list \in SUBSET Examples
    BY <1>1
  <2>2. example' = [example EXCEPT ![t] = [pc |-> "put", list |-> list]] /\ tab[t].open
    BY <1>11 DEF ChangeExample
  <2> HIDE DEF list
  <2>3. /\ example' \in [Pages -> ExampleRec]
        /\ \A u \in Pages \ {t} : example'[u] = example[u]
    BY <1>1, <2>1, <2>2 DEF ExampleRec
  <2>4. wanted' \subseteq Examples
    BY <1>1, <1>11 DEF ChangeExample
  <2> QED
    BY <1>1, <1>11, <2>2, <2>3, <2>4 DEF ChangeExample, PageTypes
<1>12. ASSUME NEW t \in Pages, PutExamples(t) PROVE PageTypes'
  <2>1. NoChange \in ExampleRec /\ NoChange.pc = "idle"
    BY DEF NoChange, ExampleRec
  <2> QED
    BY <1>1, <1>2, <1>12, <2>1 DEF PutExamples, PageTypes
<1> QED
  BY <1>4, <1>5, <1>6, <1>7, <1>8, <1>9, <1>10, <1>11, <1>12
     DEF PagesNext, TabNext, EnvironmentNext, ExampleNext, SomeEnv

LEMMA PageOrderKept == PageInv /\ [PagesNext]_environmentVars => PageOrder'
<1> SUFFICES ASSUME PageInv, [PagesNext]_environmentVars, alone', ~cut'
             PROVE  /\ \A t, u \in Pages : tab'[t].open /\ tab'[u].open => t = u
                    /\ chosen' \in environments' \union {NoEnv}
                    /\ \A t \in Pages : tab'[t].open =>
                         Follows(tab'[t].calls, tab'[t].active, activeMeta', chosen')
                    /\ (\A t \in Pages : ~tab'[t].open) => activeMeta' = chosen'
                    /\ \A t \in Pages : example'[t].pc = "put" => example'[t].list = wanted'
                    /\ (\A t \in Pages : example'[t].pc = "idle") => examples' = wanted'
  BY DEF PageOrder
<1> DEFINE OneOpen == \A t, u \in Pages : tab'[t].open /\ tab'[u].open => t = u
           Following == \A t \in Pages : tab'[t].open =>
                          Follows(tab'[t].calls, tab'[t].active, activeMeta', chosen')
           Resting == (\A t \in Pages : ~tab'[t].open) => activeMeta' = chosen'
           Lists == /\ \A t \in Pages : example'[t].pc = "put" => example'[t].list = wanted'
                    /\ (\A t \in Pages : example'[t].pc = "idle") => examples' = wanted'
           Goal == /\ OneOpen /\ chosen' \in environments' \union {NoEnv}
                   /\ Following /\ Resting /\ Lists
<1>0. SUFFICES Goal
  OBVIOUS
<1>1. /\ environments \subseteq Envs /\ activeMeta \in SomeEnv /\ chosen \in SomeEnv
      /\ tab \in [Pages -> TabRec] /\ example \in [Pages -> ExampleRec]
      /\ examples \subseteq Examples /\ wanted \subseteq Examples
      /\ \A t \in Pages : ~tab[t].open => tab[t].calls = <<>> /\ example[t].pc = "idle"
      /\ PageTypes /\ NoEnv \notin Envs
  BY EnvironmentAssumption DEF PageInv, PageTypes
<1>2. alone /\ ~cut
  <2>1. ASSUME NEW t \in Pages, OpenTab(t) PROVE alone /\ ~cut
    BY <2>1 DEF OpenTab
  <2>2. ASSUME NEW t \in Pages, CloseTab(t) PROVE alone /\ ~cut
    BY <2>2 DEF CloseTab
  <2>3. ASSUME NEW t \in Pages, NEW e, SelectEnvironment(t, e) PROVE alone /\ ~cut
    BY <2>3 DEF SelectEnvironment
  <2>4. ASSUME NEW t \in Pages, NEW e, saveEnvironment(t, e) PROVE alone /\ ~cut
    BY <2>4 DEF saveEnvironment
  <2>8. ASSUME NEW t \in Pages, NEW e, deleteEnvironment(t, e) PROVE alone /\ ~cut
    BY <2>8 DEF deleteEnvironment
  <2>5. ASSUME NEW t \in Pages, EnvCallReturns(t) PROVE alone /\ ~cut
    BY <2>5 DEF EnvCallReturns
  <2>6. ASSUME NEW t \in Pages, NEW x, ChangeExample(t, x) PROVE alone /\ ~cut
    BY <2>6 DEF ChangeExample
  <2>9. ASSUME NEW t \in Pages, PutExamples(t) PROVE alone /\ ~cut
    BY <2>9 DEF PutExamples
  <2>7. CASE UNCHANGED environmentVars
    BY <2>7 DEF environmentVars
  <2> QED
    BY <2>1, <2>2, <2>3, <2>4, <2>5, <2>6, <2>7, <2>8, <2>9
       DEF PagesNext, TabNext, EnvironmentNext, ExampleNext
<1>3. /\ \A t, u \in Pages : tab[t].open /\ tab[u].open => t = u
      /\ chosen \in environments \union {NoEnv}
      /\ \A t \in Pages : tab[t].open => Follows(tab[t].calls, tab[t].active, activeMeta, chosen)
      /\ (\A t \in Pages : ~tab[t].open) => activeMeta = chosen
      /\ \A t \in Pages : example[t].pc = "put" => example[t].list = wanted
      /\ (\A t \in Pages : example[t].pc = "idle") => examples = wanted
  BY <1>2 DEF PageInv, PageOrder
<1>4. CASE UNCHANGED environmentVars
  BY <1>3, <1>4 DEF environmentVars
\* A step of the one open tab that leaves it open.
<1>5. ASSUME NEW t \in Pages, tab[t].open, tab'[t].open,
             \A u \in Pages \ {t} : tab'[u] = tab[u],
             Follows(tab'[t].calls, tab'[t].active, activeMeta', chosen')
      PROVE  OneOpen /\ Following /\ Resting
  <2>1. \A u \in Pages \ {t} : ~tab'[u].open
    BY <1>3, <1>5
  <2> QED
    BY <1>5, <2>1
<1>6. ASSUME UNCHANGED <<example, examples, wanted>> PROVE Lists
  BY <1>3, <1>6
<1>7. ASSUME UNCHANGED <<tab, activeMeta, chosen>> PROVE OneOpen /\ Following /\ Resting
  BY <1>3, <1>7
<1> HIDE DEF OneOpen, Following, Resting, Lists
<1>8. ASSUME NEW t \in Pages, OpenTab(t) PROVE Goal
  <2> DEFINE calls == <<EnvCall("load", NoEnv), EnvCall("setActive", NoEnv)>>
  <2>1. /\ ~tab[t].open /\ \A u \in Pages : ~tab[u].open
        /\ UNCHANGED <<environments, activeMeta, chosen, example, examples, wanted>>
        /\ tab' = [tab EXCEPT ![t] = [open |-> TRUE, active |-> NoEnv, calls |-> calls]]
    BY <1>8 DEF OpenTab, OthersIdle
  <2>2. /\ tab'[t].open /\ tab'[t].active = NoEnv /\ tab'[t].calls = calls
        /\ \A u \in Pages \ {t} : ~tab'[u].open
    BY <1>1, <2>1
  <2>3. activeMeta' = chosen'
    BY <1>3, <2>1
  <2>4. Follows(calls, NoEnv, activeMeta', chosen')
    BY <2>3 DEF Follows
  <2> HIDE DEF calls
  <2> QED
    BY <1>3, <1>6, <2>1, <2>2, <2>3, <2>4 DEF OneOpen, Following, Resting
<1>9. ASSUME NEW t \in Pages, CloseTab(t) PROVE Goal
  <2>1. /\ tab[t].open /\ tab[t].calls = <<>> /\ example[t].pc = "idle"
        /\ UNCHANGED <<environments, activeMeta, chosen, examples, wanted>>
        /\ tab' = [tab EXCEPT ![t] = Closed] /\ example' = [example EXCEPT ![t] = NoChange]
    <3>1. example[t].pc \in {"idle", "put"}
      BY <1>1 DEF ExampleRec
    <3> QED
      BY <1>9, <3>1 DEF CloseTab, Busy
  <2>2. activeMeta = chosen
    <3>1. Follows(<<>>, tab[t].active, activeMeta, chosen)
      BY <1>3, <2>1
    <3> QED
      BY <3>1, Tuples DEF Follows
  <2>3. \A u \in Pages : ~tab'[u].open
    BY <1>1, <1>3, <2>1 DEF Closed
  <2>4. \A u \in Pages : example'[u].pc = example[u].pc /\ (u # t => example'[u] = example[u])
    BY <1>1, <2>1 DEF NoChange
  <2>5. Lists
    BY <1>3, <2>1, <2>4 DEF Lists
  <2> QED
    BY <1>3, <2>1, <2>2, <2>3, <2>5 DEF OneOpen, Following, Resting
<1>10. ASSUME NEW t \in Pages, NEW e \in SomeEnv, SelectEnvironment(t, e) PROVE Goal
  <2>1. /\ tab[t].open /\ e \in environments \union {NoEnv} /\ e # tab[t].active /\ chosen' = e
        /\ SetCopy(t, e, tab[t].calls) /\ tab[t].calls = <<>>
        /\ UNCHANGED <<environments, activeMeta, example, examples, wanted>>
    BY <1>10 DEF SelectEnvironment, Busy
  <2>2. <<>> \in Seq(EnvCalls) /\ SetCopy(t, e, <<>>)
    BY <2>1
  <2>3. /\ \A u \in Pages \ {t} : tab'[u] = tab[u]
        /\ tab'[t].open /\ tab'[t].active = e
        /\ tab'[t].calls = <<>> \o <<EnvCall("setActive", e)>>
    BY <1>1, <2>1, <2>2, CopyTypes
  <2>4. tab'[t].calls = <<EnvCall("setActive", e)>>
    BY <2>3, Joined
  <2>5. Follows(tab'[t].calls, tab'[t].active, activeMeta', chosen')
    BY <2>1, <2>3, <2>4 DEF Follows
  <2> QED
    BY <1>5, <1>6, <2>1, <2>3, <2>5
<1>11. ASSUME NEW t \in Pages, NEW e \in Envs, saveEnvironment(t, e) PROVE Goal
  BY <1>3, <1>6, <1>7, <1>11 DEF saveEnvironment
<1>12. ASSUME NEW t \in Pages, NEW e \in Envs, deleteEnvironment(t, e) PROVE Goal
  <2> DEFINE two == <<EnvCall("delete", e), EnvCall("getActive", e)>>
             calls == two \o (IF tab[t].active = e THEN <<EnvCall("forget", e)>> ELSE <<>>)
  <2>1. /\ tab[t].open /\ tab[t].calls = <<>>
        /\ tab' = [tab EXCEPT ![t].calls = calls]
        /\ chosen' = IF chosen = e THEN NoEnv ELSE chosen
        /\ UNCHANGED <<environments, activeMeta, example, examples, wanted>>
    BY <1>12 DEF deleteEnvironment
  <2>2. tab[t].active = chosen /\ activeMeta = chosen
    <3>1. Follows(<<>>, tab[t].active, activeMeta, chosen)
      BY <1>3, <2>1
    <3> QED
      BY <3>1, Tuples DEF Follows
  <2>3. /\ \A u \in Pages \ {t} : tab'[u] = tab[u]
        /\ tab'[t].open /\ tab'[t].active = chosen /\ tab'[t].calls = calls
    <3>1. tab[t] \in TabRec
      BY <1>1
    <3> HIDE DEF calls
    <3> QED
      BY <1>1, <2>1, <2>2, <3>1 DEF TabRec
  <2>4. Follows(tab'[t].calls, tab'[t].active, activeMeta', chosen')
    <3>1. CASE chosen = e
      <4>1. calls = two \o <<EnvCall("forget", e)>>
        BY <2>2, <3>1
      <4>2. calls = <<EnvCall("delete", e), EnvCall("getActive", e), EnvCall("forget", e)>>
        BY <4>1, Joined
      <4> HIDE DEF calls
      <4>3. chosen' = NoEnv /\ activeMeta' = e /\ tab'[t].active = e
        BY <2>1, <2>2, <2>3, <3>1
      <4> QED
        BY <2>3, <4>2, <4>3 DEF Follows
    <3>2. CASE chosen # e
      <4>1. calls = two \o <<>>
        BY <2>2, <3>2
      <4>2. calls = two
        BY <4>1, Joined
      <4> HIDE DEF calls
      <4>3. chosen' = chosen /\ activeMeta' = chosen /\ chosen # e
        BY <2>1, <2>2, <3>2
      <4> QED
        BY <2>3, <4>2, <4>3 DEF Follows
    <3> QED
      BY <3>1, <3>2
  <2>5. chosen' \in environments' \union {NoEnv}
    BY <1>3, <2>1
  <2> HIDE DEF calls
  <2> QED
    BY <1>5, <1>6, <2>1, <2>3, <2>4, <2>5
<1>13. ASSUME NEW t \in Pages, EnvCallReturns(t) PROVE Goal
  <2> DEFINE c == tab[t].calls
             h == chosen
  <2>1. /\ c # <<>> /\ tab[t].open
        /\ UNCHANGED <<examples, example, wanted, chosen>>
    <3>1. tab[t].calls # <<>> /\ UNCHANGED <<examples, example, wanted, chosen>>
      BY <1>13 DEF EnvCallReturns
    <3> QED
      BY <1>1, <3>1
  <2>2. /\ c \in Seq(EnvCalls) /\ Tail(c) \in Seq(EnvCalls) /\ tab[t].open \in BOOLEAN
        /\ NoEnv \in SomeEnv
    BY <1>1, <2>1 DEF TabRec, SomeEnv
  <2>3. ASSUME NEW s, tab' = [tab EXCEPT ![t].calls = s]
        PROVE  /\ \A u \in Pages \ {t} : tab'[u] = tab[u]
               /\ tab'[t].open /\ tab'[t].active = tab[t].active /\ tab'[t].calls = s
    <3>1. tab[t] \in TabRec
      BY <1>1
    <3> QED
      BY <1>1, <2>1, <2>3, <3>1 DEF TabRec
  <2>4. ASSUME NEW e \in SomeEnv, SetCopy(t, e, Tail(c))
        PROVE  /\ \A u \in Pages \ {t} : tab'[u] = tab[u]
               /\ tab'[t].open /\ tab'[t].active = e
               /\ tab'[t].calls = IF e = tab[t].active THEN Tail(c) \o <<>>
                                  ELSE Tail(c) \o <<EnvCall("setActive", e)>>
    BY <1>1, <2>1, <2>2, <2>4, CopyTypes
  <2>5. ASSUME \A u \in Pages \ {t} : tab'[u] = tab[u], tab'[t].open,
               Follows(tab'[t].calls, tab'[t].active, activeMeta', h),
               h \in environments' \union {NoEnv}
        PROVE  Goal
    BY <1>5, <1>6, <2>1, <2>5
  <2>6. /\ Head(c).kind = "load" =>
             SetCopy(t, activeMeta, Tail(c)) /\ UNCHANGED <<environments, activeMeta>>
        /\ Head(c).kind = "setActive" =>
             /\ activeMeta' = Head(c).env /\ tab' = [tab EXCEPT ![t].calls = Tail(c)]
             /\ UNCHANGED environments
        /\ Head(c).kind = "delete" =>
             /\ environments' = environments \ {Head(c).env}
             /\ tab' = [tab EXCEPT ![t].calls = Tail(c)] /\ UNCHANGED activeMeta
        /\ Head(c).kind = "getActive" =>
             /\ tab' = [tab EXCEPT ![t].calls = ClearActive(Head(c).env) \o Tail(c)]
             /\ UNCHANGED <<environments, activeMeta>>
        /\ Head(c).kind = "forget" =>
             SetCopy(t, NoEnv, Tail(c)) /\ UNCHANGED <<environments, activeMeta>>
    BY <1>13 DEF EnvCallReturns
  <2>7. \A k, e : EnvCall(k, e).kind = k /\ EnvCall(k, e).env = e
    BY DEF EnvCall
  <2>8. Follows(c, tab[t].active, activeMeta, h)
    BY <1>3, <2>1
  <2> HIDE DEF c, Goal
  <2>9. CASE c = <<EnvCall("load", NoEnv), EnvCall("setActive", NoEnv)>>
             /\ tab[t].active = NoEnv /\ activeMeta = h
    <3>1. Head(c).kind = "load" /\ Tail(c) = <<EnvCall("setActive", NoEnv)>>
      BY <2>7, <2>9, Tuples
    <3>2. SetCopy(t, h, Tail(c)) /\ UNCHANGED <<environments, activeMeta>>
      BY <2>6, <2>9, <3>1
    <3>3. /\ \A u \in Pages \ {t} : tab'[u] = tab[u]
          /\ tab'[t].open /\ tab'[t].active = h
          /\ tab'[t].calls = IF h = NoEnv THEN Tail(c) \o <<>>
                             ELSE Tail(c) \o <<EnvCall("setActive", h)>>
      BY <1>1, <2>4, <2>9, <3>2
    <3>4. tab'[t].calls = IF h = NoEnv THEN <<EnvCall("setActive", NoEnv)>>
                          ELSE <<EnvCall("setActive", NoEnv), EnvCall("setActive", h)>>
      <4>1. /\ <<EnvCall("setActive", NoEnv)>> \o <<>> = <<EnvCall("setActive", NoEnv)>>
            /\ <<EnvCall("setActive", NoEnv)>> \o <<EnvCall("setActive", h)>>
                = <<EnvCall("setActive", NoEnv), EnvCall("setActive", h)>>
        BY Joined
      <4> QED
        BY <3>1, <3>3, <4>1
    <3>5. Follows(tab'[t].calls, tab'[t].active, activeMeta', h)
      BY <3>3, <3>4 DEF Follows
    <3> QED
      BY <1>3, <2>5, <3>2, <3>3, <3>5
  <2>10. CASE c = <<EnvCall("setActive", NoEnv), EnvCall("setActive", h)>> /\ tab[t].active = h
    <3>1. Head(c).kind = "setActive" /\ Tail(c) = <<EnvCall("setActive", h)>>
      BY <2>7, <2>10, Tuples
    <3>2. tab' = [tab EXCEPT ![t].calls = <<EnvCall("setActive", h)>>] /\ UNCHANGED environments
      BY <2>6, <3>1
    <3>3. /\ \A u \in Pages \ {t} : tab'[u] = tab[u]
          /\ tab'[t].open /\ tab'[t].active = h /\ tab'[t].calls = <<EnvCall("setActive", h)>>
      BY <2>3, <2>10, <3>2
    <3>4. Follows(tab'[t].calls, tab'[t].active, activeMeta', h)
      BY <3>3 DEF Follows
    <3> QED
      BY <1>3, <2>5, <3>2, <3>3, <3>4
  <2>11. CASE c = <<EnvCall("setActive", h)>> /\ tab[t].active = h
    <3>1. Head(c).kind = "setActive" /\ Head(c).env = h /\ Tail(c) = <<>>
      BY <2>7, <2>11, Tuples
    <3>2. tab' = [tab EXCEPT ![t].calls = <<>>] /\ activeMeta' = h /\ UNCHANGED environments
      BY <2>6, <3>1
    <3>3. /\ \A u \in Pages \ {t} : tab'[u] = tab[u]
          /\ tab'[t].open /\ tab'[t].active = h /\ tab'[t].calls = <<>>
      BY <2>3, <2>11, <3>2
    <3>4. Follows(tab'[t].calls, tab'[t].active, activeMeta', h)
      BY <3>2, <3>3 DEF Follows
    <3> QED
      BY <1>3, <2>5, <3>2, <3>3, <3>4
  <2>12. ASSUME NEW e \in Envs, h # e, tab[t].active = h, activeMeta = h,
                c = <<EnvCall("delete", e), EnvCall("getActive", e)>>
         PROVE  Goal
    <3>1. Head(c).kind = "delete" /\ Head(c).env = e /\ Tail(c) = <<EnvCall("getActive", e)>>
      BY <2>7, <2>12, Tuples
    <3>2. /\ tab' = [tab EXCEPT ![t].calls = <<EnvCall("getActive", e)>>]
          /\ environments' = environments \ {e} /\ activeMeta' = h
      BY <2>6, <2>12, <3>1
    <3>3. /\ \A u \in Pages \ {t} : tab'[u] = tab[u]
          /\ tab'[t].open /\ tab'[t].active = h /\ tab'[t].calls = <<EnvCall("getActive", e)>>
      BY <2>3, <2>12, <3>2
    <3>4. Follows(tab'[t].calls, tab'[t].active, activeMeta', h)
      BY <2>12, <3>2, <3>3 DEF Follows
    <3> QED
      BY <1>3, <2>5, <2>12, <3>2, <3>3, <3>4
  <2>13. ASSUME NEW e \in Envs, h # e, tab[t].active = h, activeMeta = h,
                c = <<EnvCall("getActive", e)>>
         PROVE  Goal
    <3>1. Head(c).kind = "getActive" /\ Head(c).env = e /\ Tail(c) = <<>>
      BY <2>7, <2>13, Tuples
    <3>2. ClearActive(e) \o <<>> = <<>>
      BY <2>13, Joined DEF ClearActive
    <3>3. /\ tab' = [tab EXCEPT ![t].calls = <<>>] /\ UNCHANGED <<environments, activeMeta>>
      BY <2>6, <3>1, <3>2
    <3>4. /\ \A u \in Pages \ {t} : tab'[u] = tab[u]
          /\ tab'[t].open /\ tab'[t].active = h /\ tab'[t].calls = <<>>
      BY <2>3, <2>13, <3>3
    <3>5. Follows(tab'[t].calls, tab'[t].active, activeMeta', h)
      BY <2>13, <3>3, <3>4 DEF Follows
    <3> QED
      BY <1>3, <2>5, <3>3, <3>4, <3>5
  <2>14. ASSUME NEW e \in Envs, h = NoEnv, tab[t].active = e, activeMeta = e,
                c = <<EnvCall("delete", e), EnvCall("getActive", e), EnvCall("forget", e)>>
         PROVE  Goal
    <3>1. /\ Head(c).kind = "delete" /\ Head(c).env = e
          /\ Tail(c) = <<EnvCall("getActive", e), EnvCall("forget", e)>>
      BY <2>7, <2>14, Tuples
    <3>2. /\ tab' = [tab EXCEPT ![t].calls = <<EnvCall("getActive", e), EnvCall("forget", e)>>]
          /\ activeMeta' = e
      BY <2>6, <2>14, <3>1
    <3>3. /\ \A u \in Pages \ {t} : tab'[u] = tab[u]
          /\ tab'[t].open /\ tab'[t].active = e
          /\ tab'[t].calls = <<EnvCall("getActive", e), EnvCall("forget", e)>>
      BY <2>3, <2>14, <3>2
    <3>4. Follows(tab'[t].calls, tab'[t].active, activeMeta', h)
      BY <2>14, <3>2, <3>3 DEF Follows
    <3> QED
      BY <2>5, <2>14, <3>3, <3>4
  <2>15. ASSUME NEW e \in Envs, h = NoEnv, tab[t].active = e, activeMeta = e,
                c = <<EnvCall("getActive", e), EnvCall("forget", e)>>
         PROVE  Goal
    <3>1. Head(c).kind = "getActive" /\ Head(c).env = e /\ Tail(c) = <<EnvCall("forget", e)>>
      BY <2>7, <2>15, Tuples
    <3>2. ClearActive(e) = <<EnvCall("setActive", NoEnv)>>
      BY <2>15 DEF ClearActive
    <3>3. ClearActive(e) \o <<EnvCall("forget", e)>> =
            <<EnvCall("setActive", NoEnv), EnvCall("forget", e)>>
      BY <3>2, Joined
    <3>4. tab' = [tab EXCEPT ![t].calls = <<EnvCall("setActive", NoEnv), EnvCall("forget", e)>>]
      BY <2>6, <3>1, <3>3
    <3>5. /\ \A u \in Pages \ {t} : tab'[u] = tab[u]
          /\ tab'[t].open /\ tab'[t].active = e
          /\ tab'[t].calls = <<EnvCall("setActive", NoEnv), EnvCall("forget", e)>>
      BY <2>3, <2>15, <3>4
    <3>6. Follows(tab'[t].calls, tab'[t].active, activeMeta', h)
      BY <2>15, <3>5 DEF Follows
    <3> QED
      BY <2>5, <2>15, <3>5, <3>6
  <2>16. ASSUME NEW e \in Envs, h = NoEnv, tab[t].active = e,
                c = <<EnvCall("setActive", NoEnv), EnvCall("forget", e)>>
         PROVE  Goal
    <3>1. Head(c).kind = "setActive" /\ Head(c).env = NoEnv /\ Tail(c) = <<EnvCall("forget", e)>>
      BY <2>7, <2>16, Tuples
    <3>2. tab' = [tab EXCEPT ![t].calls = <<EnvCall("forget", e)>>] /\ activeMeta' = NoEnv
      BY <2>6, <3>1
    <3>3. /\ \A u \in Pages \ {t} : tab'[u] = tab[u]
          /\ tab'[t].open /\ tab'[t].active = e /\ tab'[t].calls = <<EnvCall("forget", e)>>
      BY <2>3, <2>16, <3>2
    <3>4. Follows(tab'[t].calls, tab'[t].active, activeMeta', h)
      BY <2>16, <3>2, <3>3 DEF Follows
    <3> QED
      BY <2>5, <2>16, <3>3, <3>4
  <2>17. ASSUME NEW e \in Envs, h = NoEnv, tab[t].active = e, activeMeta = NoEnv,
                c = <<EnvCall("forget", e)>>
         PROVE  Goal
    <3>1. Head(c).kind = "forget" /\ Tail(c) = <<>>
      BY <2>7, <2>17, Tuples
    <3>2. SetCopy(t, NoEnv, Tail(c))
      BY <2>6, <3>1
    <3>3. /\ \A u \in Pages \ {t} : tab'[u] = tab[u]
          /\ tab'[t].open /\ tab'[t].active = NoEnv
          /\ tab'[t].calls = <<>> \o <<EnvCall("setActive", NoEnv)>>
      BY <1>1, <2>2, <2>4, <2>17, <3>1, <3>2
    <3>4. tab'[t].calls = <<EnvCall("setActive", NoEnv)>>
      BY <3>3, Joined
    <3>5. Follows(tab'[t].calls, tab'[t].active, activeMeta', h)
      BY <2>17, <3>3, <3>4 DEF Follows
    <3> QED
      BY <2>5, <2>17, <3>3, <3>5
  <2> QED
    BY <2>1, <2>8, <2>9, <2>10, <2>11, <2>12, <2>13, <2>14, <2>15, <2>16, <2>17 DEF Follows
<1>14. ASSUME NEW t \in Pages, NEW x \in Examples, ChangeExample(t, x) PROVE Goal
  <2> DEFINE list == IF x \in wanted THEN examples \ {x} ELSE examples \union {x}
  <2>1. /\ tab[t].open /\ example[t].pc = "idle"
        /\ example' = [example EXCEPT ![t] = [pc |-> "put", list |-> list]]
        /\ wanted' = IF x \in wanted THEN wanted \ {x} ELSE wanted \union {x}
        /\ UNCHANGED <<environments, activeMeta, tab, examples, chosen>>
    BY <1>14 DEF ChangeExample
  <2>2. \A u \in Pages : example[u].pc = "idle"
    BY <1>1, <1>3, <2>1
  <2>3. examples = wanted
    BY <1>3, <2>2
  <2>4. list = wanted'
    BY <2>1, <2>3
  <2> HIDE DEF list
  <2>5. /\ example'[t].pc = "put" /\ example'[t].list = list
        /\ \A u \in Pages \ {t} : example'[u] = example[u]
    BY <1>1, <2>1
  <2>6. Lists
    BY <2>2, <2>4, <2>5 DEF Lists
  <2> QED
    BY <1>3, <1>7, <2>1, <2>6
<1>15. ASSUME NEW t \in Pages, PutExamples(t) PROVE Goal
  <2>1. /\ example[t].pc = "put" /\ examples' = example[t].list
        /\ example' = [example EXCEPT ![t] = NoChange]
        /\ UNCHANGED <<environments, activeMeta, tab, wanted, chosen>>
    BY <1>15 DEF PutExamples
  <2>2. examples' = wanted
    BY <1>3, <2>1
  <2>3. example'[t].pc = "idle" /\ \A u \in Pages \ {t} : example'[u] = example[u]
    BY <1>1, <2>1 DEF NoChange
  <2>4. Lists
    BY <1>3, <2>1, <2>2, <2>3 DEF Lists
  <2> QED
    BY <1>3, <1>7, <2>1, <2>4
<1> QED
  BY <1>4, <1>8, <1>9, <1>10, <1>11, <1>12, <1>13, <1>14, <1>15
     DEF PagesNext, TabNext, EnvironmentNext, ExampleNext, SomeEnv, Goal, OneOpen, Following,
         Resting, Lists

\* With one tab at a time, none of them closed in the middle of a write, the
\* environment chosen last is the one that is remembered, in the tab and in the
\* store, and it exists; no response example is lost or comes back
\* (useAppBootstrap, useActiveEnvironmentPersistence, deleteEnvironment,
\* saveResponseExample, deleteResponseExample).
THEOREM ChoicesAreRemembered ==
  EnvironmentSpec => [](EnvironmentTypeOK /\ ActiveIsRemembered /\ ExamplesKept)
<1>1. PageInv /\ [PagesNext]_environmentVars => PageInv'
  BY PageTypesKept, PageOrderKept DEF PageInv
<1>2. PageInv => EnvironmentTypeOK /\ ActiveIsRemembered /\ ExamplesKept
  <2> SUFFICES ASSUME PageInv PROVE EnvironmentTypeOK /\ ActiveIsRemembered /\ ExamplesKept
    OBVIOUS
  <2>1. EnvironmentTypeOK
    BY DEF PageInv, PageTypes, EnvironmentTypeOK, TabRec, SomeEnv
  <2>2. ASSUME alone, ~cut, NEW t \in Pages, tab[t].open, tab[t].calls = <<>>
        PROVE  /\ tab[t].active = chosen /\ activeMeta = chosen
               /\ chosen \in environments \union {NoEnv}
    <3>1. /\ Follows(<<>>, tab[t].active, activeMeta, chosen)
          /\ chosen \in environments \union {NoEnv}
      BY <2>2 DEF PageInv, PageOrder
    <3> QED
      BY <3>1, Tuples DEF Follows
  <2>3. ExamplesKept
    BY DEF PageInv, PageOrder, ExamplesKept
  <2> QED
    BY <2>1, <2>2, <2>3 DEF ActiveIsRemembered
<1> QED
  BY <1>1, <1>2, PageInitially, PTL DEF EnvironmentSpec

-----------------------------------------------------------------------------
(* The database as a whole: a step of it is a step of one of its parts.    *)

LEMMA PartsInitially == Init => TreeInit /\ HistoryInit /\ CookieInit /\ EnvironmentInit
BY DEF Init

LEMMA PartsStep ==
  [Next]_vars => /\ [TreeNext]_treeVars /\ [HistoryNext]_historyVars
                 /\ [CookieNext]_cookieVars /\ [PagesNext]_environmentVars
<1> SUFFICES ASSUME [Next]_vars
             PROVE  /\ [TreeNext]_treeVars /\ [HistoryNext]_historyVars
                    /\ [CookieNext]_cookieVars /\ [PagesNext]_environmentVars
  OBVIOUS
<1>1. CASE TreeNext /\ UNCHANGED <<historyVars, cookieVars, environmentVars>>
  BY <1>1
<1>2. CASE HistoryNext /\ UNCHANGED <<treeVars, cookieVars, environmentVars>>
  BY <1>2
<1>3. CASE CookieNext /\ UNCHANGED <<treeVars, historyVars, environmentVars>>
  BY <1>3
<1>4. CASE (TabNext \/ EnvironmentNext) /\ UNCHANGED <<treeVars, historyVars, cookieVars>>
  BY <1>4 DEF PagesNext
<1>5. CASE (TabNext \/ ExampleNext) /\ UNCHANGED <<treeVars, historyVars, cookieVars>>
  BY <1>5 DEF PagesNext
<1>6. CASE UNCHANGED vars
  BY <1>6 DEF vars
<1> QED
  BY <1>1, <1>2, <1>3, <1>4, <1>5, <1>6 DEF Next, Only

LEMMA PartsOfTheDatabase == Spec => TreeSpec /\ HistorySpec /\ CookieSpec /\ EnvironmentSpec
BY PartsInitially, PartsStep, PTL DEF Spec, TreeSpec, HistorySpec, CookieSpec, EnvironmentSpec

\* The tables beside the tree keep their promises, whatever executions, panels
\* and tabs write (addHistory, upsertCookie, deleteEnvironment,
\* saveResponseExample and the functions beside them).
THEOREM TablesStaySound == Spec => []TablesAreSound
<1>1. (/\ HistoryTypeOK /\ HistoryBounded /\ CookieTypeOK /\ OneCookiePerKey
       /\ EnvironmentTypeOK /\ ActiveIsRemembered /\ ExamplesKept) => TablesAreSound
  BY DEF TablesAreSound
<1> QED
  BY <1>1, PartsOfTheDatabase, HistoryIsBounded, CookiesAreUnique, ChoicesAreRemembered, PTL

\* A deletion removes what it is meant to: a folder goes with all that is below
\* it, and trimming the history takes the oldest entries only (deleteFolder,
\* applyRetention).
THEOREM DeletionsAreRight == Spec => DeletesWhatItMust
BY PartsOfTheDatabase, DeletionsReachAll, TrimsTheOldest, PTL DEF DeletesWhatItMust
=============================================================================
