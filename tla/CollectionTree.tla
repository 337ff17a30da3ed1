--------------------------- MODULE CollectionTree ---------------------------
(***************************************************************************)
(* The collections, folders and saved requests that every tab of the UI    *)
(* keeps in one IndexedDB database, and each tab's own copy of the request *)
(* list.  A tab's operation is a sequence of awaited calls of InvokeStore; *)
(* each call is one database transaction, so calls of two tabs, or of two  *)
(* handlers, interleave between the awaits and never inside one.           *)
(*                                                                         *)
(* An operation works with the records its component had rendered when the *)
(* user started it, however old they are when the call is made.            *)
(***************************************************************************)
EXTENDS FiniteSets, Sequences, Naturals

CONSTANTS
  Tabs,      \* browser tabs, or handlers of one tab that are in flight
  Cols,      \* collection ids
  Folds,     \* folder ids
  Reqs,      \* request ids
  None,      \* null: no parent folder, no folder
  Stored,    \* what the tables held when the tabs were opened
  Files,     \* collection files offered for import
  MaxOps     \* bound: operations the users start altogether

VARIABLES
  collections, \* the ids in the collections table
  folders,     \* the folders table: id -> collection and parent folder
  requests,    \* the requests table: id -> collection and folder
  used,        \* ids that were ever given out (uuids are never reused)
  backup,      \* the workspace file at hand, last exported table by table
  op,          \* per tab, the calls its operation has still to make
  listed,      \* per tab, the requests of its Zustand store
  pending,     \* per tab, has the requests table changed since its live query ran?
  started,     \* how many operations the users started
  orderly      \* auxiliary: no operation began while another was in flight,
               \* and no backup was merged in

treeVars == <<collections, folders, requests, used, backup, op, listed,
              pending, started, orderly>>
tables == <<collections, folders, requests>>

\* An imported folder keeps its id; its parent is kept only when the parent
\* was created before it.
ParentKept(file, i) ==
  LET parent == file.folders[i].parent
  IN  IF \E j \in 1..(i - 1) : file.folders[j].id = parent THEN parent ELSE None

FolderRec  == [col : Cols, parent : Folds \union {None}]
RequestRec == [col : Cols, folder : Folds \union {None}]
FolderTable  == UNION {[ids -> FolderRec] : ids \in SUBSET Folds}
RequestTable == UNION {[ids -> RequestRec] : ids \in SUBSET Reqs}

FileRec == [folders : Seq([id : Folds, parent : Folds \union {None}]),
            folder : Folds \union {None}]

\* f is no folder, or one that is there and in collection c.
Holds(fs, f, c) == f = None \/ (f \in DOMAIN fs /\ fs[f].col = c)

\* Every folder and request is in a collection that is there and, if it is in a
\* folder, in one that is there and in the same collection.
Intact(cols, fs, rs) ==
  /\ \A f \in DOMAIN fs : fs[f].col \in cols /\ Holds(fs, fs[f].parent, fs[f].col)
  /\ \A r \in DOMAIN rs : rs[r].col \in cols /\ Holds(fs, rs[r].folder, rs[r].col)

\* Which folder is in which, in the tables and in the files.
Nested == {<<f, Stored.folders[f].parent>> : f \in DOMAIN Stored.folders}
          \union UNION {{<<file.folders[i].id, ParentKept(file, i)>> :
                           i \in DOMAIN file.folders} : file \in Files}

\* No operation puts a folder into another one, so the tables and all files
\* exported from them agree on a nesting, and it has no cycle.
ASSUME TreeAssumption ==
  /\ None \notin Folds /\ MaxOps \in Nat
  /\ Stored \in [collections : SUBSET Cols, folders : FolderTable, requests : RequestTable]
  /\ Intact(Stored.collections, Stored.folders, Stored.requests)
  /\ Files \subseteq FileRec
  /\ \A S \in SUBSET Folds : S # {} => \E f \in S : \A p \in S : <<f, p>> \notin Nested

TreeInit ==
  /\ collections = Stored.collections
  /\ folders = Stored.folders /\ requests = Stored.requests
  /\ used = collections \union DOMAIN folders \union DOMAIN requests
  /\ backup = Stored
  /\ op = [t \in Tabs |-> <<>>]
  /\ listed = [t \in Tabs |-> DOMAIN requests]
  /\ pending = [t \in Tabs |-> FALSE]
  /\ started = 0 /\ orderly = TRUE

Put(table, id, rec) == [i \in DOMAIN table \union {id} |->
                          IF i = id THEN rec ELSE table[i]]
Drop(table, ids) == [i \in DOMAIN table \ ids |-> table[i]]

\* Mutant: the folders below are forgotten.
collectFolderIds_RootOnly(fs, root) ==
  {root}

\* The while loop goes over the table until nothing was added: to the smallest
\* set that has root in it and every folder whose parent is in it.
collectFolderIds(fs, root) ==
  LET ids == DOMAIN fs \union {root}
      Closed(S) == root \in S /\ \A g \in DOMAIN fs : fs[g].parent \in S => g \in S
  IN  {f \in ids : \A S \in SUBSET ids : Closed(S) => f \in S}

-----------------------------------------------------------------------------
(* The calls of InvokeStore that an operation makes.                       *)

Call(kind, id, arg) == [kind |-> kind, id |-> id, arg |-> arg]

\* createCollection adds, updateCollection puts: the id is there afterwards.
PutCollection(id) == Call("putCollection", id, None)
DelCollection(id) == Call("deleteCollection", id, None)
AddFolder(id, rec) == Call("createFolder", id, rec)
PutFolder(id, rec) == Call("updateFolder", id, rec)
DelFolder(id)      == Call("deleteFolder", id, None)
PutRequest(id, rec) == Call("saveRequest", id, rec)
DelRequest(id)      == Call("deleteRequest", id, None)
GetRequest(id, folder) == Call("moveRequest", id, folder)
\* The tab overwrites its list: with a fresh read, or with what it rendered.
ListAll        == Call("listRequests", None, Cols)
ListOf(col)    == Call("listRequests", None, {col})
SetList(ids)   == Call("set", None, ids)
\* exportWorkspace reads, and importWorkspace writes, all tables at once and
\* without a transaction around them: in any order.
InAnyOrder == {s \in [1..3 -> {"collections", "folders", "requests"}] :
                 \A i, j \in 1..3 : s[i] = s[j] => i = j}
Transfer(kind, order) == [i \in 1..3 |-> Call(kind, None, order[i])]

-----------------------------------------------------------------------------
(* Operations a user starts in a tab, with the records rendered there.     *)

Start(t, calls, newIds) ==
  /\ op[t] = <<>> /\ started < MaxOps
  /\ started' = started + 1
  /\ op' = [op EXCEPT ![t] = calls]
  /\ used' = used \union newIds
  /\ orderly' = (orderly /\ (\A u \in Tabs : op[u] = <<>>)
                         /\ \A i \in DOMAIN calls : calls[i].kind # "bulkPut")
  /\ UNCHANGED <<tables, backup, listed, pending>>

NewCollection(t, c) == c \notin used /\ Start(t, <<PutCollection(c)>>, {c})
RenameCollection(t, c) == c \in collections /\ Start(t, <<PutCollection(c)>>, {})

\* The list is then filtered as it was when the dialog was rendered.
DeleteCollection(t, c) ==
  /\ c \in collections
  /\ Start(t, <<DelCollection(c),
                SetList({r \in listed[t] : r \in DOMAIN requests => requests[r].col # c})>>, {})

NewFolder(t, c, f) ==
  /\ c \in collections /\ f \notin used
  /\ Start(t, <<AddFolder(f, [col |-> c, parent |-> None])>>, {f})

\* Its description or its variables are saved, with the rendered record.
EditFolder(t, f) ==
  /\ f \in DOMAIN folders
  /\ Start(t, <<PutFolder(f, folders[f])>>, {})
DeleteFolder(t, f) == f \in DOMAIN folders /\ Start(t, <<DelFolder(f)>>, {})

NewRequest(t, c, r) ==
  /\ c \in collections /\ r \notin used
  /\ Start(t, <<PutRequest(r, [col |-> c, folder |-> None])>>, {r})

\* "Save as new": a collection and a folder may be created on the way.
SaveRequestAs(t, c, f, r) ==
  /\ r \notin used
  /\ c \notin used => f \notin DOMAIN folders
  /\ c \in collections \/ c \notin used
  /\ f \in DOMAIN folders => folders[f].col = c
  /\ f = None \/ f \in DOMAIN folders \/ f \notin used
  /\ Start(t, (IF c \in collections THEN <<>> ELSE <<PutCollection(c)>>)
              \o (IF f \in DOMAIN folders \union {None} THEN <<>>
                  ELSE <<AddFolder(f, [col |-> c, parent |-> None])>>)
              \o <<PutRequest(r, [col |-> c, folder |-> f]), ListAll>>,
           ({c, f} \ {None}) \union {r})

\* "Update existing", with the place the rendered list says it is in.
UpdateRequest(t, r) ==
  /\ r \in DOMAIN requests /\ r \in listed[t]
  /\ Start(t, <<PutRequest(r, requests[r]), ListAll>>, {})

\* Duplicate and delete re-read only the request's own collection.
DuplicateRequest(t, r, copy) ==
  /\ r \in DOMAIN requests /\ r \in listed[t] /\ copy \notin used
  /\ Start(t, <<PutRequest(copy, requests[r]), ListOf(requests[r].col)>>, {copy})
DeleteRequest(t, r) ==
  /\ r \in DOMAIN requests /\ r \in listed[t]
  /\ Start(t, <<DelRequest(r), ListOf(requests[r].col)>>, {})

\* A drag ends in a folder of the same collection, or outside any folder.
DragRequest(t, r, f) ==
  /\ r \in DOMAIN requests /\ r \in listed[t]
  /\ f # requests[r].folder
  /\ f # None => f \in DOMAIN folders /\ folders[f].col = requests[r].col
  /\ Start(t, <<GetRequest(r, f)>>, {})

ImportedFolder(file, c, i) ==
  AddFolder(file.folders[i].id, [col |-> c, parent |-> ParentKept(file, i)])
persistImported(t, file, c, r) ==
  /\ c \notin used /\ r \notin used
  /\ LET ids == {file.folders[i].id : i \in DOMAIN file.folders}
     IN  Start(t, <<PutCollection(c)>>
                  \o [i \in DOMAIN file.folders |-> ImportedFolder(file, c, i)]
                  \o <<PutRequest(r, [col |-> c, folder |-> IF file.folder \in ids
                                                            THEN file.folder ELSE None])>>,
               ids \union {c, r})

exportWorkspace(t, order) == Start(t, Transfer("export", order), {})
\* The backup is read from its file when the import starts.
importWorkspace(t, order) ==
  Start(t, [i \in 1..3 |-> Call("bulkPut", order[i], backup[order[i]])]
           \o <<ListAll>>, {})

-----------------------------------------------------------------------------
(* One call is made: the transaction it runs, and what the tab does next.  *)

\* Every tab's live query notices that the requests table was written.
Written == pending' = [t \in Tabs |-> TRUE]

Continue(t, calls) == op' = [op EXCEPT ![t] = calls]

collectionCall(t, call) ==
  /\ \/ /\ call.kind = "putCollection"
        /\ collections' = collections \union {call.id}
        /\ UNCHANGED <<folders, requests, pending>>
     \/ /\ call.kind = "deleteCollection"
        /\ folders' = Drop(folders, {f \in DOMAIN folders : folders[f].col = call.id})
        /\ requests' = Drop(requests, {r \in DOMAIN requests : requests[r].col = call.id})
        /\ collections' = collections \ {call.id}
        /\ Written
  /\ Continue(t, Tail(op[t]))
  /\ UNCHANGED listed

\* Mutant: a folder that is already there is overwritten.
createFolder_Puts(t, call) ==
  /\ call.kind = "createFolder"
  /\ folders' = Put(folders, call.id, call.arg)
  /\ Continue(t, Tail(op[t]))
  /\ UNCHANGED <<collections, requests, listed, pending>>

\* add fails when the id exists (a file imported twice): the operation ends.
createFolder(t, call) ==
  /\ call.kind = "createFolder"
  /\ IF call.id \in DOMAIN folders
       THEN /\ Continue(t, <<>>) /\ UNCHANGED folders
       ELSE /\ folders' = Put(folders, call.id, call.arg) /\ Continue(t, Tail(op[t]))
  /\ UNCHANGED <<collections, requests, listed, pending>>

folderCall(t, call) ==
  /\ \/ /\ call.kind = "updateFolder"
        /\ folders' = Put(folders, call.id, call.arg)
        /\ UNCHANGED <<requests, pending>>
     \/ /\ call.kind = "deleteFolder"
        /\ LET ids == collectFolderIds(folders, call.id)
           IN  /\ requests' = Drop(requests, {r \in DOMAIN requests : requests[r].folder \in ids})
               /\ folders' = Drop(folders, ids)
        /\ Written
  /\ Continue(t, Tail(op[t]))
  /\ UNCHANGED <<collections, listed>>

requestCall(t, call) ==
  /\ \/ call.kind = "saveRequest"   /\ requests' = Put(requests, call.id, call.arg)
     \/ call.kind = "deleteRequest" /\ requests' = Drop(requests, {call.id})
  /\ Written
  /\ Continue(t, Tail(op[t]))
  /\ UNCHANGED <<collections, folders, listed>>

\* moveRequest reads the request in one call and puts it back in another.
moveRequest(t, call) ==
  /\ call.kind = "moveRequest"
  /\ Continue(t, IF call.id \in DOMAIN requests
                   THEN <<PutRequest(call.id, [requests[call.id] EXCEPT !.folder = call.arg])>>
                   ELSE <<>>)
  /\ UNCHANGED <<tables, listed, pending>>

exportTable(t, call) ==
  /\ call.kind = "export"
  /\ backup' = [backup EXCEPT ![call.arg] = [collections |-> collections,
                  folders |-> folders, requests |-> requests][call.arg]]
  /\ Continue(t, Tail(op[t]))
  /\ UNCHANGED <<tables, listed, pending>>

BulkPut(table, rows) == [i \in DOMAIN table \union DOMAIN rows |->
                           IF i \in DOMAIN rows THEN rows[i] ELSE table[i]]

bulkPut(t, call) ==
  /\ call.kind = "bulkPut"
  /\ collections' = IF call.id = "collections" THEN collections \union call.arg ELSE collections
  /\ folders' = IF call.id = "folders" THEN BulkPut(folders, call.arg) ELSE folders
  /\ requests' = IF call.id = "requests" THEN BulkPut(requests, call.arg) ELSE requests
  /\ IF call.id = "requests" THEN Written ELSE UNCHANGED pending
  /\ Continue(t, Tail(op[t]))
  /\ UNCHANGED listed

setRequests(t, call) ==
  /\ call.kind \in {"set", "listRequests"}
  /\ listed' = [listed EXCEPT ![t] =
       IF call.kind = "set" THEN call.arg
       ELSE {r \in DOMAIN requests : requests[r].col \in call.arg}]
  /\ Continue(t, Tail(op[t]))
  /\ UNCHANGED <<tables, pending>>

CallReturns(t) ==
  /\ op[t] # <<>>
  /\ LET call == Head(op[t])
     IN  \/ exportTable(t, call)
         \/ /\ \/ collectionCall(t, call) \/ createFolder(t, call) \/ folderCall(t, call)
               \/ requestCall(t, call) \/ moveRequest(t, call)
               \/ bulkPut(t, call) \/ setRequests(t, call)
            /\ UNCHANGED backup
  /\ UNCHANGED <<used, started, orderly>>

\* useLiveQuery re-reads the table after a write and sets the store.
LiveQuery(t) ==
  /\ pending[t]
  /\ pending' = [pending EXCEPT ![t] = FALSE]
  /\ listed' = [listed EXCEPT ![t] = DOMAIN requests]
  /\ UNCHANGED <<tables, used, backup, op, started, orderly>>

TreeNext ==
  \E t \in Tabs :
    \/ CallReturns(t) \/ LiveQuery(t)
    \/ \E order \in InAnyOrder : exportWorkspace(t, order) \/ importWorkspace(t, order)
    \/ \E c \in Cols :
         \/ NewCollection(t, c) \/ RenameCollection(t, c) \/ DeleteCollection(t, c)
         \/ \E f \in Folds : NewFolder(t, c, f)
         \/ \E r \in Reqs :
              \/ NewRequest(t, c, r)
              \/ \E f \in Folds \union {None} : SaveRequestAs(t, c, f, r)
              \/ \E file \in Files : persistImported(t, file, c, r)
    \/ \E f \in Folds : EditFolder(t, f) \/ DeleteFolder(t, f)
    \/ \E r \in Reqs :
         \/ UpdateRequest(t, r) \/ DeleteRequest(t, r)
         \/ \E copy \in Reqs : DuplicateRequest(t, r, copy)
         \/ \E f \in Folds \union {None} : DragRequest(t, r, f)


-----------------------------------------------------------------------------

\* The ids, records and calls are of their kinds.
TreeTypeOK ==
  /\ collections \subseteq Cols /\ folders \in FolderTable /\ requests \in RequestTable
  /\ used \subseteq Cols \union Folds \union Reqs
  /\ listed \in [Tabs -> SUBSET Reqs]
  /\ pending \in [Tabs -> BOOLEAN] /\ orderly \in BOOLEAN /\ started \in 0..MaxOps

\* As long as no operation overlapped another one (and no backup was merged,
\* which can move a folder whose id an import reused), every folder and request
\* sits in a collection that exists and in a folder of that collection:
\* cascading deletes (deleteCollection, deleteFolder), saves that create
\* their folder on the way and imports, also a failing one, leave no orphan.
OrderlyIsIntact ==
  orderly /\ (\A t \in Tabs : op[t] = <<>>) => Intact(collections, folders, requests)

\* There is no cycle of folders, whatever is imported, deleted, put back from a
\* stale record and imported again: of any folders, one is not in another of
\* them.  The tree code, which follows parents, would never show the folders of
\* a cycle (createFolder, updateFolder).
NoFolderCycle ==
  \A S \in SUBSET DOMAIN folders : S # {} => \E f \in S : folders[f].parent \notin S

\* Deleting a folder deletes everything below it in the same transaction: no
\* folder and no request remains in it or in one that went with it, also when
\* other tabs interleave (deleteFolder, collectFolderIds).
DeleteReachesAll ==
  [][\A t \in Tabs : op[t] # <<>> /\ Head(op[t]).kind = "deleteFolder" /\ op'[t] # op[t] =>
       LET gone == (DOMAIN folders \ DOMAIN folders') \union {Head(op[t]).id}
       IN  /\ \A g \in DOMAIN folders' : folders'[g].parent \notin gone
           /\ \A r \in DOMAIN requests' : requests'[r].folder \notin gone]_treeVars

TreeSpec == TreeInit /\ [][TreeNext]_treeVars

\* The tree of collections is sound: operations that do not overlap leave no
\* orphan, and no folder is ever below itself, whatever is imported, deleted
\* and put back.
TreeIsSound == TreeTypeOK /\ OrderlyIsIntact /\ NoFolderCycle
=============================================================================
