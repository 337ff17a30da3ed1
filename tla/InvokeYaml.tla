------------------------------ MODULE InvokeYaml ------------------------------
(***************************************************************************)
(* The project's own file format (packages/core/src/import-export/         *)
(* invoke-yaml.ts): exportCollectionZip writes a collection to a zip of    *)
(* YAML files, a directory for each folder, and importInvokeZip reads such *)
(* files back.                                                             *)
(*                                                                         *)
(* A document is a record of the fields that the YAML text has, YAML and   *)
(* zip themselves are left out.  A slug is a sequence of words (it is what *)
(* separates them by "-" in the code), a path a sequence of slugs.         *)
(***************************************************************************)
EXTENDS Naturals, Sequences, SequencesExt, FiniteSetsExt, Functions, TLC

CONSTANTS
  Slug,       \* name |-> the words of its slug, "request" if it has none
  NameOrder,  \* name |-> its place in localeCompare
  Trim,       \* key |-> the key without surrounding blanks
  None,       \* null, undefined or an empty id
  Default     \* what a request that a document does not describe has

Words(name) == Slug[name]
ById(records, key) == CHOOSE r \in Range(records) : r.id = key
HasId(records, key) == \E r \in Range(records) : r.id = key

-----------------------------------------------------------------------------
(* Rows and records.                                                       *)

\* Enabled rows with a key, the last of a key winning.
keyValuesToRecord(rows) ==
  LET on == SelectSeq(rows, LAMBDA r : r.enabled /\ Trim[r.key] # "")
      last(k) == CHOOSE i \in DOMAIN on : Trim[on[i].key] = k /\ \A j \in DOMAIN on : Trim[on[j].key] = k => j <= i
  IN [k \in {Trim[r.key] : r \in Range(on)} |-> on[last(k)].value]

recordToKeyValues(record) ==
  LET keys == SetToSeq(DOMAIN record)
  IN [i \in DOMAIN keys |-> [key |-> keys[i], value |-> record[keys[i]], enabled |-> TRUE]]

bodyModeToYaml(mode) ==
  CASE mode = "raw" -> "text" [] mode = "urlencoded" -> "form-urlencoded" [] OTHER -> mode

yamlBodyToMode(type) ==
  CASE type = "text" -> "raw" [] type = "form-urlencoded" -> "urlencoded"
    [] type \in {"form-data", "json", "none"} -> type [] OTHER -> "none"

-----------------------------------------------------------------------------
(* Names of files.                                                         *)

RECURSIVE FreeSlug(_, _, _)
FreeSlug(base, used, index) ==
  LET candidate == base \o <<ToString(index)>>
  IN IF candidate \in used THEN FreeSlug(base, used, index + 1) ELSE candidate

\* Mutant: a number is added without a look at the names in use.
uniqueSlug_Second(name, used) == IF Words(name) \in used THEN Words(name) \o <<"2">> ELSE Words(name)

uniqueSlug(name, used) == IF Words(name) \in used THEN FreeSlug(Words(name), used, 2) ELSE Words(name)

\* The names that uniqueSlug gives to records that share the set used.
RECURSIVE UniqueSlugs(_, _)
UniqueSlugs(names, used) ==
  IF names = <<>> THEN <<>>
  ELSE LET s == uniqueSlug(Head(names), used)
       IN <<s>> \o UniqueSlugs(Tail(names), used \union {s})

sortByOrderThenName(l, r) ==
  \/ l.sortOrder < r.sortOrder
  \/ l.sortOrder = r.sortOrder /\ NameOrder[l.name] < NameOrder[r.name]

Parent(f, folders) == IF HasId(folders, f.parentFolderId) THEN <<ById(folders, f.parentFolderId)>> ELSE <<>>

RECURSIVE Ancestry(_, _)
\* A folder after its ancestors, as folderPath and folderDepth climb them.
Ancestry(f, folders) ==
  LET up == Parent(f, folders) IN (IF up = <<>> THEN <<>> ELSE Ancestry(up[1], folders)) \o <<f>>

folderDepth(f, folders) == Len(Ancestry(f, folders)) - 1

\* A stable sort, as Array.sort is.
SortedBy(s, Before(_, _)) ==
  LET less(i, j) == Before(s[i], s[j]) \/ (~Before(s[j], s[i]) /\ i < j)
      order == SortSeq([i \in DOMAIN s |-> i], less)
  IN [i \in DOMAIN s |-> s[order[i]]]

sortFoldersForExport(folders) ==
  SortedBy(folders, LAMBDA l, r :
    LET d(f) == folderDepth(f, folders)
    IN d(l) < d(r) \/ (d(l) = d(r) /\ sortByOrderThenName(l, r)))

\* The slug of each folder: unique among those with the same parent.
SlugById(folders) ==
  LET siblings(p) == SortedBy(SelectSeq(folders, LAMBDA f : f.parentFolderId = p), sortByOrderThenName)
      slugs(p) == UniqueSlugs([i \in DOMAIN siblings(p) |-> siblings(p)[i].name], {})
  IN [key \in {f.id : f \in Range(folders)} |->
        LET p == ById(folders, key).parentFolderId
        IN slugs(p)[CHOOSE i \in DOMAIN siblings(p) : siblings(p)[i].id = key]]

exportFolderPaths(folders) ==
  LET slugs == SlugById(folders)
  IN [key \in {f.id : f \in Range(folders)} |->
        LET line == Ancestry(ById(folders, key), folders) IN [i \in DOMAIN line |-> slugs[line[i].id]]]

-----------------------------------------------------------------------------
(* Export.                                                                 *)

folderDocument(f) ==
  [type |-> "folder", id |-> f.id, name |-> f.name, parentFolderId |-> f.parentFolderId,
   variables |-> keyValuesToRecord(f.variables), sortOrder |-> f.sortOrder]

\* A WebSocket request is written as a REST request without its messages.
flatRequestDocument(saved) ==
  LET r == saved.request
      common == [type |-> "request", name |-> saved.name, folderId |-> saved.folderId, auth |-> r.auth]
  IN CASE saved.protocol = "graphql" ->
            common @@ [protocol |-> "graphql", url |-> r.url, headers |-> keyValuesToRecord(r.headers),
                       graphql |-> [query |-> r.query, variables |-> r.variables]]
       [] saved.protocol = "grpc" ->
            common @@ [protocol |-> "grpc", url |-> r.address,
                       grpc |-> [address |-> r.address, service |-> r.service, method |-> r.method,
                                 metadata |-> keyValuesToRecord(r.metadata), body |-> r.body, tls |-> r.tls]]
       [] OTHER ->
            common @@ [protocol |-> "rest", method |-> r.method, url |-> r.url,
                       params |-> keyValuesToRecord(r.params), headers |-> keyValuesToRecord(r.headers),
                       body |-> [type |-> bodyModeToYaml(r.bodyMode), content |-> r.body],
                       variables |-> keyValuesToRecord(r.variables)]

Write(path, file, doc) == [path |-> Append(path, file), doc |-> doc]
CollectionFile == <<"collection">>
FolderFile == <<"folder">>

\* The writes of an export, in their order: the collection, its folders from the
\* root down, its requests.  File names are unique among the requests of a path
\* only: a request may be given the name of the folder's or the collection's file.
WritesOf(collection, mine, sorted, paths) ==
  LET pathOf(r) == IF r.folderId \in DOMAIN paths THEN paths[r.folderId] ELSE <<>>
      namesIn(path) == SelectSeq([i \in DOMAIN mine |-> i], LAMBDA i : pathOf(mine[i]) = path)
      file(i) == LET same == namesIn(pathOf(mine[i]))
                 IN UniqueSlugs([k \in DOMAIN same |-> mine[same[k]].name], {})[CHOOSE k \in DOMAIN same : same[k] = i]
  IN <<Write(<<>>, CollectionFile,
             [type |-> "collection", name |-> collection.name, variables |-> keyValuesToRecord(collection.variables)])>>
       \o [i \in DOMAIN sorted |-> Write(paths[sorted[i].id], FolderFile, folderDocument(sorted[i]))]
       \o [i \in DOMAIN mine |-> Write(pathOf(mine[i]), file(i), flatRequestDocument(mine[i]))]
Writes(collection, requests, folders) ==
  LET own == SelectSeq(folders, LAMBDA f : f.collectionId = collection.id)
  IN WritesOf(collection, SelectSeq(requests, LAMBDA r : r.collectionId = collection.id),
              sortFoldersForExport(own), exportFolderPaths(own))

\* The documents of a zip: a file written again keeps its place, not its content.
Zipped(w) ==
  LET first == SelectSeq([i \in DOMAIN w |-> i], LAMBDA i : \A j \in 1..(i - 1) : w[j].path # w[i].path)
      last(i) == Max({j \in DOMAIN w : w[j].path = w[i].path})
  IN [k \in DOMAIN first |-> w[last(first[k])].doc]
exportCollectionZip(collection, requests, folders) == Zipped(Writes(collection, requests, folders))

-----------------------------------------------------------------------------
(* Import.                                                                 *)

NewId(kind, i) == kind \o ToString(i)

\* folderIdMap: the last document with an id wins.
FolderIdMap(docs) ==
  [key \in {d.id : d \in Range(docs)} |-> NewId("folder", Max({i \in DOMAIN docs : docs[i].id = key}))]

foldersFromDocuments(docs) ==
  LET ids == FolderIdMap(docs)
  IN [i \in DOMAIN docs |->
        [id |-> NewId("folder", i),
         parentFolderId |-> IF docs[i].parentFolderId \in DOMAIN ids THEN ids[docs[i].parentFolderId] ELSE None,
         name |-> docs[i].name, variables |-> recordToKeyValues(docs[i].variables),
         sortOrder |-> docs[i].sortOrder]]

\* An id that no document has is kept.
remapFolderId(folderId, ids) == IF folderId \in DOMAIN ids THEN ids[folderId] ELSE folderId

\* What the documents leave out (options, assertions, scripts) is as in a new request.
savedRequestFromDocument(doc, i, ids) ==
  LET common == [id |-> NewId("request", i), folderId |-> remapFolderId(doc.folderId, ids),
                 name |-> doc.name, protocol |-> doc.protocol, sortOrder |-> i]
  IN common @@
     CASE doc.protocol = "graphql" ->
            [request |-> [url |-> doc.url, headers |-> recordToKeyValues(doc.headers), auth |-> doc.auth,
                          query |-> IF doc.graphql.query = "" THEN Default ELSE doc.graphql.query,
                          variables |-> doc.graphql.variables]]
       [] doc.protocol = "grpc" ->
            [request |-> [address |-> doc.grpc.address, service |-> doc.grpc.service, method |-> doc.grpc.method,
                          metadata |-> recordToKeyValues(doc.grpc.metadata), body |-> doc.grpc.body,
                          tls |-> doc.grpc.tls, auth |-> doc.auth]]
       [] OTHER ->
            [request |-> [method |-> doc.method, url |-> doc.url, params |-> recordToKeyValues(doc.params),
                          headers |-> recordToKeyValues(doc.headers), auth |-> doc.auth,
                          bodyMode |-> yamlBodyToMode(doc.body.type), body |-> doc.body.content,
                          variables |-> recordToKeyValues(doc.variables)]]

\* A document of the older format wraps a saved request, or a request without its name.
savedRequestFromWrappedDocument(doc, i, ids) ==
  LET w == doc.request
      common == [id |-> NewId("request", i), folderId |-> remapFolderId(w.folderId, ids), sortOrder |-> i]
  IN IF w.request # None THEN common @@ w
     ELSE common @@ [name |-> w.name, protocol |-> "rest", request |-> w.config]

importedFromDocuments(docs) ==
  LET of(type) == SelectSeq(docs, LAMBDA d : d.type = type)
      collections == of("collection")
      folderDocs == of("folder")
      requestDocs == of("request")
      ids == FolderIdMap(folderDocs)
      saved(i) == IF "request" \in DOMAIN requestDocs[i]
                  THEN savedRequestFromWrappedDocument(requestDocs[i], i, ids)
                  ELSE savedRequestFromDocument(requestDocs[i], i, ids)
  IN [collection |-> IF collections = <<>> THEN [name |-> Default, variables |-> <<>>]
                     ELSE [name |-> collections[1].name,
                           variables |-> recordToKeyValues(collections[1].variables)],
      folders |-> foldersFromDocuments(folderDocs),
      requests |-> [i \in DOMAIN requestDocs |-> saved(i)]]
=============================================================================
