----------------------------- MODULE FolderTree -----------------------------
(***************************************************************************)
(* The tree of folders and albums, as the publish API changes it           *)
(* (internal/api/publish_folders.go, publish_albums.go): every handler     *)
(* reads rows, decides, and writes in statements of its own; no            *)
(* transaction spans them.  The names, the descriptions and the passwords  *)
(* are left out, and so are the idempotency keys of the creates; an        *)
(* album's photos are whether it has files.                                *)
(***************************************************************************)
CONSTANTS
  Folder, Album,  \* ids; a uuid is never given twice
  Client,
  May,            \* the kinds of request each client sends
  Root, Unborn, Gone, None

Kind == {"createFolder", "updateFolder", "deleteFolder",
         "createAlbum", "updateAlbum", "deleteAlbum"}

ASSUME TreeAssumption ==
  /\ May \in [Client -> SUBSET Kind]
  /\ {Root, Unborn, Gone, None} \cap (Folder \cup Album) = {}
  /\ Root \notin {Unborn, Gone, None} /\ Unborn \notin {Gone, None} /\ Gone # None

VARIABLES
  parent,  \* folders.parent_id of each folder
  folder,  \* albums.folder_id of each album
  files,   \* the files of each album: none, stored, or removed
  at,      \* how far each client's request is
  id,      \* the row it is about
  par,     \* the parent it is going to write
  list,    \* the albums it still has to remove from disk
  stale,   \* history: clients beside whose request something moved since it has read
  crossed  \* history: the requests that have written in spite of that, "move" or "delete"

rows == <<parent, folder>>
history == <<stale, crossed>>
vars == <<rows, files, at, id, par, list, history>>

LiveFolders == {f \in Folder : parent[f] \notin {Unborn, Gone}}
LiveAlbums == {a \in Album : folder[a] \notin {Unborn, Gone}}

\* GetFolder finds it, and so does the foreign key; "" is the root.
Resolves(p) == p = Root \/ p \in LiveFolders

\* S has, with a folder, the one it is in.
Upward(S) == \A f \in S : parent[f] \in LiveFolders => parent[f] \in S

\* The rows of FolderChain, p and what is above it: a recursive query answers
\* the least set that has its first row and what each row leads to.
Chain(p) == {g \in LiveFolders :
               \A S \in SUBSET LiveFolders : {p} \cap LiveFolders \subseteq S /\ Upward(S) => g \in S}

\* The recursive queries use UNION ALL: below or in a cycle they never end.
Ends(p) == \A f \in Chain(p) : f \notin Chain(parent[f])

Below(f) == {g \in LiveFolders : f \in Chain(g)}
AlbumsBelow(f) == {a \in LiveAlbums : folder[a] \in Below(f)}

Init ==
  /\ parent = [f \in Folder |-> Unborn] /\ folder = [a \in Album |-> Unborn]
  /\ files = [a \in Album |-> "none"]
  /\ at = [c \in Client |-> "idle"]
  /\ id = [c \in Client |-> None] /\ par = [c \in Client |-> None]
  /\ list = [c \in Client |-> {}]
  /\ stale = {} /\ crossed = {}

\* The request of c is at step s, about row i, with parent p to write.
Goto(c, s, i, p) ==
  /\ at' = [at EXCEPT ![c] = s]
  /\ id' = [id EXCEPT ![c] = i]
  /\ par' = [par EXCEPT ![c] = p]

Answer(c) == Goto(c, "idle", None, None)

\* c relies on nothing it has read, or has just read it.
Fresh(c) == stale' = stale \ {c} /\ UNCHANGED crossed

\* c moves a row: whoever is at one of the steps in S relies on an earlier read.
Moves(c, S) == stale' = (stale \cup {d \in Client : at[d] \in S}) \ {c}

\* c writes what it has read earlier.
Crosses(c, kind) == crossed' = IF c \in stale THEN crossed \cup {kind} ELSE crossed
-----------------------------------------------------------------------------
(* createFolder and createAlbum: resolveParentFolder, then the INSERT,     *)
(* which the foreign key refuses if the parent has gone.                   *)

StartCreate(c, kind) ==
  /\ at[c] = "idle" /\ kind \in May[c]
  /\ kind \in {"createFolder", "createAlbum"}
  /\ \E p \in Folder \cup {Root} : Resolves(p) /\ Goto(c, kind, None, p)
  /\ UNCHANGED <<rows, files, list, history>>

InsertFolder(c) ==
  /\ at[c] = "createFolder"
  /\ IF Resolves(par[c])
     THEN \E f \in Folder : parent[f] = Unborn /\ parent' = [parent EXCEPT ![f] = par[c]]
     ELSE UNCHANGED parent
  /\ Answer(c)
  /\ UNCHANGED <<folder, files, list, history>>

InsertAlbum(c) ==
  /\ at[c] = "createAlbum"
  /\ IF Resolves(par[c])
     THEN \E a \in Album : folder[a] = Unborn /\ folder' = [folder EXCEPT ![a] = par[c]]
     ELSE UNCHANGED folder
  /\ Answer(c)
  /\ UNCHANGED <<parent, files, list, history>>
-----------------------------------------------------------------------------
(* updateFolder and updateAlbum: load the row, maybe set a parent, write   *)
(* every column back.                                                      *)

\* Mutant of LoadFolder: the parent is not among the columns that are read.
LoadFolderBare(c, f) ==
  /\ at[c] = "idle" /\ "updateFolder" \in May[c] /\ f \in LiveFolders
  /\ Goto(c, "patchFolder", f, Root) /\ Fresh(c)
  /\ UNCHANGED <<rows, files, list>>

LoadFolder(c, f) ==
  /\ at[c] = "idle" /\ "updateFolder" \in May[c] /\ f \in LiveFolders
  /\ Goto(c, "patchFolder", f, parent[f]) /\ Fresh(c)
  /\ UNCHANGED <<rows, files, list>>

\* The body names no parent, and the one that was loaded is kept; or it names one that
\* resolves and is not the folder itself; any other parent is refused.
PatchFolder(c) ==
  /\ at[c] = "patchFolder"
  /\ \/ Goto(c, "keepFolder", id[c], par[c]) /\ UNCHANGED history
     \/ \E p \in LiveFolders \ {id[c]} : Goto(c, "chain", id[c], p) /\ Fresh(c)
     \/ Goto(c, "writeFolder", id[c], Root) /\ Fresh(c)
     \/ Answer(c) /\ Fresh(c)
  /\ UNCHANGED <<rows, files, list>>

\* Mutant of CheckChain: only the parent itself is compared.
CheckParentOnly(c) ==
  /\ at[c] = "chain" /\ Ends(par[c])
  /\ IF par[c] \in LiveFolders /\ parent[par[c]] = id[c] THEN Answer(c)
     ELSE Goto(c, "writeFolder", id[c], par[c])
  /\ Fresh(c)
  /\ UNCHANGED <<rows, files, list>>

\* A folder is not moved into its own subtree.
CheckChain(c) ==
  /\ at[c] = "chain" /\ Ends(par[c])
  /\ IF id[c] \in Chain(par[c]) THEN Answer(c)
     ELSE Goto(c, "writeFolder", id[c], par[c])
  /\ Fresh(c)
  /\ UNCHANGED <<rows, files, list>>

\* UPDATE finds no row any more, or the parent has gone, or it is the row's already,
\* or the folder moves.
WriteFolder(c) ==
  /\ at[c] \in {"keepFolder", "writeFolder"}
  /\ IF id[c] \in LiveFolders /\ Resolves(par[c]) /\ parent[id[c]] # par[c]
     THEN /\ parent' = [parent EXCEPT ![id[c]] = par[c]]
          /\ Moves(c, {"patchFolder", "keepFolder", "writeFolder", "dropFolder"})
          /\ Crosses(c, "move")
     ELSE UNCHANGED parent /\ Fresh(c)
  /\ Answer(c)
  /\ UNCHANGED <<folder, files, list>>

LoadAlbum(c, a) ==
  /\ at[c] = "idle" /\ "updateAlbum" \in May[c] /\ a \in LiveAlbums
  /\ Goto(c, "patchAlbum", a, folder[a]) /\ Fresh(c)
  /\ UNCHANGED <<rows, files, list>>

PatchAlbum(c) ==
  /\ at[c] = "patchAlbum"
  /\ \/ Goto(c, "keepAlbum", id[c], par[c]) /\ UNCHANGED history
     \/ \E p \in Folder \cup {Root} : Resolves(p) /\ Goto(c, "writeAlbum", id[c], p) /\ Fresh(c)
     \/ Answer(c) /\ Fresh(c)
  /\ UNCHANGED <<rows, files, list>>

WriteAlbum(c) ==
  /\ at[c] \in {"keepAlbum", "writeAlbum"}
  /\ IF id[c] \in LiveAlbums /\ Resolves(par[c]) /\ folder[id[c]] # par[c]
     THEN /\ folder' = [folder EXCEPT ![id[c]] = par[c]]
          /\ Moves(c, {"patchAlbum", "keepAlbum", "dropFolder"}) /\ UNCHANGED crossed
     ELSE UNCHANGED folder /\ Fresh(c)
  /\ Answer(c)
  /\ UNCHANGED <<parent, files, list>>
-----------------------------------------------------------------------------
(* deleteFolder and deleteAlbum: the row, then the files.                  *)

StartDeleteFolder(c, f) ==
  /\ at[c] = "idle" /\ "deleteFolder" \in May[c] /\ f \in LiveFolders
  /\ Goto(c, "subtree", f, None)
  /\ UNCHANGED <<rows, files, list, history>>

\* Mutant of ListSubtree: the files go before the rows.
ListAndRemove(c) ==
  /\ at[c] = "subtree" /\ \A g \in LiveFolders : id[c] \in Chain(g) => Ends(g)
  /\ files' = [a \in Album |-> IF a \in AlbumsBelow(id[c]) /\ files[a] = "stored"
                               THEN "removed" ELSE files[a]]
  /\ Goto(c, "dropFolder", id[c], None) /\ Fresh(c)
  /\ UNCHANGED <<rows, list>>

\* SubtreeAlbumIDs.
ListSubtree(c) ==
  /\ at[c] = "subtree" /\ \A g \in LiveFolders : id[c] \in Chain(g) => Ends(g)
  /\ list' = [list EXCEPT ![c] = AlbumsBelow(id[c])]
  /\ Goto(c, "dropFolder", id[c], None) /\ Fresh(c)
  /\ UNCHANGED <<rows, files>>

\* Mutant of DropFolder: the rows below are left.
DropOne(c) ==
  /\ at[c] = "dropFolder"
  /\ parent' = [parent EXCEPT ![id[c]] = Gone]
  /\ Goto(c, "files", None, None) /\ Fresh(c)
  /\ UNCHANGED <<folder, files, list>>

\* ON DELETE CASCADE.
DropFolder(c) ==
  /\ at[c] = "dropFolder"
  /\ parent' = [g \in Folder |-> IF g \in Below(id[c]) THEN Gone ELSE parent[g]]
  /\ folder' = [a \in Album |-> IF a \in AlbumsBelow(id[c]) THEN Gone ELSE folder[a]]
  /\ Goto(c, "files", None, None)
  /\ stale' = stale \ {c} /\ Crosses(c, "delete")
  /\ UNCHANGED <<files, list>>

StartDeleteAlbum(c, a) ==
  /\ at[c] = "idle" /\ "deleteAlbum" \in May[c] /\ a \in LiveAlbums
  /\ Goto(c, "dropAlbum", a, None)
  /\ UNCHANGED <<rows, files, list, history>>

DropAlbum(c) ==
  /\ at[c] = "dropAlbum"
  /\ folder' = [folder EXCEPT ![id[c]] = Gone]
  /\ list' = [list EXCEPT ![c] = {id[c]}]
  /\ Goto(c, "files", None, None)
  /\ UNCHANGED <<parent, files, history>>

\* RemoveAlbum for one album of the list; a failure is only logged.
RemoveFiles(c, a) ==
  /\ at[c] = "files" /\ a \in list[c]
  /\ files' \in {files, [files EXCEPT ![a] = IF @ = "stored" THEN "removed" ELSE @]}
  /\ list' = [list EXCEPT ![c] = @ \ {a}]
  /\ UNCHANGED <<rows, at, id, par, history>>

FilesRemoved(c) ==
  /\ at[c] = "files" /\ list[c] = {}
  /\ Answer(c)
  /\ UNCHANGED <<rows, files, list, history>>

\* Any statement may fail: 500, and what was not done stays undone.
Fail(c) ==
  /\ at[c] \notin {"idle", "files"}
  /\ Answer(c) /\ Fresh(c)
  /\ UNCHANGED <<rows, files, list>>

\* An upload into an album (see PhotoLibrary).
Upload(a) ==
  /\ a \in LiveAlbums /\ files[a] = "none"
  /\ files' = [files EXCEPT ![a] = "stored"]
  /\ UNCHANGED <<rows, at, id, par, list, history>>

Handler(c) ==
  \/ \E kind \in Kind : StartCreate(c, kind)
  \/ InsertFolder(c) \/ InsertAlbum(c)
  \/ PatchFolder(c) \/ CheckChain(c) \/ WriteFolder(c)
  \/ PatchAlbum(c) \/ WriteAlbum(c)
  \/ ListSubtree(c) \/ DropFolder(c) \/ DropAlbum(c) \/ FilesRemoved(c)
  \/ Fail(c)
  \/ \E f \in Folder : LoadFolder(c, f) \/ StartDeleteFolder(c, f)
  \/ \E a \in Album : LoadAlbum(c, a) \/ StartDeleteAlbum(c, a) \/ RemoveFiles(c, a)

Next == \/ \E c \in Client : Handler(c)
        \/ \E a \in Album : Upload(a)

Spec == Init /\ [][Next]_vars
-----------------------------------------------------------------------------
\* Types, and the schema's foreign keys.
TypeOK ==
  /\ \A f \in Folder : parent[f] \in {Unborn, Gone, Root} \cup LiveFolders
  /\ \A a \in Album : folder[a] \in {Unborn, Gone, Root} \cup LiveFolders
  /\ files \in [Album -> {"none", "stored", "removed"}]
  /\ at \in [Client -> {"idle", "createFolder", "createAlbum", "patchFolder", "chain",
                        "keepFolder", "writeFolder", "patchAlbum", "keepAlbum", "writeAlbum",
                        "subtree", "dropFolder", "dropAlbum", "files"}]
  /\ id \in [Client -> Folder \cup Album \cup {None}]
  /\ par \in [Client -> Folder \cup {Root, None}]
  /\ list \in [Client -> SUBSET Album]
  /\ stale \subseteq Client /\ crossed \subseteq {"move", "delete"}

\* No folder is below itself: the breadcrumb, the listings and the search, which
\* walk the tree with recursive queries, come to an end.
Acyclic == \A f \in LiveFolders : f \notin Chain(parent[f])

\* That is so however creations, deletions, renames and moves interleave, unless a
\* folder has been moved by an update that had checked, or loaded the parent it
\* keeps, before another one moved a folder (updateFolder, publish_folders.go:120-167).
StaysATree == "move" \notin crossed => Acyclic

\* Deleting a folder or an album takes no files of an album that still exists.
LivingKeepFiles == \A a \in LiveAlbums : files[a] # "removed"

\* That is so however requests interleave, unless a folder was deleted by a request
\* that had listed its albums before a folder or an album was moved (deleteFolder,
\* publish_folders.go:174-188).
LiveAlbumsKeepFiles == "delete" \notin crossed => LivingKeepFiles

\* Nothing moves unasked: an update that names no parent writes back the one it has
\* loaded, and the row stays where it is, unless another row has been moved since
\* (publish_folders.go:162, publish_albums.go:242).
KeepsItsPlace ==
  [][\A c \in Client \ stale :
       at[c] \in {"keepFolder", "keepAlbum"} /\ at'[c] # at[c] => UNCHANGED rows]_vars
=============================================================================
