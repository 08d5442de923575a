--------------------------- MODULE FolderTreeProofs ---------------------------
(***************************************************************************)
(* The tree of folders and albums, for any number of folders, albums and   *)
(* clients: foreign keys hold; the tree has no cycle unless a folder was   *)
(* moved on what had been read before another move; no living album loses  *)
(* its files unless a folder was deleted on such a reading; and what is    *)
(* only renamed stays where it is.                                         *)
(***************************************************************************)
EXTENDS FolderTree, TLAPS

-----------------------------------------------------------------------------
(* What is above a folder.                                                 *)

ChainIs ==
  /\ \A p : Chain(p) \subseteq LiveFolders /\ Upward(Chain(p)) /\ {p} \cap LiveFolders \subseteq Chain(p)
  /\ \A p : \A S \in SUBSET LiveFolders :
       {p} \cap LiveFolders \subseteq S /\ Upward(S) => Chain(p) \subseteq S

LEMMA ChainFacts == ChainIs
<1>1. ASSUME NEW p PROVE Chain(p) \subseteq LiveFolders /\ {p} \cap LiveFolders \subseteq Chain(p)
  BY DEF Chain
<1>2. ASSUME NEW p, NEW f \in Chain(p), parent[f] \in LiveFolders PROVE parent[f] \in Chain(p)
  <2> SUFFICES ASSUME NEW S \in SUBSET LiveFolders, {p} \cap LiveFolders \subseteq S, Upward(S)
               PROVE  parent[f] \in S
    BY <1>2 DEF Chain
  <2>1. f \in S
    BY DEF Chain
  <2> QED
    BY <1>2, <2>1 DEF Upward
<1>3. ASSUME NEW p, NEW S \in SUBSET LiveFolders, {p} \cap LiveFolders \subseteq S, Upward(S)
      PROVE  Chain(p) \subseteq S
  BY <1>3 DEF Chain
<1> QED
  BY <1>1, <1>2, <1>3 DEF ChainIs, Upward

\* What is above a folder on the way up is on the way up.
LEMMA ChainWithin ==
  ASSUME NEW p, NEW g \in Chain(p)
  PROVE  Chain(g) \subseteq Chain(p)
BY ChainFacts DEF ChainIs

\* The way up from a folder goes through the one it is in.
LEMMA ChainStep ==
  ASSUME NEW g \in LiveFolders
  PROVE  /\ Chain(parent[g]) \subseteq Chain(g)
         /\ Chain(g) \subseteq {g} \cup Chain(parent[g])
<1>1. g \in Chain(g)
  BY ChainFacts DEF ChainIs
<1>2. Chain(parent[g]) \subseteq Chain(g)
  <2>1. CASE parent[g] \in LiveFolders
    <3>1. parent[g] \in Chain(g)
      BY <1>1, <2>1, ChainFacts DEF ChainIs, Upward
    <3> QED
      BY <3>1, ChainWithin
  <2>2. CASE parent[g] \notin LiveFolders
    <3>1. {} \in SUBSET LiveFolders /\ Upward({}) /\ {parent[g]} \cap LiveFolders \subseteq {}
      BY <2>2 DEF Upward
    <3>2. Chain(parent[g]) \subseteq {}
      BY <3>1, ChainFacts DEF ChainIs
    <3> QED
      BY <3>2
  <2> QED
    BY <2>1, <2>2
<1>3. Chain(g) \subseteq {g} \cup Chain(parent[g])
  <2> DEFINE S == {g} \cup Chain(parent[g])
  <2>1. S \in SUBSET LiveFolders /\ {g} \cap LiveFolders \subseteq S
    BY ChainFacts DEF ChainIs
  <2>2. Upward(S)
    BY ChainFacts DEF ChainIs, Upward
  <2> HIDE DEF S
  <2>3. Chain(g) \subseteq S
    BY <2>1, <2>2, ChainFacts DEF ChainIs
  <2> QED
    BY <2>3 DEF S
<1> QED
  BY <1>2, <1>3

LEMMA NothingAbove ==
  ASSUME NEW p, p \notin LiveFolders
  PROVE  Chain(p) = {}
<1>1. {} \in SUBSET LiveFolders /\ Upward({}) /\ {p} \cap LiveFolders \subseteq {}
  BY DEF Upward
<1> QED
  BY <1>1, ChainFacts DEF ChainIs

\* A step that leaves every folder on the way up where it is changes no way up.
LEMMA ChainKept ==
  ASSUME NEW g \in LiveFolders,
         \A f \in Chain(g) : f \in LiveFolders' /\ parent'[f] = parent[f],
         \A f \in Chain(g) : parent[f] \in LiveFolders' => parent[f] \in LiveFolders
  PROVE  Chain(g)' = Chain(g)
<1>0. ChainIs' /\ ChainIs
  BY ChainFacts, PTL
<1>1. Chain(g)' \subseteq Chain(g)
  <2>1. /\ Chain(g) \in SUBSET LiveFolders' /\ {g} \cap LiveFolders' \subseteq Chain(g)
        /\ \A f \in Chain(g) : parent'[f] \in LiveFolders' => parent'[f] \in Chain(g)
    BY <1>0 DEF ChainIs, Upward
  <2> QED
    BY <2>1 DEF Chain, Upward
<1>2. Chain(g) \subseteq Chain(g)'
  <2> DEFINE S == {f \in Chain(g) : f \in Chain(g)'}
  <2>1. S \in SUBSET LiveFolders /\ {g} \cap LiveFolders \subseteq S
    BY <1>0 DEF ChainIs
  <2>2. Upward(S)
    BY <1>0 DEF ChainIs, Upward
  <2> HIDE DEF S
  <2>3. Chain(g) \subseteq S
    BY <1>0, <2>1, <2>2 DEF ChainIs
  <2> QED
    BY <2>3 DEF S
<1> QED
  BY <1>1, <1>2

-----------------------------------------------------------------------------
(* Types, and the foreign keys.                                            *)

Nobody == {Unborn, Gone, Root}
Stages == {"idle", "createFolder", "createAlbum", "patchFolder", "chain", "keepFolder", "writeFolder",
           "patchAlbum", "keepAlbum", "writeAlbum", "subtree", "dropFolder", "dropAlbum", "files"}

RowsOK ==
  /\ parent \in [Folder -> Nobody \cup Folder]
  /\ \A f \in Folder : parent[f] \in Nobody \cup LiveFolders
  /\ folder \in [Album -> Nobody \cup Folder]
  /\ \A a \in Album : folder[a] \in Nobody \cup LiveFolders

RequestsOK ==
  /\ at \in [Client -> Stages]
  /\ id \in [Client -> Folder \cup Album \cup {None}]
  /\ par \in [Client -> Folder \cup {Root, None}]
  /\ list \in [Client -> SUBSET Album]
  /\ \A c \in Client :
       /\ at[c] \in {"patchFolder", "chain", "keepFolder", "writeFolder", "subtree", "dropFolder"} =>
            id[c] \in Folder
       /\ at[c] \in {"patchAlbum", "keepAlbum", "writeAlbum", "dropAlbum"} => id[c] \in Album
  /\ stale \subseteq Client /\ crossed \subseteq {"move", "delete"}

TypeInv == RowsOK /\ RequestsOK /\ files \in [Album -> {"none", "stored", "removed"}]

LEMMA TypeHolds == TypeInv => TypeOK
BY DEF TypeInv, RowsOK, RequestsOK, TypeOK, Nobody, Stages

LEMMA Ids ==
  /\ \A f \in Folder : f \notin Nobody /\ f # None
  /\ \A a \in Album : a \notin Nobody /\ a # None
  /\ Root \notin LiveFolders /\ Root \notin {Unborn, Gone} /\ Unborn # Gone /\ None \notin LiveFolders
  /\ LiveFolders \subseteq Folder /\ LiveAlbums \subseteq Album
BY TreeAssumption DEF Nobody, LiveFolders, LiveAlbums

LEMMA InitType == Init => TypeInv
BY DEF Init, TypeInv, RowsOK, RequestsOK, Nobody, Stages

\* Rows that are put under a live folder or the root keep the keys.
LEMMA Put ==
  ASSUME RowsOK, NEW p, Resolves(p)
  PROVE  /\ \A f \in Folder : parent' = [parent EXCEPT ![f] = p] /\ folder' = folder => RowsOK'
         /\ \A a \in Album : folder' = [folder EXCEPT ![a] = p] /\ parent' = parent => RowsOK'
<1>1. p \in Nobody \cup LiveFolders /\ p \in Nobody \cup Folder /\ p \notin {Unborn, Gone}
  BY Ids DEF Resolves, Nobody
<1>2. ASSUME NEW f \in Folder, parent' = [parent EXCEPT ![f] = p], folder' = folder
      PROVE  RowsOK'
  <2>1. LiveFolders' = LiveFolders \cup {f}
    BY <1>1, <1>2 DEF LiveFolders, RowsOK
  <2> QED
    BY <1>1, <1>2, <2>1 DEF RowsOK
<1>3. ASSUME NEW a \in Album, folder' = [folder EXCEPT ![a] = p], parent' = parent
      PROVE  RowsOK'
  <2>1. LiveFolders' = LiveFolders
    BY <1>3 DEF LiveFolders
  <2> QED
    BY <1>1, <1>3, <2>1 DEF RowsOK
<1> QED
  BY <1>2, <1>3

\* The cascade leaves no row under a row that has gone.
LEMMA Cascade ==
  ASSUME RowsOK, NEW x \in Folder,
         parent' = [g \in Folder |-> IF g \in Below(x) THEN Gone ELSE parent[g]],
         folder' = [a \in Album |-> IF a \in AlbumsBelow(x) THEN Gone ELSE folder[a]]
  PROVE  /\ RowsOK'
         /\ LiveFolders' = LiveFolders \ Below(x) /\ LiveAlbums' = LiveAlbums \ AlbumsBelow(x)
         /\ \A g \in LiveFolders' : Chain(g)' = Chain(g)
<1>1. LiveFolders' = LiveFolders \ Below(x) /\ LiveAlbums' = LiveAlbums \ AlbumsBelow(x)
  BY DEF LiveFolders, LiveAlbums, RowsOK
<1>2. ASSUME NEW g \in LiveFolders', parent[g] \in LiveFolders PROVE parent[g] \in LiveFolders'
  <2>1. g \in LiveFolders /\ x \notin Chain(g)
    BY <1>1 DEF Below
  <2>2. x \notin Chain(parent[g])
    BY <2>1, ChainStep
  <2> QED
    BY <1>1, <1>2, <2>2 DEF Below
<1>3. ASSUME NEW a \in Album, folder[a] \in LiveFolders, a \notin AlbumsBelow(x)
      PROVE  folder[a] \in LiveFolders'
  <2>1. a \in LiveAlbums
    BY <1>3, Ids DEF LiveAlbums, Nobody
  <2> QED
    BY <1>1, <1>3, <2>1 DEF AlbumsBelow
<1>4. RowsOK'
  <2>1. ASSUME NEW f \in Folder PROVE parent'[f] \in Nobody \cup LiveFolders'
    <3>1. CASE f \in Below(x)
      BY <3>1 DEF Nobody
    <3>2. CASE f \notin Below(x)
      <4>1. parent'[f] = parent[f] /\ parent[f] \in Nobody \cup LiveFolders
        BY <3>2 DEF RowsOK
      <4>2. parent[f] \in LiveFolders => f \in LiveFolders'
        BY <1>1, <3>2, Ids DEF LiveFolders, Nobody
      <4> QED
        BY <1>2, <4>1, <4>2
    <3> QED
      BY <3>1, <3>2
  <2>2. ASSUME NEW a \in Album PROVE folder'[a] \in Nobody \cup LiveFolders'
    <3>1. CASE a \in AlbumsBelow(x)
      BY <3>1 DEF Nobody
    <3>2. CASE a \notin AlbumsBelow(x)
      <4>1. folder'[a] = folder[a] /\ folder[a] \in Nobody \cup LiveFolders
        BY <3>2 DEF RowsOK
      <4> QED
        BY <1>3, <3>2, <4>1
    <3> QED
      BY <3>1, <3>2
  <2>3. parent' \in [Folder -> Nobody \cup Folder] /\ folder' \in [Album -> Nobody \cup Folder]
    BY DEF RowsOK, Nobody
  <2> QED
    BY <2>1, <2>2, <2>3 DEF RowsOK
<1>5. ASSUME NEW g \in LiveFolders' PROVE Chain(g)' = Chain(g)
  <2>1. g \in LiveFolders /\ x \notin Chain(g)
    BY <1>1 DEF Below
  <2>2. ASSUME NEW f \in Chain(g) PROVE f \in LiveFolders' /\ parent'[f] = parent[f]
    <3>1. f \in LiveFolders /\ x \notin Chain(f) /\ f \in Folder
      BY <2>1, <2>2, ChainWithin, ChainFacts, Ids DEF ChainIs
    <3> QED
      BY <1>1, <3>1 DEF Below
  <2>3. LiveFolders' \subseteq LiveFolders
    BY <1>1
  <2> QED
    BY <2>1, <2>2, <2>3, ChainKept
<1> QED
  BY <1>1, <1>4, <1>5

\* What a handler's bookkeeping leaves of the types.
LEMMA GotoType ==
  ASSUME RequestsOK, NEW c \in Client, NEW s \in Stages, NEW i \in Folder \cup Album \cup {None},
         NEW p \in Folder \cup {Root, None}, Goto(c, s, i, p),
         s \in {"patchFolder", "chain", "keepFolder", "writeFolder", "subtree", "dropFolder"} => i \in Folder,
         s \in {"patchAlbum", "keepAlbum", "writeAlbum", "dropAlbum"} => i \in Album,
         list' \in [Client -> SUBSET Album],
         history' = history \/ Fresh(c) \/ \E S : Moves(c, S),
         crossed' = crossed \/ \E k \in {"move", "delete"} : Crosses(c, k)
  PROVE  RequestsOK'
<1>1. stale' \subseteq Client /\ crossed' \subseteq {"move", "delete"}
  BY DEF RequestsOK, Fresh, Moves, Crosses, history
<1> QED
  BY <1>1 DEF RequestsOK, Goto

LEMMA StepType == TypeInv /\ [Next]_vars => TypeInv'
<1> SUFFICES ASSUME TypeInv, [Next]_vars PROVE TypeInv'
  OBVIOUS
<1>0. RowsOK /\ RequestsOK
  BY DEF TypeInv
<1>1. ASSUME UNCHANGED rows PROVE RowsOK'
  <2>1. LiveFolders' = LiveFolders
    BY <1>1 DEF rows, LiveFolders
  <2> QED
    BY <1>0, <1>1, <2>1 DEF RowsOK, rows
<1>2. CASE UNCHANGED vars
  BY <1>0, <1>1, <1>2 DEF vars, rows, history, TypeInv, RequestsOK
<1>3. ASSUME NEW a \in Album, Upload(a) PROVE TypeInv'
  BY <1>0, <1>1, <1>3 DEF Upload, TypeInv, RequestsOK, history
<1>4. ASSUME NEW c \in Client, Handler(c) PROVE TypeInv'
  <2> DEFINE Files == files' \in [Album -> {"none", "stored", "removed"}]
  <2>0. /\ history' = history => stale' = stale /\ crossed' = crossed
        /\ Fresh(c) => crossed' = crossed
        /\ list \in [Client -> SUBSET Album] /\ (files' = files => Files)
    BY <1>0 DEF history, Fresh, RequestsOK, TypeInv
  <2>a. ASSUME Answer(c), list' = list,
               history' = history \/ Fresh(c) \/ \E S : Moves(c, S),
               crossed' = crossed \/ \E k \in {"move", "delete"} : Crosses(c, k)
        PROVE  RequestsOK'
    <3>1. "idle" \in Stages /\ None \in Folder \cup Album \cup {None} /\ None \in Folder \cup {Root, None}
      BY DEF Stages
    <3> QED
      BY <1>0, <2>0, <2>a, <3>1, GotoType DEF Answer
  <2>1. ASSUME NEW kind \in Kind, StartCreate(c, kind) PROVE TypeInv'
    <3>1. PICK p \in Folder \cup {Root} : Goto(c, kind, None, p)
      BY <2>1 DEF StartCreate
    <3>2. RequestsOK'
      BY <1>0, <2>0, <2>1, <3>1, GotoType DEF StartCreate, Stages
    <3> QED
      BY <1>1, <2>0, <2>1, <3>2 DEF StartCreate, TypeInv
  <2>2. CASE InsertFolder(c)
    <3>1. RowsOK'
      BY <1>0, <1>1, <2>2, Put DEF InsertFolder, rows
    <3> QED
      BY <2>0, <2>a, <2>2, <3>1 DEF InsertFolder, TypeInv
  <2>3. CASE InsertAlbum(c)
    <3>1. RowsOK'
      BY <1>0, <1>1, <2>3, Put DEF InsertAlbum, rows
    <3> QED
      BY <2>0, <2>a, <2>3, <3>1 DEF InsertAlbum, TypeInv
  <2>4. CASE FilesRemoved(c) \/ Fail(c)
    BY <1>1, <2>0, <2>a, <2>4 DEF FilesRemoved, Fail, TypeInv
  <2>5. CASE WriteFolder(c)
    <3>1. RowsOK'
      BY <1>0, <1>1, <2>5, Put DEF WriteFolder, rows, RequestsOK
    <3>2. RequestsOK'
      BY <2>0, <2>a, <2>5 DEF WriteFolder
    <3> QED
      BY <2>0, <2>5, <3>1, <3>2 DEF WriteFolder, TypeInv
  <2>6. CASE WriteAlbum(c)
    <3>1. RowsOK'
      BY <1>0, <1>1, <2>6, Put DEF WriteAlbum, rows, RequestsOK
    <3>2. RequestsOK'
      BY <2>0, <2>a, <2>6 DEF WriteAlbum
    <3> QED
      BY <2>0, <2>6, <3>1, <3>2 DEF WriteAlbum, TypeInv
  <2>7. CASE ListSubtree(c)
    <3>1. id[c] \in Folder /\ list' \in [Client -> SUBSET Album]
      BY <1>0, <2>7, Ids DEF ListSubtree, AlbumsBelow, RequestsOK
    <3>2. RequestsOK'
      BY <1>0, <2>0, <2>7, <3>1, GotoType DEF ListSubtree, Stages
    <3> QED
      BY <1>1, <2>0, <2>7, <3>2 DEF ListSubtree, TypeInv
  <2>8. CASE DropFolder(c)
    <3>1. RowsOK'
      BY <1>0, <2>8, Cascade DEF DropFolder, RequestsOK
    <3>2. stale' \subseteq Client /\ crossed' \subseteq {"move", "delete"}
      BY <1>0, <2>8 DEF DropFolder, Crosses, RequestsOK
    <3>3. RequestsOK'
      BY <1>0, <2>8, <3>2 DEF DropFolder, Goto, RequestsOK, Stages
    <3> QED
      BY <2>0, <2>8, <3>1, <3>3 DEF DropFolder, TypeInv
  <2>9. CASE DropAlbum(c)
    <3>1. id[c] \in Album
      BY <1>0, <2>9 DEF DropAlbum, RequestsOK
    <3>2. RowsOK'
      BY <1>0, <2>9, <3>1 DEF DropAlbum, RowsOK, LiveFolders, Nobody
    <3>3. RequestsOK'
      BY <1>0, <2>0, <2>9, <3>1, GotoType DEF DropAlbum, RequestsOK, Stages
    <3> QED
      BY <2>0, <2>9, <3>2, <3>3 DEF DropAlbum, TypeInv
  <2>10. ASSUME NEW f \in Folder, LoadFolder(c, f) \/ StartDeleteFolder(c, f) PROVE TypeInv'
    <3>1. parent[f] \in Folder \cup {Root, None}
      BY <1>0, <2>10 DEF LoadFolder, StartDeleteFolder, RowsOK, LiveFolders, Nobody
    <3>2. RequestsOK'
      BY <1>0, <2>0, <2>10, <3>1, GotoType DEF LoadFolder, StartDeleteFolder, Stages
    <3> QED
      BY <1>1, <2>0, <2>10, <3>2 DEF LoadFolder, StartDeleteFolder, TypeInv
  <2>11. ASSUME NEW a \in Album, LoadAlbum(c, a) \/ StartDeleteAlbum(c, a) PROVE TypeInv'
    <3>1. folder[a] \in Folder \cup {Root, None}
      BY <1>0, <2>11 DEF LoadAlbum, StartDeleteAlbum, RowsOK, LiveAlbums, LiveFolders, Nobody
    <3>2. RequestsOK'
      BY <1>0, <2>0, <2>11, <3>1, GotoType DEF LoadAlbum, StartDeleteAlbum, Stages
    <3> QED
      BY <1>1, <2>0, <2>11, <3>2 DEF LoadAlbum, StartDeleteAlbum, TypeInv
  <2>12. ASSUME NEW a \in Album, RemoveFiles(c, a) PROVE TypeInv'
    BY <1>0, <1>1, <2>12 DEF RemoveFiles, TypeInv, RequestsOK, history
  <2>13. CASE PatchFolder(c) \/ CheckChain(c)
    <3>1. id[c] \in Folder /\ par[c] \in Folder \cup {Root, None} /\ Root \in Folder \cup {Root, None}
      BY <1>0, <2>13 DEF PatchFolder, CheckChain, RequestsOK
    <3>2. \/ Answer(c)
          \/ \E s \in {"keepFolder", "chain", "writeFolder"}, p \in Folder \cup {Root, None} : Goto(c, s, id[c], p)
      BY <2>13, <3>1, Ids DEF PatchFolder, CheckChain
    <3>3. /\ list' = list /\ rows' = rows /\ files' = files
          /\ history' = history \/ Fresh(c)
      BY <2>13 DEF PatchFolder, CheckChain
    <3>4. RequestsOK'
      BY <1>0, <2>0, <2>a, <3>1, <3>2, <3>3, GotoType DEF Stages
    <3> QED
      BY <1>1, <2>0, <3>3, <3>4 DEF TypeInv
  <2>14. CASE PatchAlbum(c)
    <3>1. id[c] \in Album /\ par[c] \in Folder \cup {Root, None}
      BY <1>0, <2>14 DEF PatchAlbum, RequestsOK
    <3>2. \/ Answer(c)
          \/ \E s \in {"keepAlbum", "writeAlbum"}, p \in Folder \cup {Root, None} : Goto(c, s, id[c], p)
      BY <2>14, <3>1 DEF PatchAlbum
    <3>3. /\ list' = list /\ rows' = rows /\ files' = files
          /\ history' = history \/ Fresh(c)
      BY <2>14 DEF PatchAlbum
    <3>4. RequestsOK'
      BY <1>0, <2>0, <2>a, <3>1, <3>2, <3>3, GotoType DEF Stages
    <3> QED
      BY <1>1, <2>0, <3>3, <3>4 DEF TypeInv
  <2> QED
    BY <1>4, <2>1, <2>2, <2>3, <2>4, <2>5, <2>6, <2>7, <2>8, <2>9, <2>10, <2>11, <2>12, <2>13, <2>14 DEF Handler
<1> QED
  BY <1>2, <1>3, <1>4 DEF Next

LEMMA TypeAlways == Spec => []TypeInv
BY InitType, StepType, PTL DEF Spec

\* Every folder and album is in a folder that exists, or in the root, however the
\* requests of any number of clients interleave (the foreign keys and the
\* cascade of the schema under the handlers of the publish API).
THEOREM TypeCorrect == Spec => []TypeOK
BY TypeAlways, TypeHolds, PTL

-----------------------------------------------------------------------------
(* No cycles.  A client that is not stale moves a folder under one it is    *)
(* not above: nothing has been moved since the check, and what the others  *)
(* create and delete makes no way up longer.                               *)

Moving(c) == at[c] \in {"patchFolder", "keepFolder", "chain", "writeFolder"}

Clear(c) ==
  /\ id[c] \in Folder /\ parent[id[c]] # Unborn
  /\ par[c] \in Folder => parent[par[c]] # Unborn
  /\ at[c] # "chain" /\ c \notin stale => id[c] \notin Chain(par[c])

Sound == Acyclic /\ \A c \in Client : Moving(c) => Clear(c)
MoveInv == "move" \notin crossed => Sound

\* A folder put under one it is not above makes no cycle.
LEMMA MoveAcyclic ==
  ASSUME RowsOK, Acyclic, NEW i \in LiveFolders, NEW p, Resolves(p), i \notin Chain(p),
         parent' = [parent EXCEPT ![i] = p]
  PROVE  Acyclic'
<1>1. LiveFolders' = LiveFolders /\ parent'[i] = p /\ \A f \in LiveFolders : f # i => parent'[f] = parent[f]
  BY Ids DEF RowsOK, LiveFolders, Resolves, Nobody
<1>2. ASSUME NEW q, i \notin Chain(q) PROVE Chain(q)' \subseteq Chain(q)
  <2>1. /\ Chain(q) \in SUBSET LiveFolders' /\ {q} \cap LiveFolders' \subseteq Chain(q)
        /\ \A f \in Chain(q) : parent'[f] \in LiveFolders' => parent'[f] \in Chain(q)
    BY <1>1, <1>2, ChainFacts DEF ChainIs, Upward
  <2> QED
    BY <2>1 DEF Chain, Upward
<1> SUFFICES ASSUME NEW f \in LiveFolders, NEW q, q = parent'[f] PROVE f \notin Chain(q)'
  BY <1>1 DEF Acyclic, Chain, Upward
<1>3. CASE f = i
  BY <1>1, <1>2, <1>3
<1>4. CASE f # i
  <2>1. q = parent[f] /\ f \notin Chain(q)
    BY <1>1, <1>4 DEF Acyclic
  <2>2. CASE i \notin Chain(q)
    BY <1>2, <2>1, <2>2
  <2>3. CASE i \in Chain(q)
    <3> DEFINE S == {g \in Chain(q) : i \in Chain(g)} \cup Chain(p)
    <3>1. S \in SUBSET LiveFolders'
      BY <1>1, ChainFacts DEF ChainIs
    <3>2. {q} \cap LiveFolders' \subseteq S
      BY <1>1, <2>3, ChainFacts DEF ChainIs
    <3>3. ASSUME NEW g \in S, parent'[g] \in LiveFolders' PROVE parent'[g] \in S
      <4>1. CASE g = i
        BY <1>1, <3>3, <4>1, ChainFacts DEF ChainIs
      <4>2. CASE g # i /\ g \in Chain(p)
        BY <1>1, <3>3, <4>2, ChainFacts DEF ChainIs, Upward
      <4>3. CASE g # i /\ g \in Chain(q) /\ i \in Chain(g)
        <5>1. g \in LiveFolders /\ parent'[g] = parent[g] /\ parent[g] \in LiveFolders
          BY <1>1, <3>3, <4>3, ChainFacts DEF ChainIs
        <5>2. parent[g] \in Chain(q)
          BY <4>3, <5>1, ChainFacts DEF ChainIs, Upward
        <5>3. i \in Chain(parent[g])
          BY <4>3, <5>1, ChainStep
        <5> QED
          BY <5>1, <5>2, <5>3
      <4> QED
        BY <4>1, <4>2, <4>3
    <3>4. Chain(q)' \subseteq S
      <4> HIDE DEF S
      <4> QED
        BY <3>1, <3>2, <3>3 DEF Chain, Upward
    <3>5. f \notin Chain(p)
      <4>1. ASSUME f \in Chain(p) PROVE FALSE
        <5>1. Chain(f) \subseteq Chain(p)
          BY <4>1, ChainWithin
        <5>2. Chain(parent[f]) \subseteq Chain(f)
          BY ChainStep
        <5> QED
          BY <2>1, <2>3, <5>1, <5>2
      <4> QED
        BY <4>1
    <3> QED
      BY <2>1, <3>4, <3>5
  <2> QED
    BY <2>2, <2>3
<1> QED
  BY <1>3, <1>4

\* What creates and deletions do to the tree: no way up gets longer, and what
\* existed was not created just now.
Grows ==
  /\ \A q : parent[q] # Unborn \/ q \notin Folder => Chain(q)' \subseteq Chain(q)
  /\ \A f \in Folder : parent[f] # Unborn => parent'[f] # Unborn

LEMMA InsertGrows ==
  ASSUME RowsOK, Acyclic, NEW f \in Folder, parent[f] = Unborn, NEW p, Resolves(p),
         parent' = [parent EXCEPT ![f] = p]
  PROVE  Grows /\ Acyclic'
<1>1. /\ LiveFolders' = LiveFolders \cup {f} /\ f \notin LiveFolders /\ parent'[f] = p
      /\ \A g \in LiveFolders : parent'[g] = parent[g] /\ g # f
      /\ p # f
  BY Ids DEF RowsOK, LiveFolders, Resolves, Nobody
<1>2. \A g \in LiveFolders : parent[g] # f
  BY <1>1, Ids DEF RowsOK, Nobody
<1>3. ASSUME NEW q, q # f PROVE Chain(q)' \subseteq Chain(q)
  <2>1. /\ Chain(q) \in SUBSET LiveFolders' /\ {q} \cap LiveFolders' \subseteq Chain(q)
        /\ \A g \in Chain(q) : parent'[g] \in LiveFolders' => parent'[g] \in Chain(q)
    BY <1>1, <1>2, <1>3, ChainFacts DEF ChainIs, Upward
  <2> QED
    BY <2>1 DEF Chain, Upward
<1>4. ASSUME NEW g \in LiveFolders', NEW q, q = parent'[g] PROVE g \notin Chain(q)'
  <2>1. q # f /\ Chain(q)' \subseteq Chain(q)
    BY <1>1, <1>2, <1>3, <1>4
  <2>2. g \notin Chain(q)
    BY <1>1, <1>4, ChainFacts DEF Acyclic, ChainIs
  <2> QED
    BY <2>1, <2>2
<1>5. Acyclic'
  BY <1>4 DEF Acyclic, Chain, Upward
<1>6. \A g \in Folder : parent[g] # Unborn => parent'[g] # Unborn
  BY <1>1, Ids DEF RowsOK, Resolves
<1> QED
  BY <1>3, <1>5, <1>6 DEF Grows

LEMMA CascadeGrows ==
  ASSUME RowsOK, Acyclic, NEW x \in Folder,
         parent' = [g \in Folder |-> IF g \in Below(x) THEN Gone ELSE parent[g]],
         folder' = [a \in Album |-> IF a \in AlbumsBelow(x) THEN Gone ELSE folder[a]]
  PROVE  Grows /\ Acyclic'
<1>1. /\ LiveFolders' = LiveFolders \ Below(x) /\ RowsOK'
      /\ \A g \in LiveFolders' : Chain(g)' = Chain(g)
  BY Cascade
<1>2. ChainIs' /\ ChainIs
  BY ChainFacts, PTL
<1>3. ASSUME NEW q, q \notin LiveFolders' PROVE Chain(q)' = {}
  <2>1. {} \in SUBSET LiveFolders' /\ {q} \cap LiveFolders' \subseteq {}
    BY <1>3
  <2>2. \A S \in SUBSET LiveFolders' :
          {q} \cap LiveFolders' \subseteq S /\ Upward(S)' => Chain(q)' \subseteq S
    BY <1>2 DEF ChainIs
  <2> QED
    BY <2>1, <2>2 DEF Upward
<1>4. ASSUME NEW q PROVE Chain(q)' \subseteq Chain(q)
  BY <1>1, <1>3
<1>5. ASSUME NEW g \in LiveFolders', NEW q, q = parent'[g] PROVE g \notin Chain(q)'
  <2>1. g \in LiveFolders /\ parent'[g] = parent[g]
    BY <1>1, Ids
  <2> QED
    BY <1>4, <1>5, <2>1 DEF Acyclic
<1>6. Acyclic'
  BY <1>5 DEF Acyclic, Chain, Upward
<1>7. \A f \in Folder : parent[f] # Unborn => parent'[f] # Unborn
  BY TreeAssumption
<1> QED
  BY <1>4, <1>6, <1>7 DEF Grows

LEMMA StillGrows ==
  ASSUME parent' = parent
  PROVE  Grows /\ (Acyclic => Acyclic')
<1>1. LiveFolders' = LiveFolders
  BY DEF LiveFolders
<1>2. \A q : Chain(q)' = Chain(q)
  BY <1>1 DEF Chain, Upward
<1>3. ASSUME Acyclic, NEW g \in LiveFolders', NEW q, q = parent'[g] PROVE g \notin Chain(q)'
  BY <1>1, <1>2, <1>3 DEF Acyclic
<1> QED
  BY <1>2, <1>3 DEF Grows, Acyclic, Chain, Upward

\* A client that goes on as before is still clear.
LEMMA ClearStays ==
  ASSUME \A f \in Folder : parent[f] # Unborn => parent'[f] # Unborn,
         NEW c \in Client, Clear(c), id'[c] = id[c], par'[c] = par[c],
         at'[c] = "chain" \/ c \in stale' \/ (Grows /\ at[c] # "chain" /\ c \notin stale)
  PROVE  Clear(c)'
<1> DEFINE i == id[c]
           p == par[c]
<1>1. i \in Folder /\ parent'[i] # Unborn /\ (p \in Folder => parent'[p] # Unborn)
  BY DEF Clear
<1>2. PICK q : q = p
  OBVIOUS
<1>3. at'[c] # "chain" /\ c \notin stale' => i \notin Chain(q)'
  BY <1>2 DEF Clear, Grows
<1> QED
  BY <1>1, <1>2, <1>3 DEF Clear, Chain, Upward

LEMMA InitMoves == Init => MoveInv
BY Ids, ChainFacts DEF Init, MoveInv, Sound, Acyclic, Moving, LiveFolders

\* Only its own requests move a client, and only they make it fresh again.
LEMMA Others ==
  ASSUME RequestsOK, NEW c \in Client, Handler(c), NEW d \in Client, d # c
  PROVE  /\ at'[d] = at[d] /\ id'[d] = id[d] /\ par'[d] = par[d] /\ list'[d] = list[d]
         /\ d \in stale => d \in stale'
<1>1. Answer(c) \/ (\E s, i, p : Goto(c, s, i, p)) =>
        at'[d] = at[d] /\ id'[d] = id[d] /\ par'[d] = par[d]
  BY DEF RequestsOK, Answer, Goto
<1>2. history' = history \/ Fresh(c) \/ (\E S : Moves(c, S)) => (d \in stale => d \in stale')
  BY DEF history, Fresh, Moves
<1>3. CASE \E kind \in Kind : StartCreate(c, kind)
  BY <1>1, <1>2, <1>3 DEF StartCreate
<1>4. CASE InsertFolder(c) \/ InsertAlbum(c) \/ FilesRemoved(c) \/ Fail(c)
  BY <1>1, <1>2, <1>4 DEF InsertFolder, InsertAlbum, FilesRemoved, Fail
<1>5. CASE WriteFolder(c) \/ WriteAlbum(c)
  BY <1>1, <1>2, <1>5 DEF WriteFolder, WriteAlbum
<1>6. CASE PatchFolder(c) \/ CheckChain(c) \/ PatchAlbum(c)
  BY <1>1, <1>2, <1>6 DEF PatchFolder, CheckChain, PatchAlbum
<1>7. CASE ListSubtree(c) \/ DropFolder(c) \/ DropAlbum(c)
  <2>1. list'[d] = list[d]
    BY <1>7 DEF ListSubtree, DropFolder, DropAlbum, RequestsOK
  <2> QED
    BY <1>1, <1>2, <1>7, <2>1 DEF ListSubtree, DropFolder, DropAlbum
<1>8. CASE \E f \in Folder : LoadFolder(c, f) \/ StartDeleteFolder(c, f)
  BY <1>1, <1>2, <1>8 DEF LoadFolder, StartDeleteFolder
<1>9. CASE \E a \in Album : LoadAlbum(c, a) \/ StartDeleteAlbum(c, a)
  BY <1>1, <1>2, <1>9 DEF LoadAlbum, StartDeleteAlbum
<1>10. CASE \E a \in Album : RemoveFiles(c, a)
  BY <1>2, <1>10 DEF RemoveFiles, RequestsOK
<1> QED
  BY <1>3, <1>4, <1>5, <1>6, <1>7, <1>8, <1>9, <1>10 DEF Handler

\* What has been crossed stays so.
LEMMA CrossedStays == [Next]_vars => crossed \subseteq crossed'
BY DEF Next, vars, history, Handler, StartCreate, InsertFolder, InsertAlbum, PatchFolder, CheckChain,
       WriteFolder, PatchAlbum, WriteAlbum, ListSubtree, DropFolder, DropAlbum, FilesRemoved, Fail, LoadFolder,
       StartDeleteFolder, LoadAlbum, StartDeleteAlbum, RemoveFiles, Upload, Fresh, Crosses

\* A folder really moves.
MovesFolder(c) == WriteFolder(c) /\ parent' # parent

LEMMA FolderMove ==
  ASSUME NEW c \in Client, MovesFolder(c)
  PROVE  /\ id[c] \in LiveFolders /\ Resolves(par[c]) /\ parent' = [parent EXCEPT ![id[c]] = par[c]]
         /\ stale' = (stale \cup {d \in Client :
                       at[d] \in {"patchFolder", "keepFolder", "writeFolder", "dropFolder"}}) \ {c}
         /\ c \in stale => "move" \in crossed'
         /\ Moving(c) /\ at[c] # "chain" /\ folder' = folder /\ parent[id[c]] # par[c]
BY DEF MovesFolder, WriteFolder, Moves, Crosses, Moving

LEMMA TreeMoves ==
  ASSUME TypeInv, Sound, [Next]_vars, "move" \notin crossed'
  PROVE  /\ Acyclic'
         /\ \A f \in Folder : parent[f] # Unborn => parent'[f] # Unborn
         /\ Grows \/ \E c \in Client : MovesFolder(c)
<1>0. RowsOK /\ RequestsOK /\ Acyclic
  BY DEF TypeInv, Sound
<1>1. CASE parent' = parent
  BY <1>0, <1>1, StillGrows
<1>2. ASSUME NEW c \in Client, InsertFolder(c) PROVE Grows /\ Acyclic'
  BY <1>0, <1>2, InsertGrows, StillGrows DEF InsertFolder
<1>3. ASSUME NEW c \in Client, DropFolder(c) PROVE Grows /\ Acyclic'
  BY <1>0, <1>3, CascadeGrows DEF DropFolder, RequestsOK
<1>4. ASSUME NEW c \in Client, MovesFolder(c)
      PROVE  Acyclic' /\ \A f \in Folder : parent[f] # Unborn => parent'[f] # Unborn
  <2>1. /\ id[c] \in LiveFolders /\ Resolves(par[c]) /\ parent' = [parent EXCEPT ![id[c]] = par[c]]
        /\ c \notin stale /\ Moving(c) /\ at[c] # "chain"
    BY <1>4, FolderMove
  <2>2. id[c] \notin Chain(par[c])
    BY <2>1 DEF Sound, Clear
  <2>3. Acyclic'
    BY <1>0, <2>1, <2>2, MoveAcyclic
  <2>4. par[c] # Unborn
    BY <2>1, Ids DEF Resolves, Nobody
  <2> QED
    BY <1>0, <2>1, <2>3, <2>4 DEF RowsOK
<1>5. parent' = parent \/ \E c \in Client : InsertFolder(c) \/ DropFolder(c) \/ MovesFolder(c)
  BY DEF MovesFolder, Next, vars, rows, Upload, Handler, StartCreate, InsertAlbum, PatchFolder, CheckChain,
         PatchAlbum, WriteAlbum, ListSubtree, DropAlbum, FilesRemoved, Fail, LoadFolder,
         StartDeleteFolder, LoadAlbum, StartDeleteAlbum, RemoveFiles
<1> QED
  BY <1>1, <1>2, <1>3, <1>4, <1>5 DEF Grows

\* What lets a request come to the steps that move a folder.
LEMMA BeginsClear ==
  ASSUME TypeInv, Sound, parent' = parent, NEW c \in Client, Moving(c)',
         \/ PatchFolder(c) \/ CheckChain(c)
         \/ \E f \in Folder : LoadFolder(c, f)
  PROVE  Clear(c)'
<1>0. RowsOK /\ RequestsOK /\ Acyclic
  BY DEF TypeInv, Sound
<1> SUFFICES ASSUME NEW i, i = id'[c], NEW p, p = par'[c]
             PROVE  /\ i \in Folder /\ parent[i] # Unborn
                    /\ p \in Folder => parent[p] # Unborn
                    /\ at'[c] # "chain" /\ c \notin stale' => i \notin Chain(p)
  BY DEF Clear, Chain, LiveFolders, Upward
<1>1. ASSUME NEW f \in Folder, LoadFolder(c, f)
      PROVE  /\ i \in Folder /\ parent[i] # Unborn
             /\ p \in Folder => parent[p] # Unborn
             /\ i \notin Chain(p)
  <2>1. i = f /\ p = parent[f] /\ f \in LiveFolders
    BY <1>0, <1>1 DEF LoadFolder, Goto, RequestsOK
  <2>2. f \in Folder /\ parent[f] # Unborn
    BY <2>1 DEF LiveFolders
  <2>3. p \in Folder => p \in LiveFolders
    BY <1>0, <2>1, Ids DEF RowsOK
  <2> QED
    BY <1>0, <2>1, <2>2, <2>3 DEF Acyclic, LiveFolders
<1>2. CASE CheckChain(c)
  <2>1. Clear(c) /\ at[c] = "chain"
    BY <1>2 DEF CheckChain, Sound, Moving
  <2>2. i = id[c] /\ p = par[c] /\ id[c] \notin Chain(par[c])
    BY <1>0, <1>2 DEF CheckChain, Goto, Answer, Moving, RequestsOK
  <2> QED
    BY <2>1, <2>2 DEF Clear
<1>3. CASE PatchFolder(c)
  <2>1. Clear(c) /\ at[c] = "patchFolder" /\ at'[c] # "idle"
    BY <1>3 DEF PatchFolder, Sound, Moving
  <2>2. \/ Goto(c, "keepFolder", id[c], par[c]) /\ history' = history
        \/ \E q \in LiveFolders \ {id[c]} : Goto(c, "chain", id[c], q)
        \/ Goto(c, "writeFolder", id[c], Root)
    BY <1>0, <1>3, <2>1 DEF PatchFolder, Answer, Goto, RequestsOK
  <2>3. /\ i = id[c]
        /\ (p = par[c] /\ stale' = stale) \/ (p \in LiveFolders /\ at'[c] = "chain") \/ p = Root
    BY <1>0, <2>2 DEF Goto, RequestsOK, history
  <2>4. Chain(Root) = {} /\ Root \notin Folder
    BY NothingAbove, Ids, TreeAssumption
  <2> QED
    BY <2>1, <2>3, <2>4 DEF Clear, LiveFolders
<1> QED
  BY <1>1, <1>2, <1>3

LEMMA StepMoves ==
  ASSUME TypeInv, MoveInv, [Next]_vars
  PROVE  MoveInv'
<1> SUFFICES ASSUME "move" \notin crossed' PROVE Sound'
  BY DEF MoveInv
<1>0. RowsOK /\ RequestsOK /\ Sound
  BY CrossedStays DEF TypeInv, MoveInv
<1> SUFFICES ASSUME NEW d \in Client, Moving(d)' PROVE Clear(d)'
  BY <1>0, TreeMoves DEF Sound
<1>1. ASSUME at'[d] = at[d], id'[d] = id[d], par'[d] = par[d], d \in stale => d \in stale'
      PROVE  Clear(d)'
  <2>1. Moving(d) /\ Clear(d)
    BY <1>0, <1>1 DEF Moving, Sound
  <2>2. CASE Grows
    BY <1>0, <1>1, <2>1, <2>2, TreeMoves, ClearStays
  <2>3. ASSUME NEW c \in Client, MovesFolder(c) PROVE Clear(d)'
    <3>1. c # d
      BY <1>0, <1>1, <2>1, <2>3 DEF MovesFolder, WriteFolder, Answer, Goto, RequestsOK, Moving
    <3>2. at'[d] = "chain" \/ d \in stale'
      BY <1>1, <2>1, <2>3, <3>1, FolderMove DEF Moving
    <3> QED
      BY <1>0, <1>1, <2>1, <3>2, TreeMoves, ClearStays
  <2> QED
    BY <1>0, <2>2, <2>3, TreeMoves
<1>2. CASE UNCHANGED vars
  BY <1>1, <1>2 DEF vars, history
<1>3. CASE \E a \in Album : Upload(a)
  BY <1>1, <1>3 DEF Upload, history
<1>4. ASSUME NEW c \in Client, c # d, Handler(c) PROVE Clear(d)'
  BY <1>0, <1>1, <1>4, Others
<1>5. ASSUME Handler(d) PROVE Clear(d)'
  <2>1. CASE \/ PatchFolder(d) \/ CheckChain(d)
             \/ \E f \in Folder : LoadFolder(d, f)
    <3>1. parent' = parent
      BY <2>1 DEF PatchFolder, CheckChain, LoadFolder, rows
    <3> QED
      BY <1>0, <2>1, <3>1, BeginsClear
  <2>2. ASSUME NEW s \in Stages \ {"patchFolder", "keepFolder", "chain", "writeFolder"}, NEW i, NEW p,
               Goto(d, s, i, p)
        PROVE  FALSE
    BY <1>0, <2>2 DEF Goto, RequestsOK, Moving
  <2>3. ASSUME NEW a \in Album, RemoveFiles(d, a) PROVE FALSE
    BY <2>3 DEF RemoveFiles, Moving
  <2>4. ~Answer(d)
    BY <2>2 DEF Answer, Stages
  <2>5. ~\E kind \in Kind : StartCreate(d, kind)
    BY <2>2 DEF StartCreate, Stages
  <2>6. ~InsertFolder(d) /\ ~InsertAlbum(d) /\ ~WriteFolder(d) /\ ~WriteAlbum(d) /\ ~FilesRemoved(d) /\ ~Fail(d)
    BY <2>4 DEF InsertFolder, InsertAlbum, WriteFolder, WriteAlbum, FilesRemoved, Fail
  <2>7. ~PatchAlbum(d) /\ ~ListSubtree(d) /\ ~DropFolder(d) /\ ~DropAlbum(d)
    BY <2>2, <2>4 DEF PatchAlbum, ListSubtree, DropFolder, DropAlbum, Stages
  <2>8. /\ \A f \in Folder : ~StartDeleteFolder(d, f)
        /\ \A a \in Album : ~LoadAlbum(d, a) /\ ~StartDeleteAlbum(d, a)
    BY <2>2 DEF StartDeleteFolder, LoadAlbum, StartDeleteAlbum, Stages
  <2> QED
    BY <1>5, <2>1, <2>3, <2>5, <2>6, <2>7, <2>8 DEF Handler
<1> QED
  BY <1>2, <1>3, <1>4, <1>5 DEF Next

\* Folders form no cycle, however the requests of any number of clients interleave,
\* unless one of them moves a folder on what it had read before another one moved a
\* folder: only there the check of the way up and the write of the parent miss a
\* transaction (updateFolder).
THEOREM NoCycles == Spec => []StaysATree
<1>1. Init => TypeInv /\ MoveInv
  BY InitType, InitMoves
<1>2. TypeInv /\ MoveInv /\ [Next]_vars => TypeInv' /\ MoveInv'
  BY StepType, StepMoves
<1>3. MoveInv => StaysATree
  BY DEF MoveInv, Sound, StaysATree
<1> QED
  BY <1>1, <1>2, <1>3, PTL DEF Spec

-----------------------------------------------------------------------------
(* Files.  What a client that is not stale has listed as below a folder is *)
(* still there, or has gone, when the cascade comes.                       *)

Lists(c) ==
  /\ at[c] = "dropFolder" /\ c \notin stale =>
       \A a \in list[c] : folder[a] = Gone \/ a \in AlbumsBelow(id[c])
  /\ at[c] = "files" => \A a \in list[c] : folder[a] = Gone

OnlyGone == (\A a \in Album : files[a] = "removed" => folder[a] = Gone) /\ \A c \in Client : Lists(c)
ListInv == "delete" \notin crossed => OnlyGone

\* An album really moves.
MovesAlbum(c) == WriteAlbum(c) /\ folder' # folder

LEMMA GoneStays ==
  ASSUME TypeInv, [Next]_vars, NEW a \in Album, folder[a] = Gone
  PROVE  folder'[a] = Gone
<1>0. a \notin LiveAlbums /\ folder[a] # Unborn
  BY Ids DEF LiveAlbums
<1>1. ASSUME NEW c \in Client, InsertAlbum(c) \/ WriteAlbum(c) \/ DropAlbum(c) \/ DropFolder(c)
      PROVE  folder'[a] = Gone
  BY <1>0, <1>1 DEF InsertAlbum, WriteAlbum, DropAlbum, DropFolder, TypeInv, RowsOK
<1>2. folder' = folder \/ \E c \in Client : InsertAlbum(c) \/ WriteAlbum(c) \/ DropAlbum(c) \/ DropFolder(c)
  BY DEF Next, vars, rows, Upload, Handler, StartCreate, InsertFolder, PatchFolder, CheckChain, WriteFolder,
         PatchAlbum, ListSubtree, FilesRemoved, Fail, LoadFolder,
         StartDeleteFolder, LoadAlbum, StartDeleteAlbum, RemoveFiles
<1> QED
  BY <1>1, <1>2

\* Without a move, an album below a folder stays below it or goes.
LEMMA StaysBelow ==
  ASSUME TypeInv, [Next]_vars, \A c \in Client : ~MovesFolder(c) /\ ~MovesAlbum(c),
         NEW i, NEW a \in AlbumsBelow(i)
  PROVE  folder'[a] = Gone \/ a \in AlbumsBelow(i)'
<1>0. RowsOK /\ RequestsOK
  BY DEF TypeInv
<1> DEFINE g == folder[a]
<1>1. a \in LiveAlbums /\ a \in Album /\ folder[a] # Unborn /\ g \in LiveFolders /\ i \in Chain(g)
  BY Ids DEF AlbumsBelow, Below, LiveAlbums
<1>2. PICK h : h = g
  OBVIOUS
<1>3. ASSUME folder'[a] = h, h \in LiveFolders', Chain(h)' = Chain(h)
      PROVE  a \in AlbumsBelow(i)'
  <2>1. a \in LiveAlbums'
    BY <1>1, <1>2, <1>3, Ids DEF LiveAlbums, LiveFolders, Nobody
  <2>2. h \in Below(i)'
    BY <1>1, <1>2, <1>3 DEF Below
  <2> QED
    BY <1>3, <2>1, <2>2 DEF AlbumsBelow
<1>4. ASSUME parent' = parent PROVE h \in LiveFolders' /\ Chain(h)' = Chain(h)
  BY <1>1, <1>2, <1>4 DEF LiveFolders, Chain, Upward
<1>5. CASE rows' = rows
  BY <1>2, <1>3, <1>4, <1>5 DEF rows
<1>6. ASSUME NEW c \in Client, InsertAlbum(c) \/ DropAlbum(c)
      PROVE  folder'[a] = Gone \/ a \in AlbumsBelow(i)'
  BY <1>0, <1>1, <1>2, <1>3, <1>4, <1>6 DEF InsertAlbum, DropAlbum, RowsOK
<1>7. ASSUME NEW c \in Client, InsertFolder(c)
      PROVE  folder'[a] = Gone \/ a \in AlbumsBelow(i)'
  <2>1. CASE Resolves(par[c])
    <3>1. PICK f \in Folder : parent[f] = Unborn /\ parent' = [parent EXCEPT ![f] = par[c]]
      BY <1>7, <2>1 DEF InsertFolder
    <3>2. /\ LiveFolders' = LiveFolders \cup {f} /\ f \notin LiveFolders
          /\ \A x \in LiveFolders : parent'[x] = parent[x]
      BY <1>0, <2>1, <3>1, Ids DEF RowsOK, LiveFolders, Resolves, Nobody
    <3>3. \A x \in LiveFolders : parent[x] # f
      BY <1>0, <3>2, Ids DEF RowsOK, Nobody
    <3>4. h \in LiveFolders /\ Chain(h) \subseteq LiveFolders
      BY <1>1, <1>2, ChainFacts DEF ChainIs
    <3>5. Chain(h)' = Chain(h)
      <4>1. \A x \in Chain(h) : x \in LiveFolders' /\ parent'[x] = parent[x]
        BY <3>2, <3>4
      <4>2. \A x \in Chain(h) : parent[x] \in LiveFolders' => parent[x] \in LiveFolders
        BY <3>2, <3>3, <3>4
      <4> QED
        BY <3>4, <4>1, <4>2, ChainKept
    <3> QED
      BY <1>2, <1>3, <1>7, <3>2, <3>4, <3>5 DEF InsertFolder
  <2>2. CASE ~Resolves(par[c])
    BY <1>5, <1>7, <2>2 DEF InsertFolder, rows
  <2> QED
    BY <2>1, <2>2
<1>8. ASSUME NEW c \in Client, DropFolder(c)
      PROVE  folder'[a] = Gone \/ a \in AlbumsBelow(i)'
  <2>1. id[c] \in Folder
    BY <1>0, <1>8 DEF DropFolder, RequestsOK
  <2>2. PICK x \in Folder : /\ parent' = [f \in Folder |-> IF f \in Below(x) THEN Gone ELSE parent[f]]
                            /\ folder' = [b \in Album |-> IF b \in AlbumsBelow(x) THEN Gone ELSE folder[b]]
    BY <1>8, <2>1 DEF DropFolder
  <2>3. LiveFolders' = LiveFolders \ Below(x) /\ \A f \in LiveFolders' : Chain(f)' = Chain(f)
    BY <1>0, <2>2, Cascade
  <2>4. CASE a \in AlbumsBelow(x)
    BY <1>1, <2>2, <2>4
  <2>5. CASE a \notin AlbumsBelow(x)
    <3>1. h \notin Below(x) /\ folder'[a] = h
      BY <1>1, <1>2, <2>2, <2>5 DEF AlbumsBelow
    <3>2. h \in LiveFolders' /\ Chain(h)' = Chain(h)
      BY <1>1, <1>2, <2>3, <3>1
    <3> QED
      BY <1>3, <3>1, <3>2
  <2> QED
    BY <2>4, <2>5
<1>9. \/ rows' = rows
      \/ \E c \in Client : InsertAlbum(c) \/ DropAlbum(c) \/ InsertFolder(c) \/ DropFolder(c)
  BY DEF MovesFolder, MovesAlbum, Next, vars, rows, Upload, Handler, StartCreate, PatchFolder, CheckChain,
         WriteFolder, PatchAlbum, WriteAlbum, ListSubtree, FilesRemoved, Fail, LoadFolder,
         StartDeleteFolder, LoadAlbum, StartDeleteAlbum, RemoveFiles
<1> QED
  BY <1>5, <1>6, <1>7, <1>8, <1>9

LEMMA InitLists == Init => ListInv
BY DEF Init, ListInv, OnlyGone, Lists

\* Files are removed only of albums that have gone.
LEMMA RemovedGone ==
  ASSUME TypeInv, OnlyGone, [Next]_vars, NEW a \in Album, files'[a] = "removed"
  PROVE  folder'[a] = Gone
<1>1. CASE files[a] = "removed"
  BY <1>1, GoneStays DEF OnlyGone
<1>2. CASE files[a] # "removed"
  <2>1. PICK c \in Client, b \in Album : RemoveFiles(c, b)
    <3>1. files' # files
      BY <1>2
    <3>2. ~\E b \in Album : Upload(b)
      BY <1>2 DEF Upload, TypeInv
    <3> QED
      BY <3>1, <3>2
      DEF Next, vars, Handler, StartCreate, InsertFolder, InsertAlbum, PatchFolder, CheckChain, WriteFolder,
          PatchAlbum, WriteAlbum, ListSubtree, DropFolder, DropAlbum, FilesRemoved, Fail, LoadFolder,
          StartDeleteFolder, LoadAlbum, StartDeleteAlbum
  <2>2. a = b /\ folder[a] = Gone
    BY <1>2, <2>1 DEF RemoveFiles, OnlyGone, Lists, TypeInv
  <2> QED
    BY <2>2, GoneStays
<1> QED
  BY <1>1, <1>2

\* A move makes every client stale that is about to delete a folder.
LEMMA MovesSpoil ==
  ASSUME RequestsOK, NEW c \in Client, at[c] = "dropFolder",
         NEW d \in Client, MovesFolder(d) \/ MovesAlbum(d)
  PROVE  c \in stale'
<1>1. c # d
  BY DEF MovesFolder, MovesAlbum, WriteFolder, WriteAlbum
<1> QED
  BY <1>1 DEF MovesFolder, MovesAlbum, WriteFolder, WriteAlbum, Moves

\* What a client has listed keeps its meaning until something is moved.
LEMMA ListsStay ==
  ASSUME TypeInv, OnlyGone, [Next]_vars, NEW c \in Client,
         at'[c] = at[c], id'[c] = id[c], list'[c] \subseteq list[c], c \in stale => c \in stale'
  PROVE  Lists(c)'
<1>0. RequestsOK /\ Lists(c) /\ list'[c] \subseteq Album
  BY DEF TypeInv, RequestsOK, OnlyGone
<1>1. \A a \in list'[c] : folder[a] = Gone => folder'[a] = Gone
  BY <1>0, GoneStays
<1>2. ASSUME at[c] = "dropFolder", c \notin stale', NEW i, i = id[c], NEW a \in list'[c]
      PROVE  folder'[a] = Gone \/ a \in AlbumsBelow(i)'
  <2>1. folder[a] = Gone \/ a \in AlbumsBelow(i)
    BY <1>0, <1>2 DEF Lists
  <2>2. \A d \in Client : ~MovesFolder(d) /\ ~MovesAlbum(d)
    BY <1>0, <1>2, MovesSpoil
  <2> QED
    BY <1>0, <1>1, <2>1, <2>2, StaysBelow
<1>3. at'[c] = "dropFolder" /\ c \notin stale' =>
        \A a \in list'[c] : folder'[a] = Gone \/ a \in AlbumsBelow(id[c])'
  <2> SUFFICES ASSUME at'[c] = "dropFolder", c \notin stale', NEW i, i = id'[c], NEW a \in list'[c]
               PROVE  folder'[a] = Gone \/ a \in AlbumsBelow(i)'
    BY DEF AlbumsBelow, Below, Chain, LiveFolders, LiveAlbums, Upward
  <2> QED
    BY <1>2
<1>4. at'[c] = "files" => \A a \in list'[c] : folder'[a] = Gone
  BY <1>0, <1>1 DEF Lists
<1> QED
  BY <1>3, <1>4 DEF Lists, AlbumsBelow, Below, Chain, LiveFolders, LiveAlbums, Upward

\* The steps of a client's own request that list or drop.
LEMMA OwnLists ==
  ASSUME TypeInv, OnlyGone, [Next]_vars, "delete" \notin crossed', NEW c \in Client,
         ListSubtree(c) \/ DropFolder(c) \/ DropAlbum(c)
  PROVE  Lists(c)'
<1>0. RowsOK /\ RequestsOK /\ Lists(c)
  BY DEF TypeInv, OnlyGone
<1>1. CASE ListSubtree(c)
  <2>1. PICK i : i = id[c]
    OBVIOUS
  <2>2. at'[c] = "dropFolder" /\ id'[c] = i /\ list'[c] = AlbumsBelow(i) /\ rows' = rows
    BY <1>0, <1>1, <2>1 DEF ListSubtree, Goto, RequestsOK
  <2>3. AlbumsBelow(i)' = AlbumsBelow(i)
    BY <2>2 DEF rows, AlbumsBelow, Below, Chain, LiveFolders, LiveAlbums, Upward
  <2> QED
    BY <2>2, <2>3 DEF Lists, AlbumsBelow, Below, Chain, LiveFolders, LiveAlbums, Upward
<1>2. CASE DropFolder(c)
  <2>1. at[c] = "dropFolder" /\ at'[c] = "files" /\ list'[c] = list[c] /\ c \notin stale
    BY <1>0, <1>2 DEF DropFolder, Goto, RequestsOK, Crosses
  <2>2. ASSUME NEW a \in list[c] PROVE folder'[a] = Gone
    <3>1. a \in Album /\ (folder[a] = Gone \/ a \in AlbumsBelow(id[c]))
      BY <1>0, <2>1, <2>2 DEF Lists, RequestsOK
    <3> QED
      BY <1>2, <3>1 DEF DropFolder
  <2> QED
    BY <2>1, <2>2 DEF Lists
<1>3. CASE DropAlbum(c)
  <2>1. at'[c] = "files" /\ list'[c] = {id[c]} /\ folder'[id[c]] = Gone
    BY <1>0, <1>3 DEF DropAlbum, Goto, RequestsOK, RowsOK
  <2> QED
    BY <2>1 DEF Lists
<1> QED
  BY <1>1, <1>2, <1>3

LEMMA StepLists ==
  ASSUME TypeInv, ListInv, [Next]_vars
  PROVE  ListInv'
<1> SUFFICES ASSUME "delete" \notin crossed' PROVE OnlyGone'
  BY DEF ListInv
<1>0. RequestsOK /\ OnlyGone
  BY CrossedStays DEF TypeInv, ListInv
<1> SUFFICES ASSUME NEW d \in Client PROVE Lists(d)'
  BY <1>0, RemovedGone DEF OnlyGone, Lists
<1>1. CASE at'[d] = at[d] /\ id'[d] = id[d] /\ list'[d] \subseteq list[d] /\ (d \in stale => d \in stale')
  BY <1>0, <1>1, ListsStay
<1>2. CASE UNCHANGED vars \/ \E a \in Album : Upload(a)
  BY <1>1, <1>2 DEF vars, Upload, history
<1>3. ASSUME NEW c \in Client, c # d, Handler(c) PROVE Lists(d)'
  BY <1>0, <1>1, <1>3, Others
<1>4. ASSUME Handler(d) PROVE Lists(d)'
  <2>1. ASSUME NEW a \in Album, RemoveFiles(d, a) PROVE Lists(d)'
    BY <1>0, <1>1, <2>1 DEF RemoveFiles, RequestsOK, history
  <2>2. CASE ListSubtree(d) \/ DropFolder(d) \/ DropAlbum(d)
    BY <1>0, <2>2, OwnLists
  <2>3. ASSUME NEW s, NEW i, NEW p, Goto(d, s, i, p), s \notin {"dropFolder", "files"}
        PROVE  Lists(d)'
    <3>1. at'[d] = s
      BY <1>0, <2>3 DEF Goto, RequestsOK
    <3> QED
      BY <2>3, <3>1 DEF Lists
  <2>4. Answer(d) => Lists(d)'
    BY <2>3 DEF Answer
  <2>5. ASSUME NEW kind \in Kind, StartCreate(d, kind) PROVE Lists(d)'
    BY <2>3, <2>5 DEF StartCreate
  <2>6. CASE InsertFolder(d) \/ InsertAlbum(d) \/ WriteFolder(d) \/ WriteAlbum(d) \/ FilesRemoved(d) \/ Fail(d)
    BY <2>4, <2>6 DEF InsertFolder, InsertAlbum, WriteFolder, WriteAlbum, FilesRemoved, Fail
  <2>7. CASE PatchFolder(d) \/ CheckChain(d) \/ PatchAlbum(d)
    BY <2>3, <2>4, <2>7 DEF PatchFolder, CheckChain, PatchAlbum
  <2>8. ASSUME NEW f \in Folder, LoadFolder(d, f) \/ StartDeleteFolder(d, f) PROVE Lists(d)'
    BY <2>3, <2>8 DEF LoadFolder, StartDeleteFolder
  <2>9. ASSUME NEW a \in Album, LoadAlbum(d, a) \/ StartDeleteAlbum(d, a) PROVE Lists(d)'
    BY <2>3, <2>9 DEF LoadAlbum, StartDeleteAlbum
  <2> QED
    BY <1>4, <2>1, <2>2, <2>5, <2>6, <2>7, <2>8, <2>9 DEF Handler
<1> QED
  BY <1>2, <1>3, <1>4 DEF Next

\* A deletion takes no files of an album that still exists, for any number of
\* folders, albums and clients, unless a folder was deleted by a request that had
\* listed its albums before a folder or an album was moved (deleteFolder lists the
\* albums, drops the rows and then removes the files of its list).
THEOREM FilesOfLivingStay == Spec => []LiveAlbumsKeepFiles
<1>1. Init => TypeInv /\ ListInv
  BY InitType, InitLists
<1>2. TypeInv /\ ListInv /\ [Next]_vars => TypeInv' /\ ListInv'
  BY StepType, StepLists
<1>3. ListInv => LiveAlbumsKeepFiles
  BY DEF ListInv, OnlyGone, LiveAlbumsKeepFiles, LivingKeepFiles, LiveAlbums
<1> QED
  BY <1>1, <1>2, <1>3, PTL DEF Spec

-----------------------------------------------------------------------------
(* What is only renamed.  The parent that a client has loaded is still the *)
(* row's, or the row has gone, until another row is moved.                 *)

Kept(c) ==
  c \notin stale =>
    /\ at[c] \in {"patchFolder", "keepFolder"} => parent[id[c]] \in {Gone, par[c]}
    /\ at[c] \in {"patchAlbum", "keepAlbum"} => folder[id[c]] \in {Gone, par[c]}

KeepInv == \A c \in Client : Kept(c)

\* A row in the tree stays where it is, or goes, unless one is moved.
LEMMA RowsStay ==
  ASSUME TypeInv, [Next]_vars
  PROVE  /\ \/ \A f \in Folder : parent[f] # Unborn => parent'[f] \in {Gone, parent[f]}
            \/ \E c \in Client : MovesFolder(c)
         /\ \/ \A a \in Album : folder[a] # Unborn => folder'[a] \in {Gone, folder[a]}
            \/ \E c \in Client : MovesAlbum(c)
<1>1. ASSUME NEW c \in Client, DropFolder(c) \/ InsertFolder(c)
      PROVE  \A f \in Folder : parent[f] # Unborn => parent'[f] \in {Gone, parent[f]}
  BY <1>1 DEF DropFolder, InsertFolder, TypeInv, RowsOK
<1>2. ASSUME NEW c \in Client, DropFolder(c) \/ DropAlbum(c) \/ InsertAlbum(c)
      PROVE  \A a \in Album : folder[a] # Unborn => folder'[a] \in {Gone, folder[a]}
  BY <1>2 DEF DropFolder, DropAlbum, InsertAlbum, TypeInv, RowsOK
<1>3. \/ parent' = parent
      \/ \E c \in Client : DropFolder(c) \/ InsertFolder(c) \/ MovesFolder(c)
  BY DEF MovesFolder, Next, vars, rows, Upload, Handler, StartCreate, InsertAlbum, PatchFolder, CheckChain,
         PatchAlbum, WriteAlbum, ListSubtree, DropAlbum, FilesRemoved, Fail, LoadFolder,
         StartDeleteFolder, LoadAlbum, StartDeleteAlbum, RemoveFiles
<1>4. \/ folder' = folder
      \/ \E c \in Client : DropFolder(c) \/ DropAlbum(c) \/ InsertAlbum(c) \/ MovesAlbum(c)
  BY DEF MovesAlbum, Next, vars, rows, Upload, Handler, StartCreate, InsertFolder, PatchFolder, CheckChain,
         PatchAlbum, WriteFolder, ListSubtree, FilesRemoved, Fail, LoadFolder,
         StartDeleteFolder, LoadAlbum, StartDeleteAlbum, RemoveFiles
<1> QED
  BY <1>1, <1>2, <1>3, <1>4

\* A move makes every client stale that has loaded a row of its kind.
LEMMA MovesOutdate ==
  ASSUME NEW c \in Client, NEW d \in Client, c # d
  PROVE  /\ MovesFolder(d) /\ at[c] \in {"patchFolder", "keepFolder"} => c \in stale'
         /\ MovesAlbum(d) /\ at[c] \in {"patchAlbum", "keepAlbum"} => c \in stale'
BY DEF MovesFolder, MovesAlbum, WriteFolder, WriteAlbum, Moves

LEMMA KeptStays ==
  ASSUME TypeInv, [Next]_vars, NEW c \in Client, Kept(c),
         at'[c] = at[c], id'[c] = id[c], par'[c] = par[c], c \in stale => c \in stale'
  PROVE  Kept(c)'
<1>0. RowsOK /\ RequestsOK /\ par[c] # Unborn /\ Gone # Unborn
  BY TreeAssumption DEF TypeInv, RequestsOK
<1> SUFFICES ASSUME c \notin stale'
             PROVE  /\ at[c] \in {"patchFolder", "keepFolder"} => parent'[id[c]] \in {Gone, par[c]}
                    /\ at[c] \in {"patchAlbum", "keepAlbum"} => folder'[id[c]] \in {Gone, par[c]}
  BY DEF Kept
<1>1. ASSUME NEW d \in Client, MovesFolder(d) \/ MovesAlbum(d),
             at[c] \in {"patchFolder", "keepFolder", "patchAlbum", "keepAlbum"}
      PROVE  c # d
  BY <1>0, <1>1 DEF MovesFolder, MovesAlbum, WriteFolder, WriteAlbum, Answer, Goto, RequestsOK
<1>2. ASSUME at[c] \in {"patchFolder", "keepFolder"} PROVE parent'[id[c]] \in {Gone, par[c]}
  <2>1. id[c] \in Folder /\ parent[id[c]] \in {Gone, par[c]}
    BY <1>0, <1>2 DEF RequestsOK, Kept
  <2>2. \A d \in Client : ~MovesFolder(d)
    BY <1>1, <1>2, MovesOutdate
  <2> QED
    BY <1>0, <2>1, <2>2, RowsStay
<1>3. ASSUME at[c] \in {"patchAlbum", "keepAlbum"} PROVE folder'[id[c]] \in {Gone, par[c]}
  <2>1. id[c] \in Album /\ folder[id[c]] \in {Gone, par[c]}
    BY <1>0, <1>3 DEF RequestsOK, Kept
  <2>2. \A d \in Client : ~MovesAlbum(d)
    BY <1>1, <1>3, MovesOutdate
  <2> QED
    BY <1>0, <2>1, <2>2, RowsStay
<1> QED
  BY <1>2, <1>3

LEMMA StepKept ==
  ASSUME TypeInv, KeepInv, [Next]_vars
  PROVE  KeepInv'
<1>0. RequestsOK
  BY DEF TypeInv
<1> SUFFICES ASSUME NEW d \in Client PROVE Kept(d)'
  BY DEF KeepInv
<1>1. CASE at'[d] = at[d] /\ id'[d] = id[d] /\ par'[d] = par[d] /\ (d \in stale => d \in stale')
  BY <1>1, KeptStays DEF KeepInv
<1>2. CASE UNCHANGED vars \/ \E a \in Album : Upload(a)
  BY <1>1, <1>2 DEF vars, Upload, history
<1>3. ASSUME NEW c \in Client, c # d, Handler(c) PROVE Kept(d)'
  BY <1>0, <1>1, <1>3, Others
<1>4. ASSUME Handler(d) PROVE Kept(d)'
  <2>1. ASSUME NEW a \in Album, RemoveFiles(d, a) PROVE Kept(d)'
    BY <1>1, <2>1 DEF RemoveFiles, history
  <2>2. ASSUME NEW s, NEW i, NEW p, Goto(d, s, i, p),
               s \notin {"patchFolder", "keepFolder", "patchAlbum", "keepAlbum"}
        PROVE  Kept(d)'
    <3>1. at'[d] = s
      BY <1>0, <2>2 DEF Goto, RequestsOK
    <3> QED
      BY <2>2, <3>1 DEF Kept
  <2>3. ASSUME NEW f \in Folder, LoadFolder(d, f) PROVE Kept(d)'
    <3>1. at'[d] = "patchFolder" /\ id'[d] = f /\ par'[d] = parent[f] /\ parent' = parent
      BY <1>0, <2>3 DEF LoadFolder, Goto, RequestsOK, rows
    <3> QED
      BY <3>1 DEF Kept
  <2>4. ASSUME NEW a \in Album, LoadAlbum(d, a) PROVE Kept(d)'
    <3>1. at'[d] = "patchAlbum" /\ id'[d] = a /\ par'[d] = folder[a] /\ folder' = folder
      BY <1>0, <2>4 DEF LoadAlbum, Goto, RequestsOK, rows
    <3> QED
      BY <3>1 DEF Kept
  <2>5. ASSUME at[d] = "patchFolder", Goto(d, "keepFolder", id[d], par[d]), history' = history, rows' = rows
        PROVE  Kept(d)'
    <3>1. at'[d] = "keepFolder" /\ id'[d] = id[d] /\ par'[d] = par[d] /\ stale' = stale /\ parent' = parent
      BY <1>0, <2>5 DEF Goto, RequestsOK, rows, history
    <3> QED
      BY <2>5, <3>1 DEF Kept, KeepInv
  <2>6. ASSUME at[d] = "patchAlbum", Goto(d, "keepAlbum", id[d], par[d]), history' = history, rows' = rows
        PROVE  Kept(d)'
    <3>1. at'[d] = "keepAlbum" /\ id'[d] = id[d] /\ par'[d] = par[d] /\ stale' = stale /\ folder' = folder
      BY <1>0, <2>6 DEF Goto, RequestsOK, rows, history
    <3> QED
      BY <2>6, <3>1 DEF Kept, KeepInv
  <2>7. Answer(d) => Kept(d)'
    BY <2>2 DEF Answer
  <2>8. CASE PatchFolder(d)
    BY <2>2, <2>5, <2>7, <2>8 DEF PatchFolder
  <2>9. CASE PatchAlbum(d)
    BY <2>2, <2>6, <2>7, <2>9 DEF PatchAlbum
  <2>10. CASE InsertFolder(d) \/ InsertAlbum(d) \/ WriteFolder(d) \/ WriteAlbum(d) \/ FilesRemoved(d) \/ Fail(d)
    BY <2>7, <2>10 DEF InsertFolder, InsertAlbum, WriteFolder, WriteAlbum, FilesRemoved, Fail
  <2>11. CASE CheckChain(d) \/ ListSubtree(d) \/ DropFolder(d) \/ DropAlbum(d)
    BY <2>2, <2>7, <2>11 DEF CheckChain, ListSubtree, DropFolder, DropAlbum
  <2>12. ASSUME NEW kind \in Kind, StartCreate(d, kind) PROVE Kept(d)'
    BY <2>2, <2>12 DEF StartCreate
  <2>13. ASSUME NEW f \in Folder, StartDeleteFolder(d, f) PROVE Kept(d)'
    BY <2>2, <2>13 DEF StartDeleteFolder
  <2>14. ASSUME NEW a \in Album, StartDeleteAlbum(d, a) PROVE Kept(d)'
    BY <2>2, <2>14 DEF StartDeleteAlbum
  <2> QED
    BY <1>4, <2>1, <2>3, <2>4, <2>8, <2>9, <2>10, <2>11, <2>12, <2>13, <2>14 DEF Handler
<1> QED
  BY <1>2, <1>3, <1>4 DEF Next

\* An update that names no parent leaves its row where it is, for any number of
\* folders, albums and clients, unless another row has been moved since it loaded
\* the parent that it writes back (updateFolder, updateAlbum).
THEOREM NothingMovesUnasked == Spec => KeepsItsPlace
<1>1. Init => KeepInv
  BY DEF Init, KeepInv, Kept
<1>2. ASSUME TypeInv, KeepInv, [Next]_vars
      PROVE  [\A c \in Client \ stale :
               at[c] \in {"keepFolder", "keepAlbum"} /\ at'[c] # at[c] => UNCHANGED rows]_vars
  <2>0. RequestsOK
    BY <1>2 DEF TypeInv
  <2> SUFFICES ASSUME NEW c \in Client, c \notin stale, at[c] \in {"keepFolder", "keepAlbum"}, at'[c] # at[c]
               PROVE  UNCHANGED rows
    OBVIOUS
  <2>1. Handler(c)
    <3>1. \E d \in Client : Handler(d)
      BY <1>2 DEF Next, vars, Upload
    <3> QED
      BY <2>0, <3>1, Others
  <2>2. CASE WriteFolder(c)
    <3>1. id[c] \in Folder /\ at[c] = "keepFolder"
      BY <2>0, <2>2 DEF WriteFolder, RequestsOK
    <3>2. parent[id[c]] \in {Gone, par[c]}
      BY <1>2, <3>1 DEF KeepInv, Kept
    <3> QED
      BY <2>2, <3>2 DEF WriteFolder, LiveFolders, rows
  <2>3. CASE WriteAlbum(c)
    <3>1. id[c] \in Album /\ at[c] = "keepAlbum"
      BY <2>0, <2>3 DEF WriteAlbum, RequestsOK
    <3>2. folder[id[c]] \in {Gone, par[c]}
      BY <1>2, <3>1 DEF KeepInv, Kept
    <3> QED
      BY <2>3, <3>2 DEF WriteAlbum, LiveAlbums, rows
  <2>4. CASE Fail(c)
    BY <2>4 DEF Fail
  <2> QED
    BY <2>1, <2>2, <2>3, <2>4
    DEF Handler, StartCreate, InsertFolder, InsertAlbum, PatchFolder, CheckChain, PatchAlbum, ListSubtree,
        DropFolder, DropAlbum, FilesRemoved, LoadFolder, StartDeleteFolder, LoadAlbum, StartDeleteAlbum,
        RemoveFiles
<1> QED
  BY <1>1, <1>2, InitType, StepType, StepKept, PTL DEF Spec, KeepsItsPlace
================================================================================
