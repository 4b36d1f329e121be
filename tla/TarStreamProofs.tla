--------------------------- MODULE TarStreamProofs ---------------------------
(***************************************************************************)
(* The tar exporter and the tar importer, for every commit, every way to   *)
(* split it into archives, every archive of another origin and any number  *)
(* of crashes and repetitions.                                             *)
(***************************************************************************)
EXTENDS TarStream, TLAPS

-----------------------------------------------------------------------------
(***************************************************************************)
(* Sequences.                                                              *)
(***************************************************************************)
LEMMA Nonempty ==
    ASSUME NEW S, NEW s \in Seq(S), s # <<>> \/ Len(s) >= 1
    PROVE  /\ Len(s) \in Nat /\ Len(s) >= 1
           /\ Head(s) = s[1] /\ s[1] \in S /\ Tail(s) \in Seq(S) /\ Len(Tail(s)) = Len(s) - 1
  OBVIOUS

LEMMA Element ==
    ASSUME NEW S, NEW s \in Seq(S), NEW k \in 1..Len(s)
    PROVE  s[k] \in S
  OBVIOUS

LEMMA Tuples ==
    ASSUME NEW S, NEW a \in S, NEW b \in S
    PROVE  <<>> \in Seq(S) /\ <<a>> \in Seq(S) /\ <<a, b>> \in Seq(S)
  OBVIOUS

LEMMA Tabulated ==
    ASSUME NEW S, NEW n \in Nat, NEW f \in [1..n -> S]
    PROVE  f \in Seq(S) /\ Len(f) = n
  OBVIOUS

LEMMA Joined ==
    ASSUME NEW S, NEW s \in Seq(S), NEW t \in Seq(S)
    PROVE  /\ s \o t \in Seq(S) /\ Len(s \o t) = Len(s) + Len(t)
           /\ \A k \in 1..Len(s) : (s \o t)[k] = s[k]
           /\ \A k \in 1..Len(t) : (s \o t)[Len(s) + k] = t[k]
           /\ \A k \in 1..(Len(s) + Len(t)) : k > Len(s) => (s \o t)[k] = t[k - Len(s)]
  OBVIOUS

LEMMA JoinedTwice ==
    ASSUME NEW S, NEW s \in Seq(S), NEW t \in Seq(S), NEW u \in Seq(S)
    PROVE  s \o (t \o u) = (s \o t) \o u
  OBVIOUS

-----------------------------------------------------------------------------
(***************************************************************************)
(* Entries.                                                                *)
(***************************************************************************)
LEMMA ObjectIs ==
    ASSUME NEW e, NEW t, NEW c, e = Object(t, c)
    PROVE  e.type = t /\ e.id = c
  BY DEF Object, Entry

LEMMA EntryIs ==
    ASSUME NEW e \in Entries
    PROVE  /\ e.type = "commit" => e.id \in Commits /\ e = Object("commit", e.id)
           /\ e.type = "commitmeta" => e.id \in Commits /\ e.ref \in {"good", "bad"}
           /\ e.type = "dirtree" => e.id \in Trees
           /\ e.type = "dirmeta" => e.id \in Metas
           /\ e.type = "file" => e.id \in Contents /\ e = Object("file", e.id)
           /\ e.type = "file-xattrs" => e.id \in Xattrs
           /\ IsXattrsLink(e) => e.id \in Contents /\ e.ref \in Xattrs
  BY DEF Entries, ObjectEntries, Signatures, Object, Entry, IsXattrsLink

LEMMA MadeEntries ==
    /\ \A c \in Commits : Object("commit", c) \in Entries
    /\ \A c \in Commits, s \in {"good", "bad"} : CommitMeta(c, s) \in Entries
    /\ \A t \in Trees : Object("dirtree", t) \in Entries
    /\ \A m \in Metas : Object("dirmeta", m) \in Entries
    /\ \A c \in Contents : Object("file", c) \in Entries
    /\ \A x \in Xattrs : Object("file-xattrs", x) \in Entries
    /\ \A c \in Contents, x \in Xattrs : XattrsLink(c, x) \in Entries
    /\ \A p \in Seq(Names) : Directory(p) \in Entries /\ EmptyFile(p) \in Entries
    /\ \A c \in Contents, p \in Seq(Names) : Hardlink(c, p) \in Entries
    /\ Entry("config", "", "", <<>>) \in Entries
  <1> USE DEF Entries, ObjectEntries, Object, Entry
  <1>1. \A c \in Commits : Object("commit", c) \in Entries
    OBVIOUS
  <1>2. \A c \in Commits, s \in {"good", "bad"} : CommitMeta(c, s) \in Entries
    BY DEF CommitMeta, Signatures
  <1>3. \A t \in Trees : Object("dirtree", t) \in Entries
    OBVIOUS
  <1>4. \A m \in Metas : Object("dirmeta", m) \in Entries
    OBVIOUS
  <1>5. \A c \in Contents : Object("file", c) \in Entries
    OBVIOUS
  <1>6. \A x \in Xattrs : Object("file-xattrs", x) \in Entries
    OBVIOUS
  <1>7. \A c \in Contents, x \in Xattrs : XattrsLink(c, x) \in Entries
    BY DEF XattrsLink
  <1>8. \A p \in Seq(Names) : Directory(p) \in Entries /\ EmptyFile(p) \in Entries
    BY DEF Directory, EmptyFile
  <1>9. \A c \in Contents, p \in Seq(Names) : Hardlink(c, p) \in Entries
    BY DEF Hardlink
  <1>10. Entry("config", "", "", <<>>) \in Entries
    OBVIOUS
  <1> QED  BY <1>1, <1>2, <1>3, <1>4, <1>5, <1>6, <1>7, <1>8, <1>9, <1>10, Zenon

-----------------------------------------------------------------------------
(***************************************************************************)
(* The types of the exporter's variables.                                  *)
(***************************************************************************)
Places == Seq(Seq(Names)) \ {<<>>}
Tasks ==
    [op : {"tree"}, paths : Places, id : Trees, meta : {""}]
    \cup [op : {"dir", "sysroot"}, paths : Places, id : Trees, meta : Metas]
    \cup [op : {"file"}, paths : Places, id : Contents, meta : {""}]
    \cup [op : {"object"}, paths : Seq(Seq(Names)), id : Contents, meta : {""}]
    \cup [op : {"var"}, paths : {<<>>}, id : {""}, meta : {""}]

ExportTypes ==
    /\ plan \in Plans /\ part \in 1..Len(plan) /\ detached \in Signatures
    /\ export \in {"idle", "run", "done", "failed", "cut", "foreign"}
    /\ archive \in Seq(Entries) /\ todo \in Seq(Tasks)
    /\ wrote \in [dirtree : SUBSET Trees, dirmeta : SUBSET Metas, content : SUBSET Contents,
                  xattrs : SUBSET Xattrs, vartmp : BOOLEAN]

LEMMA TaskIs ==
    ASSUME NEW t \in Tasks
    PROVE  /\ t.op \in {"tree", "dir", "sysroot"} => t.id \in Trees
           /\ t.op \in {"dir", "sysroot"} => t.meta \in Metas
           /\ t.op \in {"file", "object"} => t.id \in Contents
           /\ t.op \in {"tree", "dir", "sysroot", "file"} => t.paths \in Places /\ t.paths[1] \in Seq(Names)
           /\ t.op = "object" => t.paths \in Seq(Seq(Names))
  <1>1. /\ t.op \in {"tree", "dir", "sysroot"} => t.id \in Trees
        /\ t.op \in {"dir", "sysroot"} => t.meta \in Metas
        /\ t.op \in {"file", "object"} => t.id \in Contents
        /\ t.op \in {"tree", "dir", "sysroot", "file"} => t.paths \in Places
        /\ t.op = "object" => t.paths \in Seq(Seq(Names))
    BY DEF Tasks
  <1>2. \A p \in Places : p[1] \in Seq(Names)
    BY Nonempty DEF Places
  <1> QED  BY <1>1, <1>2

LEMMA MapPathType == \A p \in Seq(Names) : MapPath(p) \in Seq(Names)
  <1> SUFFICES ASSUME NEW p \in Seq(Names) PROVE MapPath(p) \in Seq(Names)
    OBVIOUS
  <1>1. SubSeq(p, 4, Len(p)) \in Seq(Names)
    OBVIOUS
  <1>2. <<".", "etc">> \in Seq(Names)
    BY Tuples, TreeAssumption
  <1> QED  BY <1>1, <1>2, Joined DEF MapPath

LEMMA PathForTarType == \A p \in Seq(Names) : PathForTarV1(p) \in Seq(Names)
  <1> SUFFICES ASSUME NEW p \in Seq(Names) PROVE PathForTarV1(p) \in Seq(Names)
    OBVIOUS
  <1> DEFINE relative == IF IsPrefix(<<"/">>, p) THEN Tail(p) ELSE p
  <1>1. relative \in Seq(Names)
    BY DEF IsPrefix
  <1>2. IsPrefix(<<"usr", "etc">>, relative) => Tail(relative) \in Seq(Names)
    <2> HIDE DEF relative
    <2>1. Len(<<"usr", "etc">>) = 2
      OBVIOUS
    <2>2. IsPrefix(<<"usr", "etc">>, relative) => Len(relative) >= 1
      BY <1>1, <2>1 DEF IsPrefix
    <2> QED  BY <1>1, <2>2, Nonempty
  <1> HIDE DEF relative
  <1>3. PathForTarV1(p) = IF IsPrefix(<<"usr", "etc">>, relative) THEN Tail(relative) ELSE relative
    BY DEF PathForTarV1, relative
  <1> QED  BY <1>1, <1>2, <1>3

LEMMA ChunkTasksType ==
    ASSUME plan \in Plans, part \in 1..Len(plan)
    PROVE  /\ Mode \in {"commit", "chunk", "final"}
           /\ ChunkTasks \in Seq(Tasks)
           /\ \A k \in 1..Len(ChunkTasks) : ChunkTasks[k].op = "object"
  <1>1. plan[part] \in Archives
    BY PlansAssumption
  <1>2. plan[part].mode \in {"commit", "chunk", "final"} /\ plan[part].chunk \in Seq(Chunk)
    BY <1>1 DEF Archives
  <1> DEFINE n == Len(plan[part].chunk)
  <1>3. n \in Nat
    BY <1>2
  <1>4. ASSUME NEW k \in 1..n
        PROVE  LET t == Task("object", plan[part].chunk[k].paths, plan[part].chunk[k].content, "")
               IN  t \in Tasks /\ t.op = "object"
    <2>1. plan[part].chunk[k] \in Chunk
      BY <1>2
    <2> QED  BY <2>1 DEF Chunk, Task, Tasks
  <1>5. ChunkTasks \in [1..n -> Tasks] /\ \A k \in 1..n : ChunkTasks[k].op = "object"
    BY <1>4 DEF ChunkTasks
  <1> HIDE DEF n
  <1> QED  BY <1>2, <1>3, <1>5, Tabulated DEF Mode

LEMMA DirTasksType ==
    ASSUME NEW path \in Seq(Names), NEW t \in Trees
    PROVE  FileTasks(path, t) \in Seq(Tasks) /\ DirTasks(path, t) \in Seq(Tasks)
  <1>1. Files[t] \in Seq([name: Names, content: Contents])
        /\ Dirs[t] \in Seq([name: Names, tree: Trees, meta: Metas])
    BY TreeAssumption
  <1>2. Len(Files[t]) \in Nat /\ Len(Dirs[t]) \in Nat
    BY <1>1
  <1>3. \A p \in Seq(Names) : <<p>> \in Places
    BY DEF Places
  <1>4. ASSUME NEW k \in 1..Len(Files[t])
        PROVE  Task("file", <<MapPath(Append(path, Files[t][k].name))>>, Files[t][k].content, "") \in Tasks
    <2>1. Files[t][k] \in [name: Names, content: Contents]
      BY <1>1, Element
    <2>2. Append(path, Files[t][k].name) \in Seq(Names) /\ Files[t][k].content \in Contents
      BY <2>1
    <2>3. <<MapPath(Append(path, Files[t][k].name))>> \in Places
      BY <1>3, <2>2, MapPathType
    <2> QED  BY <2>2, <2>3 DEF Task, Tasks
  <1>5. ASSUME NEW k \in 1..Len(Dirs[t]), NEW op \in {"dir", "sysroot"}
        PROVE  Task(op, <<MapPath(Append(path, Dirs[t][k].name))>>, Dirs[t][k].tree, Dirs[t][k].meta) \in Tasks
    <2>1. Dirs[t][k] \in [name: Names, tree: Trees, meta: Metas]
      BY <1>1, Element
    <2>2. /\ Append(path, Dirs[t][k].name) \in Seq(Names)
          /\ Dirs[t][k].tree \in Trees /\ Dirs[t][k].meta \in Metas
      BY <2>1
    <2>3. <<MapPath(Append(path, Dirs[t][k].name))>> \in Places
      BY <1>3, <2>2, MapPathType
    <2> QED  BY <2>2, <2>3 DEF Task, Tasks
  <1>6. FileTasks(path, t) \in [1..Len(Files[t]) -> Tasks] /\ DirTasks(path, t) \in [1..Len(Dirs[t]) -> Tasks]
    BY <1>4, <1>5 DEF FileTasks, DirTasks
  <1> QED  BY <1>2, <1>6, Tabulated

-----------------------------------------------------------------------------
(***************************************************************************)
(* What an archive of the exporter looks like.                             *)
(*                                                                         *)
(* Every content object comes once, right after the link that announces    *)
(* its extended attributes, which have come before; and every link is      *)
(* followed by its object.                                                 *)
(***************************************************************************)
Announced(a) ==
    \A k \in 1..Len(a) :
        /\ a[k].type # "file-xattrs-inline"
        /\ a[k].type = "file" =>
              /\ k > 1 /\ a[k - 1] = XattrsLink(a[k].id, XattrOf[a[k].id])
              /\ \E j \in 1..(k - 1) : a[j] = Object("file-xattrs", XattrOf[a[k].id])
        /\ a[k].type = "file-xattrs-link" => k < Len(a) /\ a[k + 1] = Object("file", a[k].id)
        /\ \A j \in 1..Len(a) :
              a[j].type = "file" /\ a[k].type = "file" /\ a[j].id = a[k].id => j = k

\* What the writer's sets wrote_content and wrote_xattrs say of it.
Recorded(a, w) ==
    /\ \A k \in 1..Len(a) : a[k].type = "file" => a[k].id \in w.content
    /\ \A x \in w.xattrs : \E k \in 1..Len(a) : a[k] = Object("file-xattrs", x)

\* The commit is the first object of its archive, and right after it come its detached
\* metadata, if any, and the root's dirmeta; a chunk has content objects only.
ChunkTypes == {"file", "file-xattrs", "file-xattrs-link", "dir", "config", "link", "empty"}
LaterTypes == ChunkTypes \cup {"dirtree", "dirmeta"}
Headed(a) ==
    IF Mode = "chunk" THEN \A k \in 1..Len(a) : a[k].type \in ChunkTypes
    ELSE /\ Len(a) >= (IF detached = "none" THEN 5 ELSE 6)
         /\ \A k \in 1..3 : a[k].type \notin ObjectTypes
         /\ a[4] = Object("commit", Commit)
         /\ detached = "none" => a[5] = Object("dirmeta", RootMeta)
         /\ detached # "none" => a[5] = CommitMeta(Commit, detached) /\ a[6] = Object("dirmeta", RootMeta)
         /\ \A k \in 6..Len(a) : a[k].type \in LaterTypes

ExportInv ==
    /\ ExportTypes
    /\ export \in {"run", "done"} => Announced(archive) /\ Headed(archive)
    /\ export = "run" => /\ Recorded(archive, wrote)
                         /\ Mode = "chunk" => \A k \in 1..Len(todo) : todo[k].op = "object"

-----------------------------------------------------------------------------
(***************************************************************************)
(* Appending to it: entries that are neither content nor its announcement, *)
(* or a content object with its announcement.                              *)
(***************************************************************************)
Plain == {e \in Entries : e.type \notin {"file", "file-xattrs-link", "file-xattrs-inline"}}

LEMMA PlainExtends ==
    ASSUME NEW a, NEW b, Len(a) \in Nat, Len(b) \in Nat, Len(a) <= Len(b),
           \A k \in 1..Len(a) : b[k] = a[k],
           \A k \in 1..Len(b) :
              k > Len(a) => b[k].type \notin {"file", "file-xattrs-link", "file-xattrs-inline"}
    PROVE  /\ Announced(a) => Announced(b)
           /\ \A w : Recorded(a, w) => Recorded(b, w)
  <1>1. ASSUME Announced(a), NEW k \in 1..Len(b)
        PROVE  /\ b[k].type # "file-xattrs-inline"
               /\ b[k].type = "file" =>
                     /\ k > 1 /\ b[k - 1] = XattrsLink(b[k].id, XattrOf[b[k].id])
                     /\ \E j \in 1..(k - 1) : b[j] = Object("file-xattrs", XattrOf[b[k].id])
               /\ b[k].type = "file-xattrs-link" => k < Len(b) /\ b[k + 1] = Object("file", b[k].id)
               /\ \A j \in 1..Len(b) :
                     b[j].type = "file" /\ b[k].type = "file" /\ b[j].id = b[k].id => j = k
    <2>1. CASE k > Len(a)
      BY <2>1
    <2>2. CASE k \in 1..Len(a)
      <3>1. /\ b[k] = a[k] /\ a[k].type # "file-xattrs-inline"
            /\ a[k].type = "file" =>
                  /\ k > 1 /\ a[k - 1] = XattrsLink(a[k].id, XattrOf[a[k].id])
                  /\ \E j \in 1..(k - 1) : a[j] = Object("file-xattrs", XattrOf[a[k].id])
            /\ a[k].type = "file-xattrs-link" => k < Len(a) /\ a[k + 1] = Object("file", a[k].id)
            /\ \A j \in 1..Len(a) :
                  a[j].type = "file" /\ a[k].type = "file" /\ a[j].id = a[k].id => j = k
        BY <1>1, <2>2 DEF Announced
      <3>2. \A j \in 1..(k - 1) : b[j] = a[j]
        BY <2>2
      <3>3. b[k].type = "file-xattrs-link" => k < Len(b) /\ b[k + 1] = Object("file", b[k].id)
        BY <2>2, <3>1
      <3>4. \A j \in 1..Len(b) : j \in 1..Len(a) \/ j > Len(a)
        OBVIOUS
      <3>5. \A j \in 1..Len(b) : b[j].type = "file" /\ b[k].type = "file" /\ b[j].id = b[k].id => j = k
        BY <3>1, <3>4
      <3>6. b[k].type = "file" =>
                  /\ k > 1 /\ b[k - 1] = XattrsLink(b[k].id, XattrOf[b[k].id])
                  /\ \E j \in 1..(k - 1) : b[j] = Object("file-xattrs", XattrOf[b[k].id])
        BY <3>1, <3>2
      <3> QED  BY <3>1, <3>3, <3>5, <3>6
    <2> QED  BY <2>1, <2>2
  <1>2. ASSUME NEW w, Recorded(a, w) PROVE Recorded(b, w)
    BY <1>2 DEF Recorded
  <1> QED  BY <1>1, <1>2 DEF Announced

LEMMA PlainJoined ==
    ASSUME NEW a \in Seq(Entries), NEW y \in Seq(Plain)
    PROVE  /\ a \o y \in Seq(Entries)
           /\ Announced(a) => Announced(a \o y)
           /\ \A w : Recorded(a, w) => Recorded(a \o y, w)
  <1> DEFINE b == a \o y
  <1>1. y \in Seq(Entries) /\ \A k \in 1..Len(y) : y[k] \in Plain
    BY Element DEF Plain
  <1>2. /\ b \in Seq(Entries) /\ Len(b) = Len(a) + Len(y) /\ Len(a) \in Nat /\ Len(y) \in Nat
        /\ \A k \in 1..Len(a) : b[k] = a[k]
        /\ \A k \in 1..Len(b) : k > Len(a) => b[k] = y[k - Len(a)] /\ k - Len(a) \in 1..Len(y)
    BY <1>1, Joined
  <1> HIDE DEF b
  <1>3. \A k \in 1..Len(b) : k > Len(a) => b[k].type \notin {"file", "file-xattrs-link", "file-xattrs-inline"}
    BY <1>1, <1>2 DEF Plain
  <1>4. (Announced(a) => Announced(b)) /\ \A w : Recorded(a, w) => Recorded(b, w)
    BY <1>2, <1>3, PlainExtends
  <1> QED  BY <1>2, <1>4 DEF b

LEMMA ContentExtends ==
    ASSUME NEW a, NEW b, NEW c, Len(a) \in Nat, Len(b) = Len(a) + 2, Announced(a),
           \A k \in 1..Len(a) : a[k].type = "file" => a[k].id # c,
           \E k \in 1..Len(a) : a[k] = Object("file-xattrs", XattrOf[c]),
           \A k \in 1..Len(a) : b[k] = a[k],
           b[Len(a) + 1] = XattrsLink(c, XattrOf[c]), b[Len(a) + 2] = Object("file", c)
    PROVE  Announced(b)
  <1> SUFFICES ASSUME NEW k \in 1..Len(b)
               PROVE  /\ b[k].type # "file-xattrs-inline"
                      /\ b[k].type = "file" =>
                            /\ k > 1 /\ b[k - 1] = XattrsLink(b[k].id, XattrOf[b[k].id])
                            /\ \E j \in 1..(k - 1) : b[j] = Object("file-xattrs", XattrOf[b[k].id])
                      /\ b[k].type = "file-xattrs-link" => k < Len(b) /\ b[k + 1] = Object("file", b[k].id)
                      /\ \A j \in 1..Len(b) :
                            b[j].type = "file" /\ b[k].type = "file" /\ b[j].id = b[k].id => j = k
    BY DEF Announced
  <1>1. /\ XattrsLink(c, XattrOf[c]).type = "file-xattrs-link" /\ XattrsLink(c, XattrOf[c]).id = c
        /\ Object("file", c).type = "file" /\ Object("file", c).id = c
    BY DEF XattrsLink, Object, Entry
  <1>2. \A j \in 1..Len(b) : j \in 1..Len(a) \/ j = Len(a) + 1 \/ j = Len(a) + 2
    OBVIOUS
  <1>3. CASE k \in 1..Len(a)
    <2>1. b[k] = a[k] /\ a[k].type # "file-xattrs-inline"
      BY <1>3 DEF Announced
    <2>2. b[k].type = "file" =>
             /\ k > 1 /\ b[k - 1] = XattrsLink(b[k].id, XattrOf[b[k].id])
             /\ \E j \in 1..(k - 1) : b[j] = Object("file-xattrs", XattrOf[b[k].id])
      BY <1>3 DEF Announced
    <2>3. b[k].type = "file-xattrs-link" => k < Len(b) /\ b[k + 1] = Object("file", b[k].id)
      BY <1>3 DEF Announced
    <2>4. \A j \in 1..Len(b) :
             b[j].type = "file" /\ b[k].type = "file" /\ b[j].id = b[k].id => j = k
      <3>1. \A j \in 1..Len(a) : a[j].type = "file" /\ a[k].type = "file" /\ a[j].id = a[k].id => j = k
        BY <1>3 DEF Announced
      <3>2. b[k].type = "file" => b[k].id # c
        BY <1>3, <2>1
      <3> QED  BY <1>1, <1>2, <1>3, <2>1, <3>1, <3>2
    <2> QED  BY <2>1, <2>2, <2>3, <2>4
  <1>4. CASE k = Len(a) + 1
    BY <1>1, <1>4
  <1>5. CASE k = Len(a) + 2
    <2>1. b[k].type = "file" /\ b[k].id = c /\ k > 1 /\ b[k - 1] = XattrsLink(c, XattrOf[c])
      BY <1>1, <1>5
    <2>2. \E j \in 1..(k - 1) : b[j] = Object("file-xattrs", XattrOf[c])
      BY <1>5
    <2>3. \A j \in 1..Len(b) : b[j].type = "file" /\ b[j].id = c => j = k
      BY <1>1, <1>2, <1>5
    <2> QED  BY <2>1, <2>2, <2>3
  <1> QED  BY <1>2, <1>3, <1>4, <1>5

LEMMA ContentJoined ==
    ASSUME NEW a \in Seq(Entries), NEW c \in Contents, Announced(a),
           \A k \in 1..Len(a) : a[k].type = "file" => a[k].id # c,
           \E k \in 1..Len(a) : a[k] = Object("file-xattrs", XattrOf[c])
    PROVE  LET b == a \o <<XattrsLink(c, XattrOf[c]), Object("file", c)>>
           IN  /\ b \in Seq(Entries) /\ Len(b) = Len(a) + 2 /\ Announced(b)
               /\ \A k \in 1..Len(a) : b[k] = a[k]
               /\ b[Len(a) + 1] = XattrsLink(c, XattrOf[c]) /\ b[Len(a) + 2] = Object("file", c)
  <1> DEFINE l == XattrsLink(c, XattrOf[c])
             f == Object("file", c)
             b == a \o <<l, f>>
  <1>1. l \in Entries /\ f \in Entries
    <2>1. XattrOf[c] \in Xattrs
      BY TreeAssumption
    <2> QED  BY <2>1, MadeEntries
  <1> HIDE DEF l, f
  <1>2. /\ b \in Seq(Entries) /\ Len(a) \in Nat /\ Len(b) = Len(a) + 2
        /\ \A k \in 1..Len(a) : b[k] = a[k]
        /\ b[Len(a) + 1] = l /\ b[Len(a) + 2] = f
    BY <1>1
  <1> HIDE DEF b
  <1>3. Announced(b)
    BY <1>2, ContentExtends DEF l, f
  <1> QED  BY <1>2, <1>3 DEF b, l, f

\* b goes on where a ends, with entries of the types T.
Follows(a, b, T) ==
    /\ b \in Seq(Entries) /\ Len(b) \in Nat /\ Len(a) <= Len(b)
    /\ \A k \in 1..Len(a) : b[k] = a[k]
    /\ \A k \in 1..Len(b) : k > Len(a) => b[k].type \in T

LEMMA Following ==
    ASSUME NEW a \in Seq(Entries), NEW y \in Seq(Entries), NEW T,
           \A k \in 1..Len(y) : y[k].type \in T
    PROVE  Follows(a, a \o y, T)
  <1> DEFINE b == a \o y
  <1>1. /\ b \in Seq(Entries) /\ Len(b) = Len(a) + Len(y) /\ Len(a) \in Nat /\ Len(y) \in Nat
        /\ \A k \in 1..Len(a) : b[k] = a[k]
        /\ \A k \in 1..Len(b) : k > Len(a) => b[k] = y[k - Len(a)] /\ k - Len(a) \in 1..Len(y)
    BY Joined
  <1> HIDE DEF b
  <1>2. \A k \in 1..Len(b) : k > Len(a) => b[k].type \in T
    BY <1>1
  <1> QED  BY <1>1, <1>2 DEF Follows, b

LEMMA FollowsTwice ==
    ASSUME NEW a, NEW b, NEW c, NEW T, NEW U, Len(a) \in Nat, T \subseteq U,
           Follows(a, b, T), Follows(b, c, U)
    PROVE  Follows(a, c, U)
  BY DEF Follows

LEMMA ContentWritten ==
    ASSUME ExportTypes, Announced(archive), Recorded(archive, wrote), NEW c \in Contents
    PROVE  /\ ContentEntries(c) \in Seq(Entries)
           /\ Follows(archive, archive \o ContentEntries(c), {"file", "file-xattrs", "file-xattrs-link"})
           /\ Announced(archive \o ContentEntries(c))
           /\ Recorded(archive \o ContentEntries(c), WroteContent(c))
           /\ WroteContent(c) \in [dirtree : SUBSET Trees, dirmeta : SUBSET Metas,
                                   content : SUBSET Contents, xattrs : SUBSET Xattrs, vartmp : BOOLEAN]
  <1> DEFINE x == XattrOf[c]
             T == {"file", "file-xattrs", "file-xattrs-link"}
             pair == <<XattrsLink(c, x), Object("file", c)>>
             first == Unless(x \in wrote.xattrs, Object("file-xattrs", x))
             a == archive \o first
             b == a \o pair
  <1>1. archive \in Seq(Entries) /\ Len(archive) \in Nat
        /\ wrote \in [dirtree : SUBSET Trees, dirmeta : SUBSET Metas, content : SUBSET Contents,
                      xattrs : SUBSET Xattrs, vartmp : BOOLEAN]
    BY DEF ExportTypes
  <1>2. x \in Xattrs /\ XattrsLink(c, x) \in Entries /\ Object("file", c) \in Entries
        /\ Object("file-xattrs", x) \in Entries
    BY TreeAssumption, MadeEntries
  <1>3. WroteContent(c) \in [dirtree : SUBSET Trees, dirmeta : SUBSET Metas,
                             content : SUBSET Contents, xattrs : SUBSET Xattrs, vartmp : BOOLEAN]
    BY <1>1, <1>2 DEF WroteContent
  <1>4. /\ WroteContent(c).content = wrote.content \cup {c}
        /\ WroteContent(c).xattrs = wrote.xattrs \cup (IF c \in wrote.content THEN {} ELSE {x})
    BY <1>1 DEF WroteContent
  <1>5. CASE c \in wrote.content
    <2>1. ContentEntries(c) = <<>> /\ <<>> \in Seq(Entries) /\ archive \o <<>> = archive
      BY <1>1, <1>5 DEF ContentEntries
    <2>2. Follows(archive, archive, T)
      BY <1>1 DEF Follows
    <2>3. Recorded(archive, WroteContent(c))
      BY <1>4, <1>5 DEF Recorded
    <2> QED  BY <1>3, <2>1, <2>2, <2>3
  <1>6. CASE c \notin wrote.content
    <2>1. first \in Seq(Plain) /\ first \in Seq(Entries) /\ \A k \in 1..Len(first) : first[k].type \in T
      <3>1. Object("file-xattrs", x) \in Plain /\ Object("file-xattrs", x).type \in T
        BY <1>2 DEF Plain, Object, Entry
      <3>2. first = <<>> \/ first = <<Object("file-xattrs", x)>>
        BY DEF Unless
      <3> HIDE DEF first, T
      <3>3. <<>> \in Seq(Plain) /\ <<>> \in Seq(Entries) /\ \A k \in 1..Len(<<>>) : <<>>[k].type \in T
        OBVIOUS
      <3>4. \A e \in Plain : e.type \in T =>
               <<e>> \in Seq(Plain) /\ <<e>> \in Seq(Entries) /\ \A k \in 1..Len(<<e>>) : <<e>>[k].type \in T
        BY DEF Plain
      <3>5. CASE first = <<>>
        BY <3>3, <3>5
      <3>6. CASE first = <<Object("file-xattrs", x)>>
        BY <3>1, <3>4, <3>6
      <3> QED  BY <3>2, <3>5, <3>6
    <2>2. pair \in Seq(Entries) /\ \A k \in 1..Len(pair) : pair[k].type \in T
      <3>1. XattrsLink(c, x).type \in T /\ Object("file", c).type \in T
        BY DEF XattrsLink, Object, Entry
      <3> HIDE DEF T
      <3> QED  BY <1>2, <3>1
    <2>3. ContentEntries(c) = first \o pair
      BY <1>6, Zenon DEF ContentEntries
    <2> HIDE DEF pair, first, T
    <2>4. ContentEntries(c) \in Seq(Entries) /\ archive \o ContentEntries(c) = b
      <3>1. first \in Seq(Entries) /\ pair \in Seq(Entries) /\ archive \in Seq(Entries)
        BY <1>1, <2>1, <2>2 DEF Plain
      <3>2. first \o pair \in Seq(Entries)
        BY <3>1, Joined
      <3>3. archive \o (first \o pair) = (archive \o first) \o pair
        BY <3>1, JoinedTwice
      <3> QED  BY <2>3, <3>2, <3>3, Zenon
    <2>5. a \in Seq(Entries) /\ Announced(a) /\ Recorded(a, wrote)
      BY <1>1, <2>1, PlainJoined
    <2>6. Follows(archive, a, T) /\ Follows(a, b, T)
      BY <1>1, <2>1, <2>2, <2>5, Following
    <2>7. Follows(archive, b, T)
      BY <1>1, <2>6, FollowsTwice
    <2>8. \E k \in 1..Len(a) : a[k] = Object("file-xattrs", x)
      <3>1. CASE x \in wrote.xattrs
        BY <2>5, <3>1 DEF Recorded
      <3>2. CASE x \notin wrote.xattrs
        <4>1. first = <<Object("file-xattrs", x)>>
          BY <3>2 DEF first, Unless
        <4>2. Len(a) = Len(archive) + 1 /\ a[Len(archive) + 1] = Object("file-xattrs", x)
          BY <1>1, <1>2, <4>1
        <4> QED  BY <1>1, <4>2
      <3> QED  BY <3>1, <3>2
    <2>9. \A k \in 1..Len(a) : a[k].type = "file" => a[k].id # c
      BY <1>6, <2>5 DEF Recorded
    <2>10. /\ Announced(b) /\ Len(b) = Len(a) + 2 /\ \A k \in 1..Len(a) : b[k] = a[k]
           /\ b[Len(a) + 1] = XattrsLink(c, x) /\ b[Len(a) + 2] = Object("file", c)
      BY <2>5, <2>8, <2>9, ContentJoined DEF pair
    <2>11. Len(a) \in Nat
      BY <2>5
    <2> HIDE DEF a, b
    <2>12. \A k \in 1..Len(b) : b[k].type = "file" => b[k].id \in WroteContent(c).content
      <3>1. /\ XattrsLink(c, x).type = "file-xattrs-link"
            /\ Object("file", c).id = c
        BY DEF XattrsLink, Object, Entry
      <3>2. \A k \in 1..Len(b) : k \in 1..Len(a) \/ k = Len(a) + 1 \/ k = Len(a) + 2
        BY <2>10, <2>11
      <3>3. \A k \in 1..Len(a) : a[k].type = "file" => a[k].id \in wrote.content
        BY <2>5 DEF Recorded
      <3> QED  BY <1>4, <2>10, <3>1, <3>2, <3>3
    <2>13. ASSUME NEW w \in WroteContent(c).xattrs PROVE \E k \in 1..Len(b) : b[k] = Object("file-xattrs", w)
      <3>1. \E k \in 1..Len(a) : a[k] = Object("file-xattrs", w)
        BY <1>4, <1>6, <2>5, <2>8 DEF Recorded
      <3>2. \A k \in 1..Len(a) : k \in 1..Len(b)
        BY <2>10, <2>11
      <3> QED  BY <2>10, <3>1, <3>2
    <2>14. Recorded(b, WroteContent(c))
      BY <2>12, <2>13 DEF Recorded
    <2> QED  BY <1>3, <2>4, <2>7, <2>10, <2>14 DEF T
  <1> QED  BY <1>5, <1>6

LEMMA HeadedFollows ==
    ASSUME NEW a, NEW b, Len(a) \in Nat, Headed(a),
           Follows(a, b, IF Mode = "chunk" THEN ChunkTypes ELSE LaterTypes)
    PROVE  Headed(b)
  <1>1. CASE Mode = "chunk"
    BY <1>1 DEF Headed, Follows
  <1>2. CASE Mode # "chunk"
    <2>1. /\ Len(b) \in Nat /\ Len(a) <= Len(b) /\ \A k \in 1..Len(a) : b[k] = a[k]
          /\ \A k \in 1..Len(b) : k > Len(a) => b[k].type \in LaterTypes
      BY <1>2 DEF Follows
    <2>2. /\ Len(a) >= (IF detached = "none" THEN 5 ELSE 6)
          /\ \A k \in 1..3 : a[k].type \notin ObjectTypes
          /\ a[4] = Object("commit", Commit)
          /\ detached = "none" => a[5] = Object("dirmeta", RootMeta)
          /\ detached # "none" => a[5] = CommitMeta(Commit, detached) /\ a[6] = Object("dirmeta", RootMeta)
          /\ \A k \in 6..Len(a) : a[k].type \in LaterTypes
      BY <1>2 DEF Headed
    <2>3. /\ \A k \in 1..5 : b[k] = a[k]
          /\ detached # "none" => b[6] = a[6]
      BY <2>1, <2>2
    <2>4. \A k \in 6..Len(b) : b[k].type \in LaterTypes
      <3>1. \A k \in 6..Len(b) : k \in 6..Len(a) \/ (k \in 1..Len(b) /\ k > Len(a))
        BY <2>1
      <3>2. \A k \in 6..Len(a) : k \in 1..Len(a)
        OBVIOUS
      <3> QED  BY <2>1, <2>2, <3>1, <3>2
    <2>5. Len(b) >= (IF detached = "none" THEN 5 ELSE 6)
      BY <2>1, <2>2
    <2> QED  BY <1>2, <2>2, <2>3, <2>4, <2>5 DEF Headed
  <1> QED  BY <1>1, <1>2

LEMMA PlainAppended ==
    ASSUME ExportInv, export = "run", NEW y \in Seq(Plain),
           \A k \in 1..Len(y) : y[k].type \in (IF Mode = "chunk" THEN ChunkTypes ELSE LaterTypes)
    PROVE  /\ archive \o y \in Seq(Entries) /\ Announced(archive \o y)
           /\ Recorded(archive \o y, wrote) /\ Headed(archive \o y)
  <1>1. archive \in Seq(Entries) /\ Len(archive) \in Nat /\ y \in Seq(Entries)
    BY DEF ExportInv, ExportTypes, Plain
  <1>2. Follows(archive, archive \o y, IF Mode = "chunk" THEN ChunkTypes ELSE LaterTypes)
    BY <1>1, Following
  <1>3. Announced(archive) /\ Headed(archive) /\ Recorded(archive, wrote)
    BY DEF ExportInv
  <1> QED  BY <1>1, <1>2, <1>3, HeadedFollows, PlainJoined

LEMMA ContentAppended ==
    ASSUME ExportInv, export = "run", NEW c \in Contents, NEW y \in Seq(Plain),
           \A k \in 1..Len(y) : y[k].type \in {"link", "empty"}
    PROVE  LET b == archive \o (ContentEntries(c) \o y)
           IN  /\ b \in Seq(Entries) /\ Announced(b) /\ Recorded(b, WroteContent(c)) /\ Headed(b)
  <1> DEFINE a == archive \o ContentEntries(c)
             T == IF Mode = "chunk" THEN ChunkTypes ELSE LaterTypes
  <1>1. archive \in Seq(Entries) /\ Len(archive) \in Nat /\ y \in Seq(Entries)
        /\ Announced(archive) /\ Headed(archive) /\ Recorded(archive, wrote) /\ ExportTypes
    BY DEF ExportInv, ExportTypes, Plain
  <1>2. /\ ContentEntries(c) \in Seq(Entries) /\ Follows(archive, a, {"file", "file-xattrs", "file-xattrs-link"})
        /\ Announced(a) /\ Recorded(a, WroteContent(c))
    BY <1>1, ContentWritten
  <1>3. archive \o (ContentEntries(c) \o y) = a \o y
    <2>1. archive \in Seq(Entries) /\ ContentEntries(c) \in Seq(Entries) /\ y \in Seq(Entries)
      BY <1>1, <1>2
    <2> QED  BY <2>1, JoinedTwice, SMTT(30)
  <1>4. a \in Seq(Entries) /\ Len(a) \in Nat
    BY <1>1, <1>2, Joined
  <1> HIDE DEF a
  <1>5. Follows(a, a \o y, {"link", "empty"})
    BY <1>1, <1>4, Following
  <1>6. Follows(archive, a \o y, T)
    <2>1. {"file", "file-xattrs", "file-xattrs-link"} \subseteq T /\ {"link", "empty"} \subseteq T
      BY DEF ChunkTypes, LaterTypes
    <2> HIDE DEF T
    <2>2. Follows(a, a \o y, T)
      BY <1>5, <2>1 DEF Follows
    <2> QED  BY <1>1, <1>2, <2>1, <2>2, FollowsTwice
  <1>7. Headed(a \o y)
    BY <1>1, <1>6, HeadedFollows
  <1> QED  BY <1>2, <1>3, <1>4, <1>7, PlainJoined

\* The invariant after a step that appends.
LEMMA Appended ==
    ASSUME ExportInv, export = "run", export' = "run", UNCHANGED <<plan, part, detached>>,
           archive' \in Seq(Entries), Announced(archive'), Headed(archive'), Recorded(archive', wrote'),
           todo' \in Seq(Tasks), Mode = "chunk" => \A k \in 1..Len(todo') : todo'[k].op = "object",
           wrote' \in [dirtree : SUBSET Trees, dirmeta : SUBSET Metas, content : SUBSET Contents,
                       xattrs : SUBSET Xattrs, vartmp : BOOLEAN]
    PROVE  ExportInv'
  <1>1. Mode' = Mode
    BY DEF Mode
  <1>2. ExportTypes'
    BY DEF ExportTypes, ExportInv
  <1>3. Announced(archive)' /\ Recorded(archive, wrote)'
    BY DEF Announced, Recorded
  <1>4. Headed(archive)'
    BY <1>1 DEF Headed
  <1> QED  BY <1>1, <1>2, <1>3, <1>4 DEF ExportInv

\* The task at hand, and what is left after it.
LEMMA TaskAtHand ==
    ASSUME ExportInv, export = "run", todo # <<>>
    PROVE  /\ Head(todo) \in Tasks /\ Tail(todo) \in Seq(Tasks)
           /\ Mode = "chunk" => Head(todo).op = "object"
           /\ Mode = "chunk" => \A k \in 1..Len(Tail(todo)) : Tail(todo)[k].op = "object"
  <1>1. todo \in Seq(Tasks) /\ (Mode = "chunk" => \A k \in 1..Len(todo) : todo[k].op = "object")
    BY DEF ExportInv, ExportTypes
  <1>2. /\ Head(todo) \in Tasks /\ Tail(todo) \in Seq(Tasks) /\ Len(todo) \in Nat /\ Len(todo) >= 1
        /\ Head(todo) = todo[1] /\ Len(Tail(todo)) = Len(todo) - 1
    BY <1>1, Nonempty
  <1>3. \A k \in 1..Len(Tail(todo)) : Tail(todo)[k] = todo[k + 1] /\ k + 1 \in 1..Len(todo)
    BY <1>1, <1>2
  <1> QED  BY <1>1, <1>2, <1>3

-----------------------------------------------------------------------------
(***************************************************************************)
(* The exporter's actions.                                                 *)
(***************************************************************************)
LEMMA OnceOrNot ==
    ASSUME NEW e, NEW T, NEW y, e \in Plain, e.type \in T, y = <<>> \/ y = <<e>>
    PROVE  y \in Seq(Plain) /\ \A k \in 1..Len(y) : y[k].type \in T
  <1>1. <<>> \in Seq(Plain) /\ \A k \in 1..Len(<<>>) : <<>>[k].type \in T
    OBVIOUS
  <1>2. <<e>> \in Seq(Plain) /\ \A k \in 1..Len(<<e>>) : <<e>>[k].type \in T
    OBVIOUS
  <1> QED  BY <1>1, <1>2, Zenon

LEMMA PlainEntries ==
    /\ \A t \in Trees : Object("dirtree", t) \in Plain /\ Object("dirtree", t).type \in LaterTypes
    /\ \A m \in Metas : Object("dirmeta", m) \in Plain /\ Object("dirmeta", m).type \in LaterTypes
    /\ \A p \in Seq(Names) : /\ Directory(p) \in Plain /\ Directory(p).type = "dir"
                             /\ EmptyFile(p) \in Plain /\ EmptyFile(p).type = "empty"
    /\ \A c \in Contents, p \in Seq(Names) : Hardlink(c, p) \in Plain /\ Hardlink(c, p).type = "link"
    /\ "dir" \in LaterTypes /\ "empty" \in LaterTypes
  <1>1. /\ \A t : Object("dirtree", t).type = "dirtree" /\ Object("dirmeta", t).type = "dirmeta"
        /\ \A p : Directory(p).type = "dir" /\ EmptyFile(p).type = "empty"
        /\ \A c, p : Hardlink(c, p).type = "link"
    BY DEF Object, Directory, EmptyFile, Hardlink, Entry
  <1> QED  BY <1>1, MadeEntries DEF Plain, LaterTypes, ChunkTypes

LEMMA CheckoutPlain ==
    ASSUME NEW c \in Contents, NEW p \in Seq(Names)
    PROVE  CheckoutEntry(c, p) \in Plain /\ CheckoutEntry(c, p).type \in {"link", "empty"}
  BY PlainEntries DEF CheckoutEntry

LEMMA DirtreeKeeps == ASSUME ExportInv, AppendDirtree PROVE ExportInv'
  <1> DEFINE t == Head(todo)
             y == Unless(t.id \in wrote.dirtree, Object("dirtree", t.id))
             rest == DirTasks(t.paths[1], t.id) \o Tail(todo)
  <1>1. /\ export = "run" /\ todo # <<>> /\ t.op = "tree"
        /\ archive' = archive \o y
        /\ wrote' = [wrote EXCEPT !.dirtree = @ \cup {t.id},
                                  !.vartmp = @ \/ t.paths[1] = <<"var", "tmp">>]
        /\ todo' = (IF Mode = "final" THEN <<>> ELSE FileTasks(t.paths[1], t.id)) \o rest
        /\ UNCHANGED <<plan, part, detached, export>>
    BY DEF AppendDirtree, Doing
  <1>2. t \in Tasks /\ Tail(todo) \in Seq(Tasks) /\ Mode # "chunk"
    BY <1>1, TaskAtHand
  <1>3. t.id \in Trees /\ t.paths[1] \in Seq(Names)
    BY <1>1, <1>2, TaskIs
  <1>4. y \in Seq(Plain) /\ \A k \in 1..Len(y) : y[k].type \in LaterTypes
    <2> DEFINE e == Object("dirtree", t.id)
    <2>1. y = <<>> \/ y = <<e>>
      BY DEF Unless
    <2>2. e \in Plain /\ e.type \in LaterTypes
      BY <1>3, PlainEntries
    <2> HIDE DEF e, y
    <2> QED  BY <2>1, <2>2, OnceOrNot, Zenon
  <1> HIDE DEF y
  <1>5. archive' \in Seq(Entries) /\ Announced(archive') /\ Recorded(archive', wrote) /\ Headed(archive')
    BY <1>1, <1>2, <1>4, PlainAppended
  <1>6. wrote \in [dirtree : SUBSET Trees, dirmeta : SUBSET Metas, content : SUBSET Contents,
                   xattrs : SUBSET Xattrs, vartmp : BOOLEAN]
    BY DEF ExportInv, ExportTypes
  <1>7. wrote' \in [dirtree : SUBSET Trees, dirmeta : SUBSET Metas, content : SUBSET Contents,
                    xattrs : SUBSET Xattrs, vartmp : BOOLEAN]
        /\ wrote'.content = wrote.content /\ wrote'.xattrs = wrote.xattrs
    BY <1>1, <1>3, <1>6
  <1>8. Recorded(archive', wrote')
    BY <1>5, <1>7 DEF Recorded
  <1>9. todo' \in Seq(Tasks)
    <2>1. FileTasks(t.paths[1], t.id) \in Seq(Tasks) /\ DirTasks(t.paths[1], t.id) \in Seq(Tasks)
      BY <1>3, DirTasksType
    <2>2. rest \in Seq(Tasks)
      BY <1>2, <2>1, Joined
    <2>3. (IF Mode = "final" THEN <<>> ELSE FileTasks(t.paths[1], t.id)) \in Seq(Tasks)
      BY <2>1
    <2> HIDE DEF rest
    <2> QED  BY <1>1, <2>2, <2>3, Joined
  <1> QED  BY <1>1, <1>2, <1>5, <1>7, <1>8, <1>9, Appended

LEMMA SubdirKeeps == ASSUME ExportInv, AppendSubdir PROVE ExportInv'
  <1> DEFINE t == Head(todo)
             y == Unless(t.meta \in wrote.dirmeta, Object("dirmeta", t.meta))
             z == <<Directory(t.paths[1])>>
  <1>1. /\ export = "run" /\ todo # <<>> /\ t.op \in {"dir", "sysroot"}
        /\ wrote' = [wrote EXCEPT !.dirmeta = @ \cup {t.meta}]
        /\ \/ archive' = archive \o y /\ todo' = Tail(todo)
           \/ archive' = archive \o (y \o z) /\ todo' = <<Task("tree", t.paths, t.id, "")>> \o Tail(todo)
        /\ UNCHANGED <<plan, part, detached, export>>
    BY DEF AppendSubdir, Doing
  <1>2. t \in Tasks /\ Tail(todo) \in Seq(Tasks) /\ Mode # "chunk"
    BY <1>1, TaskAtHand
  <1>3. t.id \in Trees /\ t.meta \in Metas /\ t.paths \in Places /\ t.paths[1] \in Seq(Names)
    BY <1>1, <1>2, TaskIs
  <1>4. y \in Seq(Plain) /\ \A k \in 1..Len(y) : y[k].type \in LaterTypes
    <2> DEFINE e == Object("dirmeta", t.meta)
    <2>1. y = <<>> \/ y = <<e>>
      BY DEF Unless
    <2>2. e \in Plain /\ e.type \in LaterTypes
      BY <1>3, PlainEntries
    <2> HIDE DEF e, y, z, t
    <2> QED  BY <2>1, <2>2, OnceOrNot, Zenon
  <1>5. z \in Seq(Plain) /\ \A k \in 1..Len(z) : z[k].type \in LaterTypes
    <2>1. Directory(t.paths[1]) \in Plain /\ Directory(t.paths[1]).type \in LaterTypes
      BY <1>3, PlainEntries
    <2> QED  BY <2>1
  <1> HIDE DEF y, z
  <1>6. y \o z \in Seq(Plain) /\ \A k \in 1..Len(y \o z) : (y \o z)[k].type \in LaterTypes
    <2>1. /\ y \o z \in Seq(Plain) /\ Len(y) \in Nat /\ Len(z) \in Nat /\ Len(y \o z) = Len(y) + Len(z)
          /\ \A k \in 1..Len(y) : (y \o z)[k] = y[k]
          /\ \A k \in 1..(Len(y) + Len(z)) : k > Len(y) => (y \o z)[k] = z[k - Len(y)]
      BY <1>4, <1>5, Joined
    <2>2. ASSUME NEW k \in 1..Len(y \o z) PROVE (y \o z)[k].type \in LaterTypes
      <3>1. k \in 1..Len(y) \/ (k > Len(y) /\ k - Len(y) \in 1..Len(z))
        BY <2>1
      <3> QED  BY <1>4, <1>5, <2>1, <3>1
    <2> QED  BY <2>1, <2>2
  <1>7. archive' \in Seq(Entries) /\ Announced(archive') /\ Recorded(archive', wrote) /\ Headed(archive')
    <2>1. CASE archive' = archive \o y
      BY <1>1, <1>2, <1>4, <2>1, PlainAppended
    <2>2. CASE archive' = archive \o (y \o z)
      BY <1>1, <1>2, <1>6, <2>2, PlainAppended
    <2> QED  BY <1>1, <2>1, <2>2
  <1>8. wrote \in [dirtree : SUBSET Trees, dirmeta : SUBSET Metas, content : SUBSET Contents,
                   xattrs : SUBSET Xattrs, vartmp : BOOLEAN]
    BY DEF ExportInv, ExportTypes
  <1>9. wrote' \in [dirtree : SUBSET Trees, dirmeta : SUBSET Metas, content : SUBSET Contents,
                    xattrs : SUBSET Xattrs, vartmp : BOOLEAN]
        /\ wrote'.content = wrote.content /\ wrote'.xattrs = wrote.xattrs
    BY <1>1, <1>3, <1>8
  <1>10. Recorded(archive', wrote')
    BY <1>7, <1>9 DEF Recorded
  <1>11. todo' \in Seq(Tasks)
    <2>1. Task("tree", t.paths, t.id, "") \in Tasks
      BY <1>3 DEF Task, Tasks
    <2>2. <<Task("tree", t.paths, t.id, "")>> \in Seq(Tasks)
      BY <2>1, Tuples
    <2>3. <<Task("tree", t.paths, t.id, "")>> \o Tail(todo) \in Seq(Tasks)
      BY <1>2, <2>2, Joined
    <2> QED  BY <1>1, <1>2, <2>3
  <1> QED  BY <1>1, <1>2, <1>7, <1>9, <1>10, <1>11, Appended

LEMMA FileKeeps == ASSUME ExportInv, AppendFile PROVE ExportInv'
  <1> DEFINE t == Head(todo)
             y == <<CheckoutEntry(t.id, t.paths[1])>>
  <1>1. /\ export = "run" /\ todo # <<>> /\ t.op = "file"
        /\ archive' = archive \o (ContentEntries(t.id) \o y)
        /\ wrote' = WroteContent(t.id) /\ todo' = Tail(todo)
        /\ UNCHANGED <<plan, part, detached, export>>
    BY DEF AppendFile, Doing
  <1>2. t \in Tasks /\ Tail(todo) \in Seq(Tasks) /\ Mode # "chunk"
    BY <1>1, TaskAtHand
  <1>3. t.id \in Contents /\ t.paths[1] \in Seq(Names)
    BY <1>1, <1>2, TaskIs
  <1>4. y \in Seq(Plain) /\ \A k \in 1..Len(y) : y[k].type \in {"link", "empty"}
    <2> DEFINE e == CheckoutEntry(t.id, t.paths[1])
    <2>1. e \in Plain /\ e.type \in {"link", "empty"}
      BY <1>3, CheckoutPlain
    <2>2. y = <<e>>
      OBVIOUS
    <2> HIDE DEF e, y, t
    <2> QED  BY <2>1, <2>2, OnceOrNot
  <1> HIDE DEF y, t
  <1>5. archive' \in Seq(Entries) /\ Announced(archive') /\ Recorded(archive', wrote') /\ Headed(archive')
    BY <1>1, <1>3, <1>4, ContentAppended
  <1>6. wrote' \in [dirtree : SUBSET Trees, dirmeta : SUBSET Metas, content : SUBSET Contents,
                    xattrs : SUBSET Xattrs, vartmp : BOOLEAN]
    BY <1>1, <1>3, ContentWritten DEF ExportInv
  <1> QED  BY <1>1, <1>2, <1>5, <1>6, Appended

LEMMA VarKeeps == ASSUME ExportInv, AppendStandardVar PROVE ExportInv'
  <1> DEFINE y == Unless(wrote.vartmp, Directory(<<"var", "tmp">>))
  <1>1. /\ export = "run" /\ todo # <<>> /\ Head(todo).op = "var"
        /\ archive' = archive \o y /\ todo' = Tail(todo)
        /\ UNCHANGED <<plan, part, detached, wrote, export>>
    BY DEF AppendStandardVar, Doing
  <1>2. Tail(todo) \in Seq(Tasks) /\ Mode # "chunk"
    BY <1>1, TaskAtHand
  <1>3. y \in Seq(Plain) /\ \A k \in 1..Len(y) : y[k].type \in LaterTypes
    <2> DEFINE e == Directory(<<"var", "tmp">>)
    <2>1. y = <<>> \/ y = <<e>>
      BY DEF Unless
    <2>2. <<"var", "tmp">> \in Seq(Names)
      BY TreeAssumption, Tuples
    <2>3. e \in Plain /\ e.type \in LaterTypes
      BY <2>2, PlainEntries
    <2> HIDE DEF e, y
    <2> QED  BY <2>1, <2>3, OnceOrNot, Zenon
  <1> HIDE DEF y
  <1>4. archive' \in Seq(Entries) /\ Announced(archive') /\ Recorded(archive', wrote) /\ Headed(archive')
    BY <1>1, <1>2, <1>3, PlainAppended
  <1>5. wrote \in [dirtree : SUBSET Trees, dirmeta : SUBSET Metas, content : SUBSET Contents,
                   xattrs : SUBSET Xattrs, vartmp : BOOLEAN]
    BY DEF ExportInv, ExportTypes
  <1> QED  BY <1>1, <1>2, <1>4, <1>5, Appended

LEMMA ChunkKeeps == ASSUME ExportInv, WriteChunkObject PROVE ExportInv'
  <1> DEFINE t == Head(todo)
             n == Len(t.paths)
             y == [k \in 1..n |-> CheckoutEntry(t.id, PathForTarV1(t.paths[k]))]
  <1>1. /\ export = "run" /\ todo # <<>> /\ t.op = "object"
        /\ archive' = archive \o (ContentEntries(t.id) \o y)
        /\ wrote' = WroteContent(t.id) /\ todo' = Tail(todo)
        /\ UNCHANGED <<plan, part, detached, export>>
    BY DEF WriteChunkObject, Doing
  <1>2. /\ t \in Tasks /\ Tail(todo) \in Seq(Tasks)
        /\ Mode = "chunk" => \A k \in 1..Len(Tail(todo)) : Tail(todo)[k].op = "object"
    BY <1>1, TaskAtHand
  <1>3. t.id \in Contents /\ t.paths \in Seq(Seq(Names))
    BY <1>1, <1>2, TaskIs
  <1>4. y \in Seq(Plain) /\ \A k \in 1..Len(y) : y[k].type \in {"link", "empty"}
    <2>1. n \in Nat
      BY <1>3
    <2>2. ASSUME NEW k \in 1..n
          PROVE  LET e == CheckoutEntry(t.id, PathForTarV1(t.paths[k]))
                 IN  e \in Plain /\ e.type \in {"link", "empty"}
      <3>1. PathForTarV1(t.paths[k]) \in Seq(Names)
        BY <1>3, Element, PathForTarType
      <3> QED  BY <1>3, <3>1, CheckoutPlain
    <2>3. y \in [1..n -> Plain] /\ \A k \in 1..n : y[k].type \in {"link", "empty"}
      BY <2>2
    <2> HIDE DEF y, n
    <2> QED  BY <2>1, <2>3, Tabulated
  <1> HIDE DEF y, t
  <1>5. archive' \in Seq(Entries) /\ Announced(archive') /\ Recorded(archive', wrote') /\ Headed(archive')
    BY <1>1, <1>3, <1>4, ContentAppended
  <1>6. wrote' \in [dirtree : SUBSET Trees, dirmeta : SUBSET Metas, content : SUBSET Contents,
                    xattrs : SUBSET Xattrs, vartmp : BOOLEAN]
    BY <1>1, <1>3, ContentWritten DEF ExportInv
  <1> QED  BY <1>1, <1>2, <1>5, <1>6, Appended

LEMMA SymlinkKeeps == ASSUME ExportInv, AppendRepeatedSymlink PROVE ExportInv'
  <1> DEFINE y == <<EmptyFile(Head(todo).paths[1])>>
  <1>1. /\ export = "run" /\ todo # <<>> /\ Head(todo).op = "file" /\ todo' = Tail(todo)
        /\ UNCHANGED <<plan, part, detached, wrote>>
    BY DEF AppendRepeatedSymlink, Doing
  <1>2. Head(todo) \in Tasks /\ Tail(todo) \in Seq(Tasks) /\ Mode # "chunk"
    BY <1>1, TaskAtHand
  <1>3. CASE export' = "failed" /\ archive' = archive
    BY <1>1, <1>2, <1>3 DEF ExportInv, ExportTypes
  <1>4. CASE export' = "run" /\ archive' = Append(archive, EmptyFile(Head(todo).paths[1]))
    <2>1. EmptyFile(Head(todo).paths[1]) \in Plain /\ EmptyFile(Head(todo).paths[1]).type \in LaterTypes
      BY <1>1, <1>2, TaskIs, PlainEntries
    <2>2. archive' = archive \o y
      BY <1>4, <2>1 DEF ExportInv, ExportTypes, Plain
    <2>3. y \in Seq(Plain) /\ \A k \in 1..Len(y) : y[k].type \in LaterTypes
      BY <2>1
    <2> HIDE DEF y
    <2>4. archive' \in Seq(Entries) /\ Announced(archive') /\ Recorded(archive', wrote) /\ Headed(archive')
      BY <1>1, <1>2, <2>2, <2>3, PlainAppended
    <2>5. wrote \in [dirtree : SUBSET Trees, dirmeta : SUBSET Metas, content : SUBSET Contents,
                     xattrs : SUBSET Xattrs, vartmp : BOOLEAN]
      BY DEF ExportInv, ExportTypes
    <2> QED  BY <1>1, <1>2, <1>4, <2>4, <2>5, Appended
  <1> QED  BY <1>1, <1>3, <1>4 DEF AppendRepeatedSymlink

LEMMA HeaderTuples ==
    ASSUME NEW a \in Entries, NEW b \in Entries, NEW c \in Entries, NEW d \in Entries,
           NEW f \in Entries, NEW x, x = <<>> \/ (\E e \in Entries : x = <<e>>)
    PROVE  LET h == <<a>> \o <<b, c>> \o <<d>> \o x \o <<f>>
           IN  /\ h \in Seq(Entries) /\ h[1] = a /\ h[2] = b /\ h[3] = c /\ h[4] = d
               /\ x = <<>> => Len(h) = 5 /\ h[5] = f
               /\ \A e \in Entries : x = <<e>> => Len(h) = 6 /\ h[5] = e /\ h[6] = f
  <1>1. ASSUME NEW s \in Seq(Entries), NEW e \in Entries
        PROVE  /\ s \o <<e>> \in Seq(Entries) /\ Len(s) \in Nat /\ Len(s \o <<e>>) = Len(s) + 1
               /\ \A k \in 1..Len(s) : (s \o <<e>>)[k] = s[k]
               /\ (s \o <<e>>)[Len(s) + 1] = e
    OBVIOUS
  <1> DEFINE p == <<a>> \o <<b, c>>
             q == p \o <<d>>
             r == q \o x
             h == r \o <<f>>
  <1>2. p \in Seq(Entries) /\ Len(p) = 3 /\ p[1] = a /\ p[2] = b /\ p[3] = c
    OBVIOUS
  <1> HIDE DEF p
  <1>3. q \in Seq(Entries) /\ Len(q) = 4 /\ q[1] = a /\ q[2] = b /\ q[3] = c /\ q[4] = d
    <2>1. /\ q \in Seq(Entries) /\ Len(q) = Len(p) + 1
          /\ \A k \in 1..Len(p) : q[k] = p[k]
          /\ q[Len(p) + 1] = d
      BY <1>1, <1>2
    <2> HIDE DEF q
    <2> QED  BY <1>2, <2>1
  <1> HIDE DEF q
  <1>4. CASE x = <<>>
    <2>1. r = q
      BY <1>3, <1>4
    <2>2. \A e \in Entries : x # <<e>>
      BY <1>4
    <2>3. /\ h \in Seq(Entries) /\ Len(h) = Len(q) + 1
          /\ \A k \in 1..Len(q) : h[k] = q[k]
          /\ h[Len(q) + 1] = f
      BY <1>1, <1>3, <2>1
    <2> HIDE DEF h, r
    <2>4. h \in Seq(Entries) /\ Len(h) = 5 /\ h[1] = a /\ h[2] = b /\ h[3] = c /\ h[4] = d /\ h[5] = f
      BY <1>3, <2>3
    <2> QED  BY <1>4, <2>2, <2>4 DEF h, r, q, p
  <1>5. ASSUME NEW e \in Entries, x = <<e>>
        PROVE  /\ h \in Seq(Entries) /\ Len(h) = 6 /\ h[1] = a /\ h[2] = b /\ h[3] = c /\ h[4] = d
               /\ h[5] = e /\ h[6] = f
    <2>1. /\ r \in Seq(Entries) /\ Len(r) = Len(q) + 1
          /\ \A k \in 1..Len(q) : r[k] = q[k]
          /\ r[Len(q) + 1] = e
      <3>1. r = q \o <<e>>
        BY <1>5
      <3>2. /\ q \o <<e>> \in Seq(Entries) /\ Len(q \o <<e>>) = Len(q) + 1
            /\ \A k \in 1..Len(q) : (q \o <<e>>)[k] = q[k]
            /\ (q \o <<e>>)[Len(q) + 1] = e
        BY <1>1, <1>3, Zenon
      <3> HIDE DEF r
      <3> QED  BY <3>1, <3>2, Zenon
    <2>2. /\ h \in Seq(Entries) /\ Len(h) = Len(r) + 1
          /\ \A k \in 1..Len(r) : h[k] = r[k]
          /\ h[Len(r) + 1] = f
      BY <1>1, <2>1
    <2> HIDE DEF h, r
    <2>3. r \in Seq(Entries) /\ Len(r) = 5 /\ r[1] = a /\ r[2] = b /\ r[3] = c /\ r[4] = d /\ r[5] = e
      BY <1>3, <2>1
    <2> QED  BY <2>2, <2>3
  <1>6. ASSUME NEW e \in Entries, x = <<e>> PROVE x # <<>>
    BY <1>6
  <1> QED  BY <1>4, <1>5, <1>6 DEF h, r, q, p

LEMMA StartKeeps == ASSUME ExportInv, StartExport PROVE ExportInv'
  <1> DEFINE dir == Directory(<<"sysroot">>)
             config == Entry("config", "", "", <<>>)
  <1>1. export' = "run" /\ UNCHANGED <<plan, part, detached>> /\ ExportTypes
    BY DEF StartExport, ExportInv
  <1>2. Mode' = Mode /\ plan \in Plans /\ part \in 1..Len(plan) /\ detached \in Signatures
    BY <1>1 DEF Mode, ExportTypes
  <1>3. NothingWritten \in [dirtree : SUBSET Trees, dirmeta : SUBSET Metas, content : SUBSET Contents,
                            xattrs : SUBSET Xattrs, vartmp : BOOLEAN]
        /\ NothingWritten.content = {} /\ NothingWritten.xattrs = {}
    BY DEF NothingWritten
  <1>4. /\ ChunkTasks \in Seq(Tasks) /\ \A k \in 1..Len(ChunkTasks) : ChunkTasks[k].op = "object"
    BY <1>2, ChunkTasksType
  <1>5. dir \in Entries /\ dir.type = "dir" /\ config \in Entries /\ config.type = "config"
    <2>1. <<"sysroot">> \in Seq(Names)
      BY TreeAssumption, Tuples
    <2> QED  BY <2>1, MadeEntries DEF Directory, Entry
  <1>6. CASE Mode = "chunk"
    <2>1. archive' = <<dir, config>> /\ todo' = ChunkTasks /\ wrote' = NothingWritten
      BY <1>6 DEF StartExport, Structure
    <2> HIDE DEF dir, config
    <2>2. archive' \in Seq(Entries) /\ Len(archive') = 2
          /\ \A k \in 1..2 : archive'[k].type \in {"dir", "config"}
      BY <1>5, <2>1
    <2>3. Announced(archive)' /\ Recorded(archive, wrote)'
      BY <1>3, <2>1, <2>2 DEF Announced, Recorded
    <2>4. Headed(archive)'
      BY <1>2, <1>6, <2>2 DEF Headed, ChunkTypes
    <2>5. ExportTypes'
      BY <1>1, <1>2, <1>3, <1>4, <2>1, <2>2 DEF ExportTypes
    <2> QED  BY <1>1, <1>4, <2>1, <2>3, <2>4, <2>5 DEF ExportInv
  <1>7. CASE Mode # "chunk"
    <2> DEFINE root == Directory(<<".">>)
               com == Object("commit", Commit)
               det == CommitMeta(Commit, detached)
               met == Object("dirmeta", RootMeta)
               two == <<Task("tree", << <<".">> >>, Root, ""), Task("var", <<>>, "", "")>>
    <2>1. /\ archive' = CommitHeader
          /\ todo' = two \o (IF Mode = "final" THEN ChunkTasks ELSE <<>>)
          /\ wrote' = [NothingWritten EXCEPT !.dirmeta = {RootMeta}]
      BY <1>7 DEF StartExport
    <2>2. /\ root \in Entries /\ root.type = "dir" /\ com \in Entries /\ com.type = "commit"
          /\ met \in Entries /\ met.type = "dirmeta"
      <3>1. <<".">> \in Seq(Names)
        BY TreeAssumption, Tuples
      <3> QED  BY <3>1, TreeAssumption, MadeEntries DEF Directory, Object, Entry
    <2>3. detached # "none" => det \in Entries /\ det.type = "commitmeta"
      BY <1>2, TreeAssumption, MadeEntries DEF Signatures, CommitMeta, Entry
    <2>4. /\ wrote' \in [dirtree : SUBSET Trees, dirmeta : SUBSET Metas, content : SUBSET Contents,
                         xattrs : SUBSET Xattrs, vartmp : BOOLEAN]
          /\ wrote'.content = {} /\ wrote'.xattrs = {}
      BY <1>3, <2>1, TreeAssumption DEF NothingWritten
    <2>5. todo' \in Seq(Tasks)
      <3>1. Task("tree", << <<".">> >>, Root, "") \in Tasks /\ Task("var", <<>>, "", "") \in Tasks
        <4>1. <<".">> \in Seq(Names)
          BY TreeAssumption, Tuples
        <4>2. << <<".">> >> \in Places
          BY <4>1 DEF Places
        <4> QED  BY <4>2, TreeAssumption DEF Task, Tasks
      <3>2. two \in Seq(Tasks)
        BY <3>1, Tuples
      <3> HIDE DEF two
      <3> QED  BY <1>4, <2>1, <3>2, Joined
    <2>6. archive' = <<root>> \o <<dir, config>> \o <<com>> \o Unless(detached = "none", det) \o <<met>>
      BY <2>1, Zenon DEF CommitHeader, Structure
    <2> HIDE DEF root, dir, config, com, det, met, two
    <2>7. /\ archive' \in Seq(Entries) /\ Len(archive') = (IF detached = "none" THEN 5 ELSE 6)
          /\ archive'[1] = root /\ archive'[2] = dir /\ archive'[3] = config /\ archive'[4] = com
          /\ detached = "none" => archive'[5] = met
          /\ detached # "none" => archive'[5] = det /\ archive'[6] = met
      <3> DEFINE x == Unless(detached = "none", det)
      <3>1. (detached = "none" => x = <<>>) /\ (detached # "none" => x = <<det>>)
        BY DEF Unless
      <3> HIDE DEF x
      <3>2. x = <<>> \/ (\E e \in Entries : x = <<e>>)
        BY <2>3, <3>1
      <3>3. archive' = <<root>> \o <<dir, config>> \o <<com>> \o x \o <<met>>
        BY <2>6 DEF x
      <3>4. /\ archive' \in Seq(Entries)
            /\ archive'[1] = root /\ archive'[2] = dir /\ archive'[3] = config /\ archive'[4] = com
            /\ x = <<>> => Len(archive') = 5 /\ archive'[5] = met
            /\ \A e \in Entries : x = <<e>> => Len(archive') = 6 /\ archive'[5] = e /\ archive'[6] = met
        <4> HIDE DEF dir, config
        <4>1. dir \in Entries /\ config \in Entries /\ root \in Entries /\ com \in Entries /\ met \in Entries
          BY <1>5, <2>2
        <4> QED  BY <3>2, <3>3, <4>1, HeaderTuples, SMTT(60)
      <3> QED  BY <2>3, <3>1, <3>4
    <2>8. \A k \in 1..Len(archive') : archive'[k].type \in {"dir", "config", "commit", "commitmeta", "dirmeta"}
      <3>1. \A k \in 1..Len(archive') : k \in {1, 2, 3, 4, 5} \/ (k = 6 /\ detached # "none")
        BY <2>7
      <3> QED  BY <1>5, <2>2, <2>3, <2>7, <3>1
    <2>9. Announced(archive)' /\ Recorded(archive, wrote)'
      BY <2>4, <2>8 DEF Announced, Recorded
    <2>10. Headed(archive)'
      <3>1. \A k \in 1..3 : archive'[k].type \notin ObjectTypes
        BY <1>5, <2>2, <2>7 DEF ObjectTypes, MetadataTypes
      <3>2. \A k \in 6..Len(archive') : archive'[k].type \in LaterTypes
        BY <2>2, <2>7 DEF LaterTypes
      <3> QED  BY <1>1, <1>2, <1>7, <2>7, <3>1, <3>2 DEF Headed, com, det, met
    <2>11. ExportTypes'
      BY <1>1, <1>2, <2>4, <2>5, <2>7 DEF ExportTypes
    <2> QED  BY <1>1, <1>2, <1>7, <2>9, <2>10, <2>11 DEF ExportInv
  <1> QED  BY <1>6, <1>7

LEMMA FinishKeeps == ASSUME ExportInv, FinishExport PROVE ExportInv'
  <1>1. /\ export = "run" /\ export' = "done" /\ wrote' = NothingWritten
        /\ UNCHANGED <<archive, plan, part, detached, todo>>
    BY DEF FinishExport
  <1>2. ExportTypes'
    BY <1>1 DEF ExportInv, ExportTypes, NothingWritten
  <1>3. Announced(archive)' /\ Headed(archive)'
    BY <1>1 DEF ExportInv, Announced, Headed, Mode
  <1> QED  BY <1>1, <1>2, <1>3 DEF ExportInv

LEMMA AnnouncedTypes ==
    ASSUME NEW a, Announced(a), NEW i \in 1..Len(a)
    PROVE  /\ a[i].type = "file" =>
                 /\ a[i - 1].type = "file-xattrs-link"
                 /\ \E j \in 1..(i - 1) : a[j] = Object("file-xattrs", XattrOf[a[i].id]) /\ a[j].type = "file-xattrs"
           /\ a[i].type = "file-xattrs-link" => a[i + 1].type = "file"
  <1>1. ASSUME a[i].type = "file"
        PROVE  /\ a[i - 1].type = "file-xattrs-link"
               /\ \E j \in 1..(i - 1) : a[j] = Object("file-xattrs", XattrOf[a[i].id]) /\ a[j].type = "file-xattrs"
    <2>1. a[i - 1] = XattrsLink(a[i].id, XattrOf[a[i].id])
      BY <1>1 DEF Announced
    <2>2. PICK j \in 1..(i - 1) : a[j] = Object("file-xattrs", XattrOf[a[i].id])
      BY <1>1 DEF Announced
    <2>3. a[i - 1].type = "file-xattrs-link"
      BY <2>1 DEF XattrsLink, Entry
    <2>4. a[j].type = "file-xattrs"
      BY <2>2, ObjectIs
    <2> QED  BY <2>2, <2>3, <2>4
  <1>2. ASSUME a[i].type = "file-xattrs-link" PROVE a[i + 1].type = "file"
    <2>1. a[i + 1] = Object("file", a[i].id)
      BY <1>2 DEF Announced
    <2> QED  BY <2>1, ObjectIs
  <1> QED  BY <1>1, <1>2

\* Detached metadata that is put after the commit, taken away or replaced leaves the content
\* objects announced.
\* Where an entry goes when m entries take the place of the r entries at place 5.
LEMMA Regions ==
    ASSUME NEW n \in Nat, NEW m \in {0, 1}, NEW j \in 1..n
    PROVE  j \in 1..4 \/ (j = 5 /\ m = 1) \/ j \in (5 + m)..n
  OBVIOUS

LEMMA Shifted ==
    ASSUME NEW a, NEW b, NEW m \in {0, 1}, NEW r \in {0, 1},
           Len(a) \in Nat, Len(b) = Len(a) + m - r, Len(a) >= 5 + r,
           \A k \in 1..4 : b[k] = a[k],
           \A k \in 1..4 : a[k].type \notin {"file", "file-xattrs", "file-xattrs-link", "file-xattrs-inline"},
           r = 1 => a[5].type = "commitmeta", m = 1 => b[5].type = "commitmeta",
           a[5 + r].type = "dirmeta",
           \A k \in (5 + m)..Len(b) : b[k] = a[k - m + r],
           Announced(a)
    PROVE  Announced(b)
  <1>1. Len(b) \in Nat /\ m \in Int /\ r \in Int /\ 0 <= m /\ m <= 1 /\ 0 <= r /\ r <= 1
    OBVIOUS
  <1>2. ASSUME NEW j \in 1..Len(b)
        PROVE  \/ j <= 4 /\ b[j].type \notin {"file", "file-xattrs-link", "file-xattrs-inline"}
               \/ j = 5 /\ b[j].type = "commitmeta"
               \/ j >= 5 + m /\ j - m + r \in (5 + r)..Len(a) /\ b[j] = a[j - m + r]
    <2>1. j \in 1..4 \/ (j = 5 /\ m = 1) \/ j \in (5 + m)..Len(b)
      BY <1>1, Regions, Zenon
    <2>2. CASE j \in 1..4
      BY <2>2, SMTT(30)
    <2>3. CASE j = 5 /\ m = 1
      BY <2>3
    <2>4. CASE j \in (5 + m)..Len(b)
      <3>1. b[j] = a[j - m + r]
        BY <2>4
      <3>2. j >= 5 + m /\ j - m + r \in (5 + r)..Len(a)
        BY <1>1, <2>4
      <3> QED  BY <3>1, <3>2
    <2> QED  BY <2>1, <2>2, <2>3, <2>4
  <1>3. \A i \in 1..Len(a) : a[i].type \in {"file", "file-xattrs", "file-xattrs-link"} =>
           i > 5 + r /\ i + m - r \in (5 + m)..Len(b) /\ b[i + m - r] = a[i]
    <2> SUFFICES ASSUME NEW i \in 1..Len(a), a[i].type \in {"file", "file-xattrs", "file-xattrs-link"}
                 PROVE  i > 5 + r /\ i + m - r \in (5 + m)..Len(b) /\ b[i + m - r] = a[i]
      OBVIOUS
    <2>1. i > 5 + r
      <3>1. i \in 1..4 \/ (i = 5 /\ r = 1) \/ i = 5 + r \/ i > 5 + r
        BY <1>1
      <3> QED  BY <3>1
    <2>2. i + m - r \in (5 + m)..Len(b)
      BY <1>1, <2>1
    <2>3. b[i + m - r] = a[(i + m - r) - m + r]
      BY <2>2
    <2>4. (i + m - r) - m + r = i
      OBVIOUS
    <2> QED  BY <2>1, <2>2, <2>3, <2>4
  <1> SUFFICES ASSUME NEW k \in 1..Len(b)
               PROVE  /\ b[k].type # "file-xattrs-inline"
                      /\ b[k].type = "file" =>
                            /\ k > 1 /\ b[k - 1] = XattrsLink(b[k].id, XattrOf[b[k].id])
                            /\ \E j \in 1..(k - 1) : b[j] = Object("file-xattrs", XattrOf[b[k].id])
                      /\ b[k].type = "file-xattrs-link" => k < Len(b) /\ b[k + 1] = Object("file", b[k].id)
                      /\ \A j \in 1..Len(b) :
                            b[j].type = "file" /\ b[k].type = "file" /\ b[j].id = b[k].id => j = k
    BY DEF Announced
  <1>4. CASE k <= 4 \/ (k = 5 /\ b[k].type = "commitmeta")
    BY <1>2, <1>4
  <1>5. ASSUME k >= 5 + m, k - m + r \in (5 + r)..Len(a), b[k] = a[k - m + r]
        PROVE  /\ b[k].type # "file-xattrs-inline"
               /\ b[k].type = "file" =>
                     /\ k > 1 /\ b[k - 1] = XattrsLink(b[k].id, XattrOf[b[k].id])
                     /\ \E j \in 1..(k - 1) : b[j] = Object("file-xattrs", XattrOf[b[k].id])
               /\ b[k].type = "file-xattrs-link" => k < Len(b) /\ b[k + 1] = Object("file", b[k].id)
               /\ \A j \in 1..Len(b) :
                     b[j].type = "file" /\ b[k].type = "file" /\ b[j].id = b[k].id => j = k
    <2> DEFINE i == k - m + r
    <2>1. i \in 1..Len(a) /\ i \in (5 + r)..Len(a) /\ b[k] = a[i] /\ k = i + m - r
      BY <1>5
    <2> HIDE DEF i
    <2>2. /\ a[i].type # "file-xattrs-inline"
          /\ a[i].type = "file" =>
                /\ i > 1 /\ a[i - 1] = XattrsLink(a[i].id, XattrOf[a[i].id])
                /\ \E j \in 1..(i - 1) : a[j] = Object("file-xattrs", XattrOf[a[i].id])
          /\ a[i].type = "file-xattrs-link" => i < Len(a) /\ a[i + 1] = Object("file", a[i].id)
          /\ \A j \in 1..Len(a) : a[j].type = "file" /\ a[i].type = "file" /\ a[j].id = a[i].id => j = i
      BY <2>1 DEF Announced
    <2>3. ASSUME b[k].type = "file"
          PROVE  /\ k > 1 /\ b[k - 1] = XattrsLink(b[k].id, XattrOf[b[k].id])
                 /\ \E j \in 1..(k - 1) : b[j] = Object("file-xattrs", XattrOf[b[k].id])
      <3>1. a[i - 1] = XattrsLink(a[i].id, XattrOf[a[i].id]) /\ i - 1 \in 1..Len(a) /\ i > 5 + r
        BY <1>3, <2>1, <2>2, <2>3
      <3>2. a[i - 1].type = "file-xattrs-link"
        BY <3>1 DEF XattrsLink, Entry
      <3>3. (i - 1) + m - r = k - 1 /\ k > 1
        <4>1. i \in Int
          BY <2>1
        <4>2. (i - 1) + m - r = k - 1
          BY <1>1, <2>1, <4>1, SMTT(30)
        <4>3. k > 1
          BY <1>1, <1>5
        <4> QED  BY <4>2, <4>3
      <3>4. b[k - 1] = a[i - 1]
        BY <1>3, <3>1, <3>2, <3>3
      <3>5. PICK j \in 1..(i - 1) : a[j] = Object("file-xattrs", XattrOf[a[i].id]) /\ a[j].type = "file-xattrs"
        <4>1. a[i].type = "file" /\ i \in 1..Len(a)
          BY <2>1, <2>3
        <4> QED  BY <4>1, AnnouncedTypes, Zenon
      <3>6. a[j].type = "file-xattrs" /\ j \in 1..Len(a) /\ j \in Int /\ j <= i - 1 /\ i \in Int
        <4>1. a[j].type = "file-xattrs"
          BY <3>5
        <4>2. i \in Int /\ i <= Len(a)
          BY <2>1
        <4>3. j \in Int /\ 1 <= j /\ j <= i - 1
          BY <4>2
        <4> QED  BY <4>1, <4>2, <4>3
      <3>7. j + m - r \in (5 + m)..Len(b) /\ b[j + m - r] = a[j]
        BY <1>3, <3>6
      <3>8. j + m - r \in 1..(k - 1)
        BY <1>1, <2>1, <3>6, <3>7
      <3> QED  BY <2>1, <3>1, <3>3, <3>4, <3>5, <3>7, <3>8
    <2>4. ASSUME b[k].type = "file-xattrs-link" PROVE k < Len(b) /\ b[k + 1] = Object("file", b[k].id)
      <3>1. i + 1 \in 1..Len(a) /\ a[i + 1] = Object("file", a[i].id)
        BY <2>1, <2>2, <2>4
      <3>2. a[i + 1].type = "file" /\ (i + 1) + m - r = k + 1
        <4>1. a[i + 1].type = "file"
          BY <2>1, <2>4, AnnouncedTypes
        <4>2. i \in Int
          BY <2>1
        <4>3. (i + 1) + m - r = k + 1
          BY <1>1, <2>1, <4>2, SMTT(30)
        <4> QED  BY <4>1, <4>3
      <3>3. k + 1 \in (5 + m)..Len(b) /\ b[k + 1] = a[i + 1]
        BY <1>3, <3>1, <3>2
      <3> QED  BY <2>1, <3>1, <3>3, SMTT(30)
    <2>5. ASSUME NEW j \in 1..Len(b), b[j].type = "file", b[k].type = "file", b[j].id = b[k].id
          PROVE  j = k
      <3>1. j - m + r \in (5 + r)..Len(a) /\ b[j] = a[j - m + r]
        BY <1>2, <2>5
      <3>2. j - m + r \in 1..Len(a)
        BY <1>1, <3>1
      <3>3. j - m + r = i
        BY <2>1, <2>2, <2>5, <3>1, <3>2
      <3> QED  BY <1>1, <2>1, <3>3
    <2> QED  BY <2>1, <2>2, <2>3, <2>4, <2>5
  <1> QED  BY <1>2, <1>4, <1>5

LEMMA Part ==
    ASSUME NEW S, NEW s \in Seq(S), NEW m \in 1..Len(s), NEW n \in m..Len(s)
    PROVE  /\ SubSeq(s, m, n) \in Seq(S) /\ Len(SubSeq(s, m, n)) = n - m + 1
           /\ \A k \in 1..(n - m + 1) : SubSeq(s, m, n)[k] = s[k + m - 1]
  OBVIOUS

LEMMA TailPlace ==
    ASSUME NEW n \in Nat, NEW m \in {0, 1}, NEW r \in {0, 1}, NEW k \in (5 + m)..(n + m - r)
    PROVE  /\ k \in 1..((4 + m) + (n - (5 + r) + 1)) /\ k > 4 + m
           /\ k - (4 + m) \in 1..(n - (5 + r) + 1)
  OBVIOUS

LEMMA CommitIsFourth ==
    ASSUME ExportInv, export = "done", Mode # "chunk"
    PROVE  (CHOOSE k \in DOMAIN archive :
               archive[k].type = "commit" /\ \A j \in 1..(k - 1) : archive[j].type # "commit") = 4
  <1> DEFINE P(k) == archive[k].type = "commit" /\ \A j \in 1..(k - 1) : archive[j].type # "commit"
             n == CHOOSE k \in DOMAIN archive : P(k)
  <1>1. Headed(archive) /\ archive \in Seq(Entries)
    BY DEF ExportInv, ExportTypes
  <1>2. /\ DOMAIN archive = 1..Len(archive) /\ Len(archive) \in Nat /\ Len(archive) >= 5
        /\ \A k \in 1..3 : archive[k].type # "commit"
        /\ archive[4].type = "commit"
    <2>1. Len(archive) \in Nat /\ DOMAIN archive = 1..Len(archive)
      BY <1>1
    <2>2. Len(archive) >= 5 /\ archive[4] = Object("commit", Commit)
          /\ \A k \in 1..3 : archive[k].type \notin ObjectTypes
      BY <1>1, <2>1 DEF Headed
    <2>3. archive[4].type = "commit"
      BY <2>2, ObjectIs
    <2>4. ASSUME NEW k \in 1..3 PROVE archive[k].type # "commit"
      <3>1. archive[k].type \notin ObjectTypes
        BY <2>2
      <3> QED  BY <3>1 DEF ObjectTypes, MetadataTypes
    <2> QED  BY <2>1, <2>2, <2>3, <2>4
  <1>3. 4 \in DOMAIN archive /\ P(4)
    BY <1>2
  <1>4. n \in DOMAIN archive /\ P(n)
    BY <1>3
  <1> HIDE DEF n
  <1>5. n \in 1..Len(archive) /\ archive[n].type = "commit" /\ \A j \in 1..(n - 1) : archive[j].type # "commit"
    BY <1>2, <1>4
  <1>6. n = 4
    BY <1>2, <1>5
  <1> QED  BY <1>6 DEF n

LEMMA Reinjected ==
    ASSUME ExportInv, NEW signature \in Signatures, Reinject(signature)
    PROVE  LET m == IF signature = "none" THEN 0 ELSE 1
               r == IF detached = "none" THEN 0 ELSE 1
           IN  /\ archive' \in Seq(Entries) /\ Len(archive') = Len(archive) + m - r
               /\ \A k \in 1..4 : archive'[k] = archive[k]
               /\ m = 1 => archive'[5] = CommitMeta(Commit, signature)
               /\ \A k \in (5 + m)..Len(archive') : archive'[k] = archive[k - m + r]
  <1> DEFINE rest == IF archive[5].type = "commitmeta" THEN 6 ELSE 5
             x == Unless(signature = "none", CommitMeta(archive[4].id, signature))
             head == SubSeq(archive, 1, 4)
             tail == SubSeq(archive, rest, Len(archive))
             mid == head \o x
             m == IF signature = "none" THEN 0 ELSE 1
             r == IF detached = "none" THEN 0 ELSE 1
  <1>1. export = "done" /\ Mode # "chunk" /\ detached' = signature /\ UNCHANGED <<plan, part, todo, wrote, export>>
    BY DEF Reinject
  <1>2. archive' = mid \o tail
    <2> DEFINE n == CHOOSE k \in DOMAIN archive :
                       archive[k].type = "commit" /\ \A j \in 1..(k - 1) : archive[j].type # "commit"
    <2>1. archive' = SubSeq(archive, 1, n) \o Unless(signature = "none", CommitMeta(archive[n].id, signature))
                     \o SubSeq(archive, IF archive[n + 1].type = "commitmeta" THEN n + 2 ELSE n + 1, Len(archive))
      BY Zenon DEF Reinject
    <2>2. n = 4
      BY <1>1, CommitIsFourth
    <2> HIDE DEF n
    <2>3. n + 1 = 5 /\ n + 2 = 6
      BY <2>2
    <2> QED  BY <2>1, <2>2, <2>3, Zenon
  <1>3. Headed(archive) /\ archive \in Seq(Entries) /\ Len(archive) \in Nat /\ detached \in Signatures
        /\ Announced(archive) /\ ExportTypes
    BY <1>1 DEF ExportInv, ExportTypes
  <1>4. /\ Len(archive) >= 5 + r /\ archive[4] = Object("commit", Commit)
        /\ \A k \in 1..3 : archive[k].type \notin ObjectTypes
        /\ archive[5 + r] = Object("dirmeta", RootMeta)
        /\ r = 1 => archive[5] = CommitMeta(Commit, detached)
        /\ \A k \in 6..Len(archive) : archive[k].type \in LaterTypes
    BY <1>1, <1>3 DEF Headed
  <1>5. archive[4].type = "commit" /\ archive[4].id = Commit /\ archive[5 + r].type = "dirmeta"
    BY <1>4, ObjectIs
  <1>6. r = 1 => archive[5].type = "commitmeta"
    BY <1>4 DEF CommitMeta, Entry
  <1>7. rest = 5 + r
    BY <1>5, <1>6
  <1>8. (signature = "none" => x = <<>>) /\ (signature # "none" => x = <<CommitMeta(Commit, signature)>>)
    BY <1>5 DEF Unless
  <1>9. m \in {0, 1} /\ r \in {0, 1} /\ (m = 1 <=> signature # "none") /\ (r = 1 <=> detached # "none")
    OBVIOUS
  <1>10. signature # "none" => CommitMeta(Commit, signature) \in Entries /\ CommitMeta(Commit, signature).type = "commitmeta"
    BY TreeAssumption, MadeEntries DEF Signatures, CommitMeta, Entry
  <1> DEFINE cm == CommitMeta(Commit, signature)
  <1> HIDE DEF rest, x, m, r, cm
  <1>11. /\ head \in Seq(Entries) /\ Len(head) = 4
         /\ \A k \in 1..4 : head[k] = archive[k]
    <2>1. 1 \in 1..Len(archive) /\ 4 \in 1..Len(archive)
      BY <1>3, <1>4, <1>9
    <2>2. /\ head \in Seq(Entries) /\ Len(head) = 4 - 1 + 1
          /\ \A k \in 1..(4 - 1 + 1) : head[k] = archive[k + 1 - 1]
      BY <1>3, <2>1, Part
    <2> QED  BY <2>2
  <1>12. /\ tail \in Seq(Entries) /\ Len(tail) = Len(archive) - (5 + r) + 1
         /\ \A k \in 1..Len(tail) : tail[k] = archive[k + (5 + r) - 1]
    <2>1. rest \in 1..Len(archive) /\ Len(archive) \in rest..Len(archive)
      BY <1>3, <1>4, <1>7, <1>9
    <2>2. /\ tail \in Seq(Entries) /\ Len(tail) = Len(archive) - rest + 1
          /\ \A k \in 1..(Len(archive) - rest + 1) : tail[k] = archive[k + rest - 1]
      BY <1>3, <2>1, Part
    <2> HIDE DEF tail
    <2> QED  BY <1>7, <2>2
  <1> HIDE DEF head, tail
  <1>13. /\ mid \in Seq(Entries) /\ Len(mid) = 4 + m
         /\ \A k \in 1..4 : mid[k] = archive[k]
         /\ m = 1 => mid[5] = cm
    <2>1. CASE m = 0
      <3>1. x = <<>>
        BY <1>8, <1>9, <2>1
      <3>2. mid = head
        BY <1>11, <3>1
      <3> QED  BY <1>11, <2>1, <3>2
    <2>2. CASE m = 1
      <3>1. x = <<cm>> /\ cm \in Entries
        BY <1>8, <1>9, <1>10, <2>2 DEF cm
      <3>2. /\ mid \in Seq(Entries) /\ Len(mid) = Len(head) + 1
            /\ \A k \in 1..Len(head) : mid[k] = head[k]
            /\ mid[Len(head) + 1] = cm
        <4>1. mid = head \o <<cm>>
          BY <3>1
        <4>2. <<cm>> \in Seq(Entries) /\ Len(<<cm>>) = 1 /\ <<cm>>[1] = cm
          BY <3>1
        <4> DEFINE one == <<cm>>
        <4> HIDE DEF mid, one
        <4>3. one \in Seq(Entries) /\ Len(one) = 1 /\ one[1] = cm
          BY <4>2 DEF one
        <4>4. /\ mid \in Seq(Entries) /\ Len(mid) = Len(head) + Len(one)
              /\ \A k \in 1..Len(head) : mid[k] = head[k]
              /\ \A k \in 1..Len(one) : mid[Len(head) + k] = one[k]
          <5>1. mid = head \o one
            BY <4>1 DEF one
          <5>2. /\ head \o one \in Seq(Entries) /\ Len(head \o one) = Len(head) + Len(one)
                /\ \A k \in 1..Len(head) : (head \o one)[k] = head[k]
                /\ \A k \in 1..Len(one) : (head \o one)[Len(head) + k] = one[k]
            <6>1. head \in Seq(Entries) /\ one \in Seq(Entries)
              BY <1>11, <4>3
            <6> QED  BY <6>1, Joined
          <5> QED  BY <5>1, <5>2, Zenon
        <4> QED  BY <4>3, <4>4
      <3> QED  BY <1>11, <2>2, <3>2
    <2> QED  BY <1>9, <2>1, <2>2
  <1> HIDE DEF mid
  <1> DEFINE b == mid \o tail
  <1>14. /\ b \in Seq(Entries) /\ Len(b) = Len(mid) + Len(tail)
         /\ \A k \in 1..Len(mid) : b[k] = mid[k]
         /\ \A k \in 1..(Len(mid) + Len(tail)) : k > Len(mid) => b[k] = tail[k - Len(mid)]
    <2>1. mid \in Seq(Entries) /\ tail \in Seq(Entries)
      BY <1>12, <1>13
    <2> QED  BY <2>1, Joined
  <1> HIDE DEF b
  <1>15. Len(b) = Len(archive) + m - r
    BY <1>3, <1>9, <1>12, <1>13, <1>14
  <1>16. (\A k \in 1..4 : b[k] = archive[k]) /\ (m = 1 => b[5] = cm)
    <2>1. Len(mid) = 4 + m
      BY <1>13
    <2>2. (\A k \in 1..4 : k \in 1..(4 + m)) /\ (m = 1 => 5 \in 1..(4 + m))
      BY <1>9
    <2>3. \A k \in 1..(4 + m) : b[k] = mid[k]
      BY <1>14, <2>1
    <2> QED  BY <1>13, <2>2, <2>3
  <1>17. ASSUME NEW k \in (5 + m)..Len(b) PROVE b[k] = archive[k - m + r]
    <2>1. k \in 1..(Len(mid) + Len(tail)) /\ k > Len(mid) /\ k - Len(mid) \in 1..Len(tail)
      <3>1. Len(mid) = 4 + m /\ Len(tail) = Len(archive) - (5 + r) + 1 /\ k \in (5 + m)..(Len(archive) + m - r)
        BY <1>12, <1>13, <1>15
      <3>2. /\ k \in 1..((4 + m) + (Len(archive) - (5 + r) + 1)) /\ k > 4 + m
            /\ k - (4 + m) \in 1..(Len(archive) - (5 + r) + 1)
        BY <1>3, <1>9, <3>1, TailPlace, Zenon
      <3> QED  BY <3>1, <3>2, Zenon
    <2>2. b[k] = tail[k - Len(mid)] /\ tail[k - Len(mid)] = archive[(k - Len(mid)) + (5 + r) - 1]
      BY <1>12, <1>14, <2>1
    <2>3. (k - Len(mid)) + (5 + r) - 1 = k - m + r
      BY <1>9, <1>13, <2>1
    <2> QED  BY <2>2, <2>3
  <1>18. archive' = b
    BY <1>2 DEF b
  <1> QED  BY <1>14, <1>15, <1>16, <1>17, <1>18, Zenon DEF cm, m, r

LEMMA ReinjectKeeps ==
    ASSUME ExportInv, NEW signature \in Signatures, Reinject(signature)
    PROVE  ExportInv'
  <1> DEFINE m == IF signature = "none" THEN 0 ELSE 1
             r == IF detached = "none" THEN 0 ELSE 1
             cm == CommitMeta(Commit, signature)
             b == archive'
  <1>1. export = "done" /\ Mode # "chunk" /\ detached' = signature /\ UNCHANGED <<plan, part, todo, wrote, export>>
    BY DEF Reinject
  <1>2. /\ b \in Seq(Entries) /\ Len(b) = Len(archive) + m - r
        /\ \A k \in 1..4 : b[k] = archive[k]
        /\ m = 1 => b[5] = cm
        /\ \A k \in (5 + m)..Len(b) : b[k] = archive[k - m + r]
    BY Reinjected, Zenon
  <1>3. Headed(archive) /\ archive \in Seq(Entries) /\ Len(archive) \in Nat /\ detached \in Signatures
        /\ Announced(archive) /\ ExportTypes
    BY <1>1 DEF ExportInv, ExportTypes
  <1>4. /\ Len(archive) >= 5 + r /\ archive[4] = Object("commit", Commit)
        /\ \A k \in 1..3 : archive[k].type \notin ObjectTypes
        /\ archive[5 + r] = Object("dirmeta", RootMeta)
        /\ r = 1 => archive[5] = CommitMeta(Commit, detached)
        /\ \A k \in 6..Len(archive) : archive[k].type \in LaterTypes
    BY <1>1, <1>3 DEF Headed
  <1>5. archive[4].type = "commit" /\ archive[4].id = Commit /\ archive[5 + r].type = "dirmeta"
    BY <1>4, ObjectIs
  <1>6. r = 1 => archive[5].type = "commitmeta"
    BY <1>4 DEF CommitMeta, Entry
  <1>9. m \in {0, 1} /\ r \in {0, 1} /\ (m = 1 <=> signature # "none") /\ (r = 1 <=> detached # "none")
    OBVIOUS
  <1>10. signature # "none" => CommitMeta(Commit, signature) \in Entries /\ CommitMeta(Commit, signature).type = "commitmeta"
    BY TreeAssumption, MadeEntries DEF Signatures, CommitMeta, Entry
  <1> HIDE DEF m, r, cm, b
  <1>14. b \in Seq(Entries)
    BY <1>2
  <1>15. Len(b) = Len(archive) + m - r
    BY <1>2
  <1>16. (\A k \in 1..4 : b[k] = archive[k]) /\ (m = 1 => b[5] = cm)
    BY <1>2
  <1>17. ASSUME NEW k \in (5 + m)..Len(b) PROVE b[k] = archive[k - m + r]
    BY <1>2
  <1>18. Announced(b)
    <2>1. \A k \in 1..4 : archive[k].type \notin {"file", "file-xattrs", "file-xattrs-link", "file-xattrs-inline"}
      BY <1>4, <1>5 DEF ObjectTypes, MetadataTypes
    <2>2. m = 1 => b[5].type = "commitmeta"
      BY <1>9, <1>10, <1>16 DEF cm
    <2>3. /\ m \in {0, 1} /\ r \in {0, 1} /\ Len(archive) \in Nat /\ Len(b) = Len(archive) + m - r
          /\ Len(archive) >= 5 + r
      BY <1>3, <1>4, <1>9, <1>15
    <2>4. (\A k \in 1..4 : b[k] = archive[k]) /\ \A k \in (5 + m)..Len(b) : b[k] = archive[k - m + r]
      BY <1>16, <1>17
    <2> QED  BY <1>3, <1>5, <1>6, <2>1, <2>2, <2>3, <2>4, Shifted, Zenon
  <1>19. Headed(archive)'
    <2>1. archive' = b /\ Mode' # "chunk" /\ detached' = signature
      BY <1>1 DEF b, Mode
    <2>2. Len(b) >= 5 + m /\ b[4] = Object("commit", Commit) /\ \A k \in 1..3 : b[k].type \notin ObjectTypes
      <3>1. Len(b) >= 5 + m
        BY <1>3, <1>4, <1>9, <1>15
      <3>2. 4 \in 1..4 /\ \A k \in 1..3 : k \in 1..4
        OBVIOUS
      <3> QED  BY <1>4, <1>16, <3>1, <3>2, Zenon
    <2>3. b[5 + m] = Object("dirmeta", RootMeta)
      <3>1. 5 + m \in (5 + m)..Len(b)
        BY <1>9, <1>14, <2>2
      <3>2. b[5 + m] = archive[(5 + m) - m + r] /\ (5 + m) - m + r = 5 + r
        BY <1>9, <1>17, <3>1
      <3> QED  BY <1>4, <3>2
    <2>4. ASSUME NEW k \in 6..Len(b) PROVE b[k].type \in LaterTypes
      <3>1. k \in (5 + m)..Len(b) /\ k - m + r \in (5 + r)..Len(archive)
        BY <1>3, <1>9, <1>15
      <3>2. b[k] = archive[k - m + r]
        BY <1>17, <3>1
      <3>3. CASE k - m + r \in 6..Len(archive)
        BY <1>4, <3>2, <3>3
      <3>4. CASE k - m + r = 5 /\ r = 0
        BY <1>5, <3>2, <3>4 DEF LaterTypes
      <3> QED  BY <1>9, <3>1, <3>3, <3>4
    <2> QED  BY <1>9, <1>16, <2>1, <2>2, <2>3, <2>4 DEF Headed, cm, m
  <1>20. ExportTypes'
    BY <1>1, <1>3, <1>14 DEF ExportTypes, b
  <1>21. Announced(archive)'
    BY <1>18 DEF Announced, b
  <1> QED  BY <1>1, <1>19, <1>20, <1>21 DEF ExportInv

-----------------------------------------------------------------------------
(***************************************************************************)
(* The importer.  What it has read of the archive at hand:                 *)
(***************************************************************************)
FilesBefore(n) == {archive[k].id : k \in {j \in 1..(n - 1) : archive[j].type = "file"}}

ImportTypes ==
    /\ TypeOK
    /\ nextXattrs \in Seq([file : Contents, xattrs : Xattrs])
    /\ import # "idle" => export \in {"done", "cut", "foreign"}
    /\ request.mode = "set" => import \notin {"first", "second", "clear"}
    /\ request.mode = "tar" /\ import = "clear" => staged = {} /\ stagedMeta = "none"

\* a remote's import goes past the second object only with the commit's own good signature;
VerifiedInv ==
    /\ import = "second" => \E j \in 1..(pos - 1) : archive[j] = Object("commit", commit)
    /\ request.remote /\ import \in {"objects", "clear", "commit"} => Signed

\* an object set is what was read so far, and it is stored or staged;
SetInv ==
    /\ \A s \in sets : \A c \in s : <<"file", c>> \in objs
    /\ request.mode = "set" /\ import \in {"objects", "commit", "done"} =>
          /\ objset = FilesBefore(pos)
          /\ \A c \in objset : <<"file", c>> \in objs \cup staged
          /\ import \in {"commit", "done"} => pos = Len(archive) + 1
          /\ import = "done" => objset \in sets

(***************************************************************************)
(* and with an archive of the exporter, the importer is in step with it:   *)
(* it has read the commit when it expects the second object, the announced *)
(* content object is the next entry, and the extended attributes that were *)
(* read are cached.                                                        *)
(***************************************************************************)
InStep ==
    /\ request.mode = "set" <=> Mode = "chunk"
    /\ import = "first" => pos <= 4 /\ nextXattrs = <<>>
    /\ import = "second" => pos = 5 /\ nextXattrs = <<>> /\ commit = Commit
    /\ import = "objects" =>
          /\ request.mode # "set" => pos >= 6
          /\ IF pos > 1 /\ archive[pos - 1].type = "file-xattrs-link"
             THEN nextXattrs = <<[file |-> archive[pos - 1].id, xattrs |-> archive[pos - 1].ref]>>
             ELSE nextXattrs = <<>>
          /\ \A k \in 1..(pos - 1) : archive[k].type = "file-xattrs" => archive[k].id \in xattrs
    /\ import = "refused" => request.remote /\ detached # "good"

StreamInv ==
    /\ ExportInv /\ ImportTypes /\ VerifiedInv /\ SetInv
    /\ import # "idle" /\ export = "done" => InStep

-----------------------------------------------------------------------------
(***************************************************************************)
(* The archives of the exporter keep their form.                           *)
(***************************************************************************)
LEMMA ExportBegins == Init => ExportInv
  <1> SUFFICES ASSUME Init PROVE ExportInv
    OBVIOUS
  <1>1. plan \in Plans /\ part = 1 /\ detached \in Signatures /\ export = "idle" /\ wrote = NothingWritten
        /\ archive = <<>> /\ todo = <<>>
    BY DEF Init, ExportInit, Signatures
  <1>2. 1 \in 1..Len(plan)
    BY <1>1, PlansAssumption
  <1>3. archive \in Seq(Entries) /\ todo \in Seq(Tasks)
    BY <1>1
  <1>4. wrote \in [dirtree : SUBSET Trees, dirmeta : SUBSET Metas, content : SUBSET Contents,
                   xattrs : SUBSET Xattrs, vartmp : BOOLEAN]
    BY <1>1 DEF NothingWritten
  <1> QED  BY <1>1, <1>2, <1>3, <1>4 DEF ExportInv, ExportTypes

LEMMA Prefix ==
    ASSUME NEW S, NEW s \in Seq(S), NEW n \in 0..Len(s)
    PROVE  SubSeq(s, 1, n) \in Seq(S)
  OBVIOUS

LEMMA ExportKeeps ==
    ASSUME ExportInv, [Next]_vars
    PROVE  ExportInv'
  <1>1. CASE Export
    <2>1. ExportStep
      BY <1>1 DEF Export
    <2> QED  BY <2>1, StartKeeps, DirtreeKeeps, SubdirKeeps, FileKeeps, SymlinkKeeps, VarKeeps, ChunkKeeps,
                FinishKeeps DEF ExportStep
  <1>2. CASE ReplaceMetadata
    <2>1. PICK s \in Signatures : Reinject(s)
      BY <1>2 DEF ReplaceMetadata, Signatures
    <2> QED  BY <2>1, ReinjectKeeps
  <1>3. CASE Truncate
    <2>1. PICK n \in 0..(Len(archive) - 1) : Cut(n)
      BY <1>3 DEF Truncate
    <2>2. archive' = SubSeq(archive, 1, n) /\ export' = "cut" /\ UNCHANGED <<plan, part, detached, todo, wrote>>
      BY <2>1 DEF Cut
    <2>3. archive \in Seq(Entries) /\ n \in 0..Len(archive)
      BY DEF ExportInv, ExportTypes
    <2>4. archive' \in Seq(Entries)
      BY <2>2, <2>3, Prefix
    <2> QED  BY <2>2, <2>4 DEF ExportInv, ExportTypes
  <1>4. CASE ExportAgain
    <2>1. export' = "idle" /\ archive' = <<>> /\ todo' = <<>> /\ wrote' = NothingWritten /\ UNCHANGED <<plan, part, detached>>
      BY <1>4 DEF ExportAgain
    <2>2. archive' \in Seq(Entries) /\ todo' \in Seq(Tasks)
      BY <2>1
    <2>3. wrote' \in [dirtree : SUBSET Trees, dirmeta : SUBSET Metas, content : SUBSET Contents,
                     xattrs : SUBSET Xattrs, vartmp : BOOLEAN]
      BY <2>1 DEF NothingWritten
    <2> QED  BY <2>1, <2>2, <2>3 DEF ExportInv, ExportTypes
  <1>5. CASE \E a \in Foreign : Receive(a)
    BY <1>5, ForeignAssumption DEF Receive, ExportInv, ExportTypes
  <1>6. CASE NextPart
    <2>1. export' = "idle" /\ archive' = <<>> /\ part' = part + 1 /\ part < Len(plan) /\ UNCHANGED <<plan, detached, todo, wrote>>
      BY <1>6 DEF NextPart
    <2>2. part' \in 1..Len(plan)
      <3>1. plan \in Seq(Archives) /\ part \in 1..Len(plan)
        BY PlansAssumption DEF ExportInv, ExportTypes
      <3> QED  BY <2>1, <3>1
    <2>3. archive' \in Seq(Entries)
      BY <2>1
    <2> QED  BY <2>1, <2>2, <2>3 DEF ExportInv, ExportTypes
  <1>7. CASE Resend
    <2>1. export' = "idle" /\ archive' = <<>> /\ UNCHANGED <<plan, part, detached, todo, wrote>>
      BY <1>7 DEF Resend
    <2>2. archive' \in Seq(Entries)
      BY <2>1
    <2> QED  BY <2>1, <2>2 DEF ExportInv, ExportTypes
  <1>8. ASSUME UNCHANGED exportVars PROVE ExportInv'
    BY <1>8 DEF exportVars, ExportInv, ExportTypes, Announced, Headed, Recorded, Mode
  <1>9. CASE Import \/ Read \/ Crash \/ ImportAgain \/ UNCHANGED vars
    BY <1>8, <1>9 DEF Import, Read, Crash, ImportAgain, vars
  <1> QED  BY <1>1, <1>2, <1>3, <1>4, <1>5, <1>6, <1>7, <1>9 DEF Next

-----------------------------------------------------------------------------
(***************************************************************************)
(* The types of the importer's variables.                                  *)
(***************************************************************************)
LEMMA AtEntry ==
    ASSUME ExportInv, ImportTypes, Reading, HasEntry
    PROVE  /\ Len(archive) \in Nat /\ pos \in 1..Len(archive) /\ Current \in Entries
           /\ pos + 1 \in 1..(Len(archive) + 1)
  <1>1. archive \in Seq(Entries) /\ Len(archive) \in Nat
    BY DEF ExportInv, ExportTypes
  <1>2. pos \in 1..(Len(archive) + 1) /\ pos <= Len(archive)
    BY DEF ImportTypes, TypeOK, Reading, HasEntry
  <1>3. pos \in 1..Len(archive) /\ pos + 1 \in 1..(Len(archive) + 1)
    BY <1>1, <1>2
  <1> QED  BY <1>1, <1>3, Element DEF Current

LEMMA MadeObjects ==
    ASSUME NEW e \in Entries
    PROVE  /\ e.type \in {"commit", "dirtree", "dirmeta", "file"} => <<e.type, e.id>> \in Objects
           /\ e.type = "file" => <<"file", e.id>> \in Objects
           /\ \A c \in Commits : <<"commit", c>> \in Objects
  BY EntryIs DEF Objects

LEMMA ImportTypesBegin == Init => ImportTypes
  <1> SUFFICES ASSUME Init PROVE ImportTypes
    OBVIOUS
  <1>1. ExportTypes
    BY ExportBegins DEF ExportInv
  <1>2. objs \subseteq Objects
    BY ImportAssumption DEF Init, ImportInit, Objects
  <1>3. request \in ImportRequests
    BY DEF Init, ImportInit, NoRequest, ImportRequests
  <1>4. meta \in [Commits -> Signatures] /\ stagedMeta \in Signatures
    BY DEF Init, ImportInit, Signatures
  <1>5. nextXattrs \in Seq([file : Contents, xattrs : Xattrs]) /\ Len(nextXattrs) <= 1
    BY DEF Init, ImportInit
  <1>6. request.mode = "set" => import \notin {"first", "second", "clear"}
    BY DEF Init, ImportInit
  <1>7. /\ import = "idle" /\ commit \in Commits /\ objset = {} /\ xattrs = {} /\ staged = {} /\ stagedMeta = "none"
        /\ sets = {} /\ partial = {} /\ torn = FALSE /\ faults \in 0..MaxFaults
    BY TreeAssumption, ImportAssumption DEF Init, ImportInit
  <1> QED  BY <1>1, <1>2, <1>3, <1>4, <1>5, <1>6, <1>7 DEF ImportTypes, TypeOK, ExportTypes

\* The steps of the exporter, and those that drop the importer.
LEMMA IdleTypes ==
    ASSUME ExportInv', ImportTypes, import' = "idle", UNCHANGED <<meta, sets, partial>>,
           objs' \subseteq Objects, torn' \in BOOLEAN, faults' \in 0..MaxFaults,
           staged' = {}, stagedMeta' = "none",
           Drop \/ UNCHANGED <<request, importer>>
    PROVE  ImportTypes'
  <1>1. request' \in ImportRequests
    <2>1. NoRequest \in ImportRequests
      BY DEF NoRequest, ImportRequests
    <2> QED  BY <2>1 DEF Drop, ImportTypes, TypeOK
  <1>2. commit' \in Commits /\ objset' \subseteq Contents /\ xattrs' \subseteq Xattrs
    BY TreeAssumption DEF Drop, importer, ImportTypes, TypeOK
  <1>3. nextXattrs' \in Seq([file : Contents, xattrs : Xattrs]) /\ Len(nextXattrs') <= 1
    <2>1. CASE nextXattrs' = <<>>
      BY <2>1
    <2>2. CASE nextXattrs' = nextXattrs
      BY <2>2 DEF ImportTypes, TypeOK
    <2> QED  BY <2>1, <2>2 DEF Drop, importer
  <1>4. stagedMeta' \in Signatures
    BY DEF Signatures
  <1> QED  BY <1>1, <1>2, <1>3, <1>4 DEF ExportInv, ExportTypes, ImportTypes, TypeOK

\* The steps that read an entry.
LEMMA ReadTypes ==
    ASSUME ExportInv', ImportTypes, UNCHANGED exportVars, UNCHANGED <<request, objs, meta, sets, torn, faults>>,
           Reading, import' \in {"first", "second", "objects"},
           request.mode = "set" => import' = "objects",
           pos' \in 1..(Len(archive) + 1),
           commit' \in Commits, objset' \subseteq Contents, xattrs' \subseteq Xattrs,
           nextXattrs' \in Seq([file : Contents, xattrs : Xattrs]), Len(nextXattrs') <= 1,
           staged' \subseteq Objects, stagedMeta' \in Signatures, partial' \subseteq Commits
    PROVE  ImportTypes'
  BY DEF ExportInv, ExportTypes, ImportTypes, TypeOK, Reading, exportVars

LEMMA ReadKeepsTypes ==
    ASSUME ExportInv, ExportInv', ImportTypes, UNCHANGED exportVars,
           FilterEntry \/ ReadCommit \/ WriteCommit \/ ImportMetadata \/ CacheXattrs \/ ProcessXattrsLink \/ ImportContent
    PROVE  ImportTypes'
  <1>1. Reading /\ HasEntry /\ pos' = pos + 1 /\ UNCHANGED <<request, objs, meta, sets, torn, faults>>
    BY DEF Reading, FilterEntry, ReadCommit, WriteCommit, ImportMetadata, CacheXattrs, ProcessXattrsLink,
           ImportContent, repo
  <1>2. Current \in Entries /\ pos' \in 1..(Len(archive) + 1)
    BY <1>1, AtEntry
  <1>3. import' \in {"first", "second", "objects"} /\ (request.mode = "set" => import' = "objects")
    BY <1>1 DEF Reading, FilterEntry, ReadCommit, WriteCommit, ImportMetadata, CacheXattrs, ProcessXattrsLink,
                ImportContent, ImportTypes
  <1>4. commit' \in Commits /\ objset' \subseteq Contents
    BY <1>2, EntryIs DEF FilterEntry, ReadCommit, WriteCommit, ImportMetadata, CacheXattrs, ProcessXattrsLink,
                         ImportContent, ImportTypes, TypeOK
  <1>5. xattrs' \subseteq Xattrs
    BY <1>2, EntryIs DEF FilterEntry, ReadCommit, WriteCommit, ImportMetadata, CacheXattrs, ProcessXattrsLink,
                         ImportContent, ImportTypes, TypeOK
  <1>6. nextXattrs' \in Seq([file : Contents, xattrs : Xattrs]) /\ Len(nextXattrs') <= 1
    <2>1. CASE nextXattrs' = nextXattrs
      BY <2>1 DEF ImportTypes, TypeOK
    <2>2. CASE nextXattrs' = <<>>
      BY <2>2
    <2>3. CASE nextXattrs' = <<[file |-> Current.id, xattrs |-> Current.ref]>> /\ IsXattrsLink(Current)
      <3>1. [file |-> Current.id, xattrs |-> Current.ref] \in [file : Contents, xattrs : Xattrs]
        BY <1>2, <2>3, EntryIs
      <3> QED  BY <2>3, <3>1
    <2> QED  BY <2>1, <2>2, <2>3 DEF FilterEntry, ReadCommit, WriteCommit, ImportMetadata, CacheXattrs,
                                     ProcessXattrsLink, ImportContent
  <1>7. staged' \subseteq Objects
    <2>1. CASE WriteCommit
      <3>1. Current.type = "commitmeta" \/ Current.type \in {"dirtree", "dirmeta"}
        BY <2>1 DEF WriteCommit, Verified, Unverified
      <3>2. <<"commit", commit>> \in Objects /\ (Current.type # "commitmeta" => <<Current.type, Current.id>> \in Objects)
        BY <1>2, <3>1, MadeObjects DEF ImportTypes, TypeOK
      <3> QED  BY <2>1, <3>2 DEF WriteCommit, ImportTypes, TypeOK
    <2>2. CASE ImportMetadata
      <3>1. <<Current.type, Current.id>> \in Objects
        BY <1>2, <2>2, MadeObjects DEF ImportMetadata, MetadataAllowed
      <3> QED  BY <2>2, <3>1 DEF ImportMetadata, ImportTypes, TypeOK
    <2>3. CASE ImportContent
      <3>1. <<"file", Current.id>> \in Objects
        BY <1>2, <2>3, MadeObjects DEF ImportContent
      <3> QED  BY <2>3, <3>1 DEF ImportContent, ImportTypes, TypeOK
    <2>4. CASE UNCHANGED staged
      BY <2>4 DEF ImportTypes, TypeOK
    <2> QED  BY <2>1, <2>2, <2>3, <2>4 DEF FilterEntry, ReadCommit, CacheXattrs, ProcessXattrsLink, txn
  <1>8. stagedMeta' \in Signatures /\ partial' \subseteq Commits
    <2>1. CASE WriteCommit
      <3>1. Current.type = "commitmeta" => Current.ref \in Signatures
        BY <1>2, EntryIs DEF Signatures
      <3> QED  BY <2>1, <3>1 DEF WriteCommit, ImportTypes, TypeOK
    <2>2. CASE UNCHANGED <<stagedMeta, partial>>
      BY <2>2 DEF ImportTypes, TypeOK
    <2> QED  BY <2>1, <2>2 DEF FilterEntry, ReadCommit, ImportMetadata, CacheXattrs, ProcessXattrsLink, ImportContent,
                               txn, repo
  <1> QED  BY <1>1, <1>2, <1>3, <1>4, <1>5, <1>6, <1>7, <1>8, ReadTypes

LEMMA TypesKeep ==
    ASSUME ExportInv, ExportInv', ImportTypes, [Next]_vars
    PROVE  ImportTypes'
  <1> USE DEF ImportTypes, TypeOK
  <1>1. CASE Export \/ ReplaceMetadata \/ ExportAgain \/ \E a \in Foreign : Receive(a)
    <2>1. import = "idle" /\ UNCHANGED importVars
      BY <1>1 DEF Export, ReplaceMetadata, ExportAgain, Receive
    <2> QED  BY <2>1, IdleTypes DEF importVars, txn, repo
  <1>2. CASE Truncate
    <2>1. import = "idle" /\ faults < MaxFaults /\ faults' = faults + 1
          /\ UNCHANGED <<import, request, importer, txn, objs, meta, sets, partial, torn>>
      BY <1>2 DEF Truncate
    <2>2. faults' \in 0..MaxFaults
      BY <2>1, ImportAssumption
    <2> QED  BY <2>1, <2>2, IdleTypes DEF txn
  <1>3. CASE Import
    <2>1. PICK r \in ImportRequests : BeginImport(r) /\ UNCHANGED exportVars /\ export \in {"done", "cut", "foreign"}
      BY <1>3 DEF Import
    <2>2. Len(archive) \in Nat
      BY DEF ExportInv, ExportTypes
    <2>3. nextXattrs' \in Seq([file : Contents, xattrs : Xattrs]) /\ Len(nextXattrs') <= 1
      BY <2>1 DEF BeginImport
    <2>4. /\ request' \in ImportRequests /\ pos' \in 1..(Len(archive') + 1) /\ commit' \in Commits
          /\ objset' \subseteq Contents /\ xattrs' \subseteq Xattrs /\ staged' \subseteq Objects
          /\ import' \in {"first", "objects"} /\ (request'.mode = "set" => import' = "objects")
      BY <2>1, <2>2 DEF BeginImport, exportVars
    <2>5. stagedMeta' \in Signatures /\ UNCHANGED <<repo, export>>
      BY <2>1 DEF BeginImport, Signatures, exportVars
    <2> QED  BY <2>1, <2>3, <2>4, <2>5 DEF repo, ExportInv, ExportTypes
  <1>4. CASE Read
    <2>1. ImportStep /\ UNCHANGED exportVars
      BY <1>4 DEF Read
    <2>2. CASE FilterEntry \/ ReadCommit \/ WriteCommit \/ ImportMetadata \/ CacheXattrs \/ ProcessXattrsLink \/ ImportContent
      BY <2>1, <2>2, ReadKeepsTypes
    <2>3. CASE RefuseEntry \/ RefuseEnd
      <3>1. /\ import \in {"first", "second", "objects"} /\ import' = "refused" /\ staged' = {} /\ stagedMeta' = "none"
            /\ UNCHANGED <<request, importer, objs, meta, sets, faults, torn>>
        BY <2>3 DEF RefuseEntry, RefuseEnd, AbortTransaction, Reading
      <3>2. partial' \subseteq Commits
        BY <2>3 DEF RefuseEntry, RefuseEnd
      <3>3. stagedMeta' \in Signatures
        BY <3>1 DEF Signatures
      <3> QED  BY <2>1, <3>1, <3>2, <3>3 DEF importer, exportVars
    <2>4. CASE EndOfArchive
      BY <2>1, <2>4 DEF EndOfArchive, exportVars, importer, txn, repo
    <2>5. CASE CommitTransaction
      <3>1. meta' \in [Commits -> Signatures]
        BY <2>5 DEF CommitTransaction
      <3>2. stagedMeta' \in Signatures
        BY <2>5 DEF CommitTransaction, Signatures
      <3> QED  BY <2>1, <2>5, <3>1, <3>2 DEF CommitTransaction, exportVars, importer
    <2>6. CASE ClearPartial
      BY <2>1, <2>6 DEF ClearPartial, exportVars, importer, txn
    <2> QED  BY <2>1, <2>2, <2>3, <2>4, <2>5, <2>6 DEF ImportStep
  <1>5. CASE Crash
    <2>1. /\ import' = "idle" /\ Drop /\ staged' = {} /\ stagedMeta' = "none" /\ torn' \in BOOLEAN
          /\ UNCHANGED <<meta, sets, partial>>
      BY <1>5 DEF Crash, Interrupt, InterruptCommit
    <2>2. objs' \subseteq Objects /\ faults' \in 0..MaxFaults
      BY <1>5, ImportAssumption DEF Crash, Interrupt, InterruptCommit
    <2> QED  BY <2>1, <2>2, IdleTypes
  <1>6. CASE ImportAgain \/ NextPart \/ Resend
    <2>1. import \in {"done", "refused"} /\ import' = "idle" /\ Drop /\ UNCHANGED <<txn, repo>>
      BY <1>6 DEF ImportAgain, NextPart, Resend
    <2> QED  BY <2>1, IdleTypes DEF txn, repo
  <1>7. CASE UNCHANGED vars
    BY <1>7 DEF vars, exportVars, importVars, importer, txn, repo
  <1> QED  BY <1>1, <1>2, <1>3, <1>4, <1>5, <1>6, <1>7 DEF Next

-----------------------------------------------------------------------------
(***************************************************************************)
(* A step drops the importer or leaves it idle, begins an import, or is a  *)
(* step of the importer.                                                   *)
(***************************************************************************)
Begins ==
    \E r \in ImportRequests :
        /\ export = "foreign" \/ (r.mode = "set" <=> Mode = "chunk")
        /\ BeginImport(r)

LEMMA StepKinds ==
    ASSUME ImportTypes, [Next]_vars
    PROVE  \/ import' = "idle" /\ UNCHANGED sets /\ objs \subseteq objs'
           \/ Begins /\ UNCHANGED exportVars
           \/ ImportStep /\ UNCHANGED exportVars
           \/ UNCHANGED vars
  <1>1. CASE Export \/ ReplaceMetadata \/ Truncate \/ ExportAgain \/ \E a \in Foreign : Receive(a)
    BY <1>1 DEF Export, ReplaceMetadata, Truncate, ExportAgain, Receive, importVars, repo, ImportTypes
  <1>2. CASE Import
    BY <1>2 DEF Import, Begins
  <1>3. CASE Read
    BY <1>3 DEF Read
  <1>4. CASE Crash
    BY <1>4 DEF Crash, Interrupt, InterruptCommit
  <1>5. CASE ImportAgain \/ NextPart \/ Resend
    BY <1>5 DEF ImportAgain, NextPart, Resend, repo
  <1> QED  BY <1>1, <1>2, <1>3, <1>4, <1>5 DEF Next

LEMMA VerifiedKeeps ==
    ASSUME ExportInv, ImportTypes, VerifiedInv, [Next]_vars
    PROVE  VerifiedInv'
  <1>1. CASE import' = "idle"
    BY <1>1 DEF VerifiedInv
  <1>2. CASE Begins
    BY <1>2 DEF Begins, BeginImport, VerifiedInv, ImportRequests
  <1>3. CASE ImportStep /\ UNCHANGED exportVars
    <2>1. archive' = archive /\ (Signed' <=> Signed) /\ request' = request
      BY <1>3 DEF exportVars, Signed, ImportStep, FilterEntry, ReadCommit, WriteCommit, ImportMetadata, CacheXattrs,
                  ProcessXattrsLink, ImportContent, RefuseEntry, RefuseEnd, AbortTransaction, EndOfArchive,
                  CommitTransaction, ClearPartial
    <2>2. CASE FilterEntry
      <3>1. pos \in Nat /\ pos' = pos + 1 /\ UNCHANGED <<import, commit>>
        BY <2>2, AtEntry DEF FilterEntry
      <3> QED  BY <2>1, <3>1 DEF VerifiedInv
    <2>3. CASE ReadCommit
      <3>1. pos \in 1..Len(archive) /\ Current \in Entries /\ pos' = pos + 1 /\ Current.type = "commit"
            /\ commit' = Current.id /\ import' = "second"
        BY <2>3, AtEntry DEF ReadCommit, Reading
      <3>2. archive[pos] = Object("commit", commit')
        BY <3>1, EntryIs DEF Current
      <3>3. pos \in 1..(pos' - 1)
        BY <3>1
      <3> QED  BY <2>1, <3>1, <3>2, <3>3 DEF VerifiedInv
    <2>4. CASE WriteCommit
      <3>1. pos \in 1..Len(archive) /\ import = "second" /\ import' = "objects"
            /\ (request.remote => Verified(archive[pos]))
        BY <2>4, AtEntry DEF WriteCommit, Reading, Current
      <3>2. request.remote => Signed
        <4>1. DOMAIN archive = 1..Len(archive)
          BY DEF ExportInv, ExportTypes
        <4> QED  BY <3>1, <4>1 DEF VerifiedInv, Verified, Signed
      <3> QED  BY <2>1, <3>1, <3>2 DEF VerifiedInv
    <2>5. CASE import \in {"objects", "clear", "commit"} /\ import' \notin {"first", "second"}
      BY <2>1, <2>5 DEF VerifiedInv
    <2>6. CASE import' = "refused"
      BY <2>6 DEF VerifiedInv
    <2> QED  BY <1>3, <2>2, <2>3, <2>4, <2>5, <2>6 DEF ImportStep, ImportMetadata, CacheXattrs,
                  ProcessXattrsLink, ImportContent, RefuseEntry, RefuseEnd, AbortTransaction, EndOfArchive,
                  CommitTransaction, ClearPartial
  <1>4. CASE UNCHANGED vars
    BY <1>4 DEF vars, exportVars, importVars, importer, VerifiedInv, Signed
  <1> QED  BY <1>1, <1>2, <1>3, <1>4, StepKinds

LEMMA OneMore ==
    ASSUME NEW n \in Nat, n >= 1
    PROVE  /\ archive[n].type = "file" => FilesBefore(n + 1) = FilesBefore(n) \cup {archive[n].id}
           /\ archive[n].type # "file" => FilesBefore(n + 1) = FilesBefore(n)
  <1>1. (n + 1) - 1 = n /\ 1..n = (1..(n - 1)) \cup {n}
    OBVIOUS
  <1>2. FilesBefore(n + 1) = {archive[k].id : k \in {j \in (1..(n - 1)) \cup {n} : archive[j].type = "file"}}
    BY <1>1 DEF FilesBefore
  <1> QED  BY <1>2, Zenon DEF FilesBefore

LEMMA SetKeeps ==
    ASSUME ExportInv, ImportTypes, SetInv, [Next]_vars
    PROVE  SetInv'
  <1>1. CASE import' = "idle" /\ UNCHANGED sets /\ objs \subseteq objs'
    BY <1>1 DEF SetInv
  <1>2. CASE Begins /\ UNCHANGED exportVars
    <2>1. pos' = 1 /\ objset' = {} /\ import' \in {"first", "objects"} /\ UNCHANGED <<sets, objs>>
      BY <1>2 DEF Begins, BeginImport, repo
    <2>2. FilesBefore(pos)' = {}
      BY <2>1 DEF FilesBefore
    <2> QED  BY <2>1, <2>2 DEF SetInv
  <1>3. CASE ImportStep /\ UNCHANGED exportVars
    <2>1. archive' = archive /\ request' = request
      BY <1>3 DEF exportVars, ImportStep, FilterEntry, ReadCommit, WriteCommit, ImportMetadata, CacheXattrs,
                  ProcessXattrsLink, ImportContent, RefuseEntry, RefuseEnd, AbortTransaction, EndOfArchive,
                  CommitTransaction, ClearPartial
    <2>2. FilesBefore(pos)' = FilesBefore(pos')
      BY <2>1 DEF FilesBefore
    <2>3. CASE FilterEntry \/ CacheXattrs \/ ProcessXattrsLink \/ ImportMetadata
      <3>1. Reading /\ HasEntry /\ pos' = pos + 1 /\ UNCHANGED <<import, objset, objs, sets>> /\ staged \subseteq staged'
        BY <2>3 DEF FilterEntry, CacheXattrs, ProcessXattrsLink, ImportMetadata, Reading, txn, repo
      <3>2. archive[pos].type # "file"
        BY <2>3 DEF FilterEntry, CacheXattrs, ProcessXattrsLink, ImportMetadata, IsXattrsLink, MetadataAllowed,
                    Current, ObjectTypes, MetadataTypes
      <3>3. pos \in Nat /\ pos >= 1
        BY <3>1, AtEntry
      <3>4. FilesBefore(pos') = FilesBefore(pos)
        BY <3>1, <3>2, <3>3, OneMore
      <3> QED  BY <2>1, <2>2, <3>1, <3>4 DEF SetInv, Reading
    <2>4. CASE ReadCommit \/ WriteCommit
      <3>1. request.mode # "set" /\ UNCHANGED <<objs, sets>>
        BY <2>4 DEF ReadCommit, WriteCommit, ImportTypes, repo
      <3> QED  BY <2>1, <3>1 DEF SetInv
    <2>5. CASE ImportContent
      <3>1. /\ import = "objects" /\ import' = "objects" /\ HasEntry /\ pos' = pos + 1
            /\ staged' = staged \cup ({<<"file", archive[pos].id>>} \ objs)
            /\ request.mode = "set" => objset' = objset \cup {archive[pos].id}
            /\ archive[pos].type = "file" /\ UNCHANGED <<objs, sets>>
        BY <2>5 DEF ImportContent, Current, repo
      <3>2. pos \in Nat /\ pos >= 1
        BY <3>1, AtEntry DEF Reading
      <3>3. FilesBefore(pos') = FilesBefore(pos) \cup {archive[pos].id}
        BY <3>1, <3>2, OneMore
      <3> QED  BY <2>1, <2>2, <3>1, <3>3 DEF SetInv
    <2>6. CASE RefuseEntry \/ RefuseEnd
      BY <2>6 DEF RefuseEntry, RefuseEnd, AbortTransaction, SetInv
    <2>7. CASE EndOfArchive
      <3>1. import = "objects" /\ ~HasEntry /\ import' \in {"clear", "commit"}
            /\ UNCHANGED <<pos, objset, staged, objs, sets>>
        BY <2>7 DEF EndOfArchive, importer, txn, repo
      <3>2. pos = Len(archive) + 1
        <4>1. Len(archive) \in Nat
          BY DEF ExportInv, ExportTypes
        <4> QED  BY <3>1, <4>1 DEF ImportTypes, TypeOK, HasEntry
      <3> QED  BY <2>1, <2>2, <3>1, <3>2 DEF SetInv
    <2>8. CASE CommitTransaction
      <3>1. /\ import = "commit" /\ objs' = objs \cup staged /\ UNCHANGED <<pos, objset>>
            /\ sets' = IF request.mode = "set" THEN sets \cup {objset} ELSE sets
        BY <2>8 DEF CommitTransaction, importer
      <3> QED  BY <2>1, <2>2, <3>1 DEF SetInv
    <2>9. CASE ClearPartial
      <3>1. request.mode # "set" /\ UNCHANGED <<objs, sets>>
        BY <2>9 DEF ClearPartial, ImportTypes
      <3> QED  BY <2>1, <3>1 DEF SetInv
    <2> QED  BY <1>3, <2>3, <2>4, <2>5, <2>6, <2>7, <2>8, <2>9 DEF ImportStep
  <1>4. CASE UNCHANGED vars
    BY <1>4 DEF vars, exportVars, importVars, importer, txn, repo, SetInv, FilesBefore
  <1> QED  BY <1>1, <1>2, <1>3, <1>4, StepKinds

-----------------------------------------------------------------------------
(***************************************************************************)
(* The importer stays in step with the archives of the exporter.           *)
(***************************************************************************)
LEMMA Heading ==
    ASSUME ExportInv, export = "done", Mode # "chunk"
    PROVE  /\ Len(archive) >= 5 /\ archive[4].type = "commit" /\ archive[4].id = Commit
           /\ \A k \in 1..3 : archive[k].type \notin ObjectTypes
           /\ \/ archive[5].type = "dirmeta" /\ detached = "none"
              \/ archive[5].type = "commitmeta" /\ archive[5].id = Commit /\ archive[5].ref = detached
           /\ \A k \in 6..Len(archive) : archive[k].type \in LaterTypes
           /\ \A k \in 1..5 : archive[k].type \notin {"file", "file-xattrs", "file-xattrs-link"}
  <1>1. Headed(archive) /\ Len(archive) \in Nat
    BY DEF ExportInv, ExportTypes
  <1>2. Len(archive) >= 5
    BY <1>1 DEF Headed
  <1>3. archive[4].type = "commit" /\ archive[4].id = Commit
    BY <1>1, ObjectIs DEF Headed
  <1>4. (\A k \in 1..3 : archive[k].type \notin ObjectTypes) /\ (\A k \in 6..Len(archive) : archive[k].type \in LaterTypes)
    BY <1>1 DEF Headed
  <1>5. \/ archive[5].type = "dirmeta" /\ detached = "none"
        \/ archive[5].type = "commitmeta" /\ archive[5].id = Commit /\ archive[5].ref = detached
    <2>1. CASE detached = "none"
      BY <1>1, <2>1, ObjectIs DEF Headed
    <2>2. CASE detached # "none"
      BY <1>1, <2>2 DEF Headed, CommitMeta, Entry
    <2> QED  BY <2>1, <2>2
  <1>6. \A k \in 1..5 : archive[k].type \notin {"file", "file-xattrs", "file-xattrs-link"}
    <2>1. \A k \in 1..5 : k \in 1..3 \/ k = 4 \/ k = 5
      OBVIOUS
    <2> QED  BY <1>3, <1>4, <1>5, <2>1 DEF ObjectTypes, MetadataTypes
  <1> QED  BY <1>2, <1>3, <1>4, <1>5, <1>6

\* What is announced is the next entry.
LEMMA NothingAnnounced ==
    ASSUME ExportInv, ImportTypes, InStep, export = "done", Reading, HasEntry, Current.type # "file"
    PROVE  nextXattrs = <<>>
  <1>1. pos \in 1..Len(archive) /\ Len(archive) \in Nat /\ Announced(archive)
    BY AtEntry DEF ExportInv
  <1>2. CASE import # "objects"
    BY <1>2 DEF InStep, Reading
  <1>3. CASE import = "objects" /\ pos > 1
    <2>1. pos - 1 \in 1..Len(archive) /\ (pos - 1) + 1 = pos
      BY <1>1, <1>3
    <2>2. archive[pos - 1].type # "file-xattrs-link"
      BY <1>1, <2>1, AnnouncedTypes DEF Current
    <2> QED  BY <1>3, <2>2 DEF InStep
  <1>4. CASE import = "objects" /\ ~(pos > 1)
    BY <1>4 DEF InStep
  <1> QED  BY <1>2, <1>3, <1>4

LEMMA ContentIsAccepted ==
    ASSUME ExportInv, ImportTypes, SetInv, InStep, export = "done", import = "objects", HasEntry,
           Current.type = "file"
    PROVE  ContentAccepted(Current)
  <1>1. pos \in 1..Len(archive) /\ Len(archive) \in Nat /\ Announced(archive)
    BY AtEntry DEF ExportInv, Reading
  <1> DEFINE c == archive[pos].id
  <1>2. /\ pos > 1 /\ archive[pos - 1] = XattrsLink(c, XattrOf[c])
        /\ \E j \in 1..(pos - 1) : archive[j] = Object("file-xattrs", XattrOf[c])
    BY <1>1 DEF Announced, Current
  <1>3. archive[pos - 1].type = "file-xattrs-link" /\ archive[pos - 1].id = c /\ archive[pos - 1].ref = XattrOf[c]
    BY <1>2 DEF XattrsLink, Entry
  <1>4. nextXattrs = <<[file |-> c, xattrs |-> XattrOf[c]]>>
    BY <1>2, <1>3 DEF InStep
  <1>5. XattrOf[c] \in xattrs
    <2>1. PICK j \in 1..(pos - 1) : archive[j] = Object("file-xattrs", XattrOf[c])
      BY <1>2
    <2>2. archive[j].type = "file-xattrs" /\ archive[j].id = XattrOf[c]
      BY <2>1, ObjectIs
    <2> QED  BY <2>2 DEF InStep
  <1>6. request.mode = "set" => c \notin objset
    <2> SUFFICES ASSUME request.mode = "set", c \in objset PROVE FALSE
      OBVIOUS
    <2>1. objset = FilesBefore(pos)
      BY DEF SetInv
    <2>2. PICK j \in 1..(pos - 1) : archive[j].type = "file" /\ archive[j].id = c
      BY <2>1, Zenon DEF FilesBefore
    <2>3. j \in 1..Len(archive) /\ j # pos
      BY <1>1, <2>2
    <2> QED  BY <1>1, <2>2, <2>3 DEF Announced, Current
  <1>7. nextXattrs # <<>> /\ nextXattrs[1].file = c /\ nextXattrs[1].xattrs = XattrOf[c]
    BY <1>4
  <1> QED  BY <1>5, <1>6, <1>7 DEF ContentAccepted, Current

LEMMA NotRefused ==
    ASSUME ExportInv, ImportTypes, SetInv, InStep, export = "done", RefuseEntry \/ RefuseEnd
    PROVE  request.remote /\ detached # "good"
  <1>1. CASE RefuseEnd
    <2>1. import \in {"first", "second"} /\ ~HasEntry
      BY <1>1 DEF RefuseEnd
    <2>2. Mode # "chunk" /\ pos <= 5 /\ pos \in Nat /\ Len(archive) \in Nat
      BY <2>1 DEF InStep, ImportTypes, TypeOK, ExportInv, ExportTypes
    <2> QED  BY <2>1, <2>2, Heading DEF HasEntry
  <1>2. CASE RefuseEntry
    <2>1. Reading /\ HasEntry /\ Current.type \in ObjectTypes /\ ~Acceptable(Current)
      BY <1>2 DEF RefuseEntry
    <2>2. pos \in 1..Len(archive) /\ Len(archive) \in Nat
      BY <2>1, AtEntry
    <2>3. CASE import = "first"
      <3>1. Mode # "chunk" /\ pos \in {1, 2, 3, 4}
        BY <2>2, <2>3 DEF InStep, ImportTypes
      <3>2. pos = 4 /\ Current.type = "commit"
        BY <2>1, <3>1, Heading DEF Current
      <3> QED  BY <2>1, <2>3, <3>2 DEF Acceptable
    <2>4. CASE import = "second"
      <3>1. Mode # "chunk" /\ pos = 5 /\ commit = Commit
        BY <2>4 DEF InStep, ImportTypes
      <3>2. \/ Current.type = "dirmeta" /\ detached = "none"
            \/ Current.type = "commitmeta" /\ Current.id = Commit /\ Current.ref = detached
        BY <3>1, Heading DEF Current
      <3>3. ~(IF request.remote THEN Verified(Current) ELSE Unverified(Current))
        BY <2>1, <2>4 DEF Acceptable
      <3> QED  BY <3>1, <3>2, <3>3 DEF Verified, Unverified
    <2>5. CASE import = "objects"
      <3>1. ~(\/ MetadataAllowed(Current) \/ Current.type = "file-xattrs"
              \/ IsXattrsLink(Current) /\ nextXattrs = <<>>
              \/ Current.type = "file" /\ ContentAccepted(Current))
        BY <2>1, <2>5 DEF Acceptable
      <3>2. Current.type # "file"
        BY <2>1, <2>5, <3>1, ContentIsAccepted
      <3>3. ~IsXattrsLink(Current)
        BY <2>1, <3>1, <3>2, NothingAnnounced
      <3>4. CASE Mode = "chunk"
        <4>1. Current.type \in ChunkTypes
          BY <2>2, <3>4 DEF ExportInv, Headed, Current
        <4> QED  BY <2>1, <3>1, <3>2, <3>3, <4>1 DEF ChunkTypes, ObjectTypes, MetadataTypes, IsXattrsLink
      <3>5. CASE Mode # "chunk"
        <4>1. request.mode # "set" /\ pos \in 6..Len(archive)
          BY <2>2, <2>5, <3>5 DEF InStep
        <4>2. Current.type \in LaterTypes
          BY <3>5, <4>1, Heading DEF Current
        <4> QED  BY <2>1, <3>1, <3>2, <3>3, <4>1, <4>2
                 DEF LaterTypes, ChunkTypes, ObjectTypes, MetadataTypes, IsXattrsLink, MetadataAllowed
      <3> QED  BY <3>4, <3>5
    <2> QED  BY <2>1, <2>3, <2>4, <2>5 DEF Reading
  <1> QED  BY <1>1, <1>2

LEMMA InStepKeeps ==
    ASSUME ExportInv, ImportTypes, SetInv, import # "idle" /\ export = "done" => InStep, [Next]_vars,
           import' # "idle", export' = "done"
    PROVE  InStep'
  <1>1. CASE Begins /\ UNCHANGED exportVars
    <2>1. PICK r \in ImportRequests : (r.mode = "set" <=> Mode = "chunk") /\ BeginImport(r)
      BY <1>1 DEF Begins, exportVars
    <2>2. /\ request' = r /\ import' = (IF r.mode = "set" THEN "objects" ELSE "first")
          /\ pos' = 1 /\ nextXattrs' = <<>>
      BY <1>1, <2>1 DEF BeginImport, exportVars, Mode
    <2>3. Mode' = Mode
      BY <1>1 DEF exportVars, Mode
    <2> QED  BY <2>1, <2>2, <2>3 DEF InStep
  <1>2. CASE ImportStep /\ UNCHANGED exportVars
    <2>1. archive' = archive /\ Mode' = Mode /\ detached' = detached /\ request' = request /\ export = "done"
      BY <1>2 DEF exportVars, Mode, ImportStep, FilterEntry, ReadCommit, WriteCommit, ImportMetadata, CacheXattrs,
                  ProcessXattrsLink, ImportContent, RefuseEntry, RefuseEnd, AbortTransaction, EndOfArchive,
                  CommitTransaction, ClearPartial
    <2>2. InStep
      BY <1>2, <2>1 DEF ImportStep, FilterEntry, ReadCommit, WriteCommit, ImportMetadata, CacheXattrs,
                  ProcessXattrsLink, ImportContent, RefuseEntry, RefuseEnd, EndOfArchive,
                  CommitTransaction, ClearPartial, Reading
    <2>3. CASE FilterEntry
      <3>1. Reading /\ HasEntry /\ archive[pos].type \notin ObjectTypes /\ pos' = pos + 1
            /\ UNCHANGED <<import, commit, nextXattrs, xattrs>>
        BY <2>3 DEF FilterEntry, Current
      <3>2. pos \in 1..Len(archive) /\ Len(archive) \in Nat /\ pos' - 1 = pos
        BY <3>1, AtEntry
      <3>3. nextXattrs = <<>> /\ archive[pos].type \notin {"file", "file-xattrs", "file-xattrs-link"}
        BY <2>1, <2>2, <3>1, NothingAnnounced DEF Current, ObjectTypes, MetadataTypes
      <3>4. CASE import = "first"
        <4>1. pos # 4
          BY <2>1, <2>2, <3>1, <3>4, Heading DEF InStep, ObjectTypes, MetadataTypes, ImportTypes
        <4> QED  BY <2>1, <2>2, <3>1, <3>2, <3>3, <3>4, <4>1 DEF InStep
      <3>5. CASE import = "second"
        BY <2>1, <2>2, <3>1, <3>5, Heading DEF InStep, ObjectTypes, MetadataTypes, ImportTypes
      <3>6. CASE import = "objects"
        BY <2>1, <2>2, <3>1, <3>2, <3>3, <3>6 DEF InStep
      <3> QED  BY <3>1, <3>4, <3>5, <3>6 DEF Reading
    <2>4. CASE ReadCommit
      <3>1. import = "first" /\ import' = "second" /\ HasEntry /\ archive[pos].type = "commit" /\ pos' = pos + 1
            /\ commit' = archive[pos].id /\ UNCHANGED nextXattrs
        BY <2>4 DEF ReadCommit, Current
      <3>2. pos \in 1..4 /\ Mode # "chunk" /\ nextXattrs = <<>>
        BY <2>2, <3>1, AtEntry DEF InStep, ImportTypes, Reading
      <3>3. pos = 4
        BY <2>1, <3>1, <3>2, Heading DEF ObjectTypes, MetadataTypes
      <3> QED  BY <2>1, <2>2, <3>1, <3>2, <3>3, Heading DEF InStep
    <2>5. CASE WriteCommit
      <3>1. import = "second" /\ import' = "objects" /\ pos' = pos + 1 /\ UNCHANGED nextXattrs
        BY <2>5 DEF WriteCommit
      <3>2. pos = 5 /\ Mode # "chunk" /\ nextXattrs = <<>>
        BY <2>2, <3>1 DEF InStep, ImportTypes
      <3>3. pos' = 6 /\ pos' - 1 = 5
        BY <3>1, <3>2
      <3>4. \A k \in 1..5 : archive[k].type \notin {"file", "file-xattrs", "file-xattrs-link"}
        BY <2>1, <3>2, Heading
      <3> QED  BY <2>1, <2>2, <3>1, <3>2, <3>3, <3>4 DEF InStep
    <2>6. CASE ImportMetadata \/ CacheXattrs
      <3>1. /\ import = "objects" /\ import' = "objects" /\ HasEntry /\ pos' = pos + 1 /\ UNCHANGED nextXattrs
            /\ archive[pos].type \in {"dirtree", "dirmeta", "file-xattrs"} /\ xattrs \subseteq xattrs'
            /\ archive[pos].type = "file-xattrs" => archive[pos].id \in xattrs'
        BY <2>6 DEF ImportMetadata, CacheXattrs, MetadataAllowed, Current
      <3>2. pos \in 1..Len(archive) /\ Len(archive) \in Nat /\ pos' - 1 = pos
        BY <3>1, AtEntry DEF Reading
      <3>3. nextXattrs = <<>>
        BY <2>1, <2>2, <3>1, NothingAnnounced DEF Current, Reading
      <3>4. \A k \in 1..pos : k \in 1..(pos - 1) \/ k = pos
        BY <3>2
      <3> QED  BY <2>1, <2>2, <3>1, <3>2, <3>3, <3>4 DEF InStep
    <2>7. CASE ProcessXattrsLink
      <3>1. /\ import = "objects" /\ import' = "objects" /\ HasEntry /\ pos' = pos + 1 /\ xattrs \subseteq xattrs'
            /\ nextXattrs' = <<[file |-> archive[pos].id, xattrs |-> archive[pos].ref]>>
            /\ archive[pos].type \in {"file-xattrs-link", "file-xattrs-inline"}
        BY <2>7 DEF ProcessXattrsLink, IsXattrsLink, Current
      <3>2. pos \in 1..Len(archive) /\ Len(archive) \in Nat /\ pos' - 1 = pos /\ pos' > 1
        BY <3>1, AtEntry DEF Reading
      <3>3. archive[pos].type = "file-xattrs-link"
        BY <2>1, <3>1, <3>2 DEF ExportInv, Announced
      <3>4. \A k \in 1..pos : k \in 1..(pos - 1) \/ k = pos
        BY <3>2
      <3> QED  BY <2>1, <2>2, <3>1, <3>2, <3>3, <3>4 DEF InStep
    <2>8. CASE ImportContent
      <3>1. /\ import = "objects" /\ import' = "objects" /\ HasEntry /\ pos' = pos + 1 /\ UNCHANGED xattrs
            /\ nextXattrs' = <<>> /\ archive[pos].type = "file"
        BY <2>8 DEF ImportContent, Current
      <3>2. pos \in 1..Len(archive) /\ Len(archive) \in Nat /\ pos' - 1 = pos
        BY <3>1, AtEntry DEF Reading
      <3>4. \A k \in 1..pos : k \in 1..(pos - 1) \/ k = pos
        BY <3>2
      <3> QED  BY <2>1, <2>2, <3>1, <3>2, <3>4 DEF InStep
    <2>9. CASE RefuseEntry \/ RefuseEnd
      <3>1. import' = "refused"
        BY <2>9 DEF RefuseEntry, RefuseEnd, AbortTransaction
      <3> QED  BY <2>1, <2>2, <2>9, <3>1, NotRefused DEF InStep
    <2>10. CASE EndOfArchive \/ CommitTransaction \/ ClearPartial
      <3>1. import' \in {"clear", "commit", "done"}
        BY <2>10 DEF EndOfArchive, CommitTransaction, ClearPartial
      <3> QED  BY <2>1, <2>2, <3>1 DEF InStep
    <2> QED  BY <1>2, <2>3, <2>4, <2>5, <2>6, <2>7, <2>8, <2>9, <2>10 DEF ImportStep
  <1>3. CASE UNCHANGED vars
    BY <1>3 DEF vars, exportVars, importVars, importer, InStep, Mode
  <1> QED  BY <1>1, <1>2, <1>3, StepKinds

-----------------------------------------------------------------------------
(***************************************************************************)
(* The theorems.                                                           *)
(***************************************************************************)
LEMMA StreamBegins == Init => StreamInv
  <1> SUFFICES ASSUME Init PROVE StreamInv
    OBVIOUS
  <1>1. ExportInv /\ ImportTypes
    BY ExportBegins, ImportTypesBegin
  <1>2. import = "idle" /\ sets = {}
    BY DEF Init, ImportInit
  <1> QED  BY <1>1, <1>2 DEF StreamInv, VerifiedInv, SetInv

LEMMA StreamKeeps == StreamInv /\ [Next]_vars => StreamInv'
  <1> SUFFICES ASSUME StreamInv, [Next]_vars PROVE StreamInv'
    OBVIOUS
  <1>1. ExportInv /\ ImportTypes /\ VerifiedInv /\ SetInv /\ (import # "idle" /\ export = "done" => InStep)
    BY DEF StreamInv
  <1>2. ExportInv'
    BY <1>1, ExportKeeps
  <1>3. ImportTypes'
    BY <1>1, <1>2, TypesKeep
  <1>4. VerifiedInv' /\ SetInv'
    BY <1>1, VerifiedKeeps, SetKeeps
  <1>5. import' # "idle" /\ export' = "done" => InStep'
    BY <1>1, InStepKeeps
  <1> QED  BY <1>2, <1>3, <1>4, <1>5 DEF StreamInv

(***************************************************************************)
(* The inductive invariant: the form of the exporter's archives, the types *)
(* of the importer, what it has verified, what an object set holds, and    *)
(* that the importer is in step with an archive of the exporter.           *)
(***************************************************************************)
THEOREM StreamInvariant == Spec => []StreamInv
  <1> QED  BY StreamBegins, StreamKeeps, PTL DEF Spec

(***************************************************************************)
(* The variables hold what TypeOK says: no two announcements are pending   *)
(* in Importer's next_xattrs, and no transaction is open while nothing is  *)
(* imported.                                                               *)
(***************************************************************************)
THEOREM StreamTypes == Spec => []TypeOK
  <1>1. StreamInv => TypeOK
    BY DEF StreamInv, ImportTypes
  <1> QED  BY <1>1, StreamInvariant, PTL

(***************************************************************************)
(* Importer accepts whatever OstreeTarWriter writes, for every commit and  *)
(* every split of it into chunks, and also after the detached metadata was *)
(* replaced; only a remote refuses it, for the want of a good signature.   *)
(***************************************************************************)
THEOREM ExportsAreAccepted == Spec => []NeverRefused
  <1>1. StreamInv => NeverRefused
    BY DEF StreamInv, InStep, NeverRefused
  <1> QED  BY <1>1, StreamInvariant, PTL

(***************************************************************************)
(* The synthetic commit of an object set (finish_import_object_set) lists  *)
(* the content objects of its archive, which are all stored, whatever the  *)
(* archive is and whatever was stored before.                              *)
(***************************************************************************)
THEOREM SetsAreExact == Spec => []SetExact
  <1>1. ASSUME StreamInv PROVE SetExact
    <2>1. SetInv /\ DOMAIN archive = 1..Len(archive) /\ Len(archive) \in Nat
      BY <1>1 DEF StreamInv, ExportInv, ExportTypes
    <2>2. (Len(archive) + 1) - 1 = Len(archive)
      BY <2>1
    <2>3. FilesBefore(Len(archive) + 1) = {archive[k].id : k \in {j \in DOMAIN archive : archive[j].type = "file"}}
      BY <2>1, <2>2 DEF FilesBefore
    <2> QED  BY <2>1, <2>3 DEF SetInv, SetExact
  <1> QED  BY <1>1, StreamInvariant, PTL

(***************************************************************************)
(* import_commit with a remote: no step of the import of an archive whose  *)
(* commit is not followed by its own, good detached metadata changes the   *)
(* objects, the detached metadata or the partial marks of the repository.  *)
(***************************************************************************)
THEOREM UnverifiedLeavesNoTrace == Spec => VerifiedOnly
  <1> DEFINE Kept == request.remote /\ import \notin {"idle", "done", "refused"} /\ ~Signed
                     => UNCHANGED <<objs, meta, partial>>
  <1>1. ASSUME StreamInv, [Next]_vars, request.remote, import \notin {"idle", "done", "refused"}, ~Signed
        PROVE  UNCHANGED <<objs, meta, partial>>
    <2>1. import \in {"first", "second"} /\ export \in {"done", "cut", "foreign"}
      BY <1>1 DEF StreamInv, VerifiedInv, ImportTypes, TypeOK
    <2>2. CASE Export \/ ReplaceMetadata \/ Truncate \/ ExportAgain \/ \E a \in Foreign : Receive(a)
      BY <2>1, <2>2 DEF Export, ReplaceMetadata, Truncate, ExportAgain, Receive
    <2>3. CASE Import \/ ImportAgain \/ NextPart \/ Resend
      BY <2>1, <2>3 DEF Import, BeginImport, ImportAgain, NextPart, Resend
    <2>4. CASE Crash
      BY <2>1, <2>4 DEF Crash, Interrupt, InterruptCommit
    <2>5. CASE FilterEntry \/ ReadCommit \/ ImportMetadata \/ CacheXattrs \/ ProcessXattrsLink \/ ImportContent
               \/ EndOfArchive \/ CommitTransaction \/ ClearPartial
      BY <2>1, <2>5 DEF FilterEntry, ReadCommit, ImportMetadata, CacheXattrs, ProcessXattrsLink, ImportContent,
                        EndOfArchive, CommitTransaction, ClearPartial, repo
    <2>6. CASE RefuseEntry \/ RefuseEnd
      BY <1>1, <2>6 DEF RefuseEntry, RefuseEnd, AbortTransaction
    <2>7. CASE WriteCommit
      <3>1. ExportInv /\ ImportTypes /\ import = "second" /\ HasEntry /\ Verified(archive[pos])
        BY <1>1, <2>7 DEF WriteCommit, StreamInv, Current
      <3>2. pos \in DOMAIN archive
        BY <3>1, AtEntry DEF ExportInv, ExportTypes, Reading
      <3> QED  BY <1>1, <3>1, <3>2 DEF StreamInv, VerifiedInv, Verified, Signed
    <2>8. CASE UNCHANGED vars
      BY <2>8 DEF vars, importVars, repo
    <2> QED  BY <1>1, <2>2, <2>3, <2>4, <2>5, <2>6, <2>7, <2>8 DEF Next, Read, ImportStep
  <1>2. StreamInv /\ [Next]_vars => [Kept]_vars
    BY <1>1
  <1> QED  BY <1>2, StreamInvariant, PTL DEF Spec, VerifiedOnly
-----------------------------------------------------------------------------
(***************************************************************************)
(* What an archive of the exporter has in it.                              *)
(***************************************************************************)
Held(a) == {a[k] : k \in 1..Len(a)}

\* What the wrote_* sets of the writer record is in the archive.
Present(a, w) ==
    /\ \A t \in w.dirtree : Object("dirtree", t) \in Held(a)
    /\ \A m \in w.dirmeta : Object("dirmeta", m) \in Held(a)
    /\ \A c \in w.content : Object("file", c) \in Held(a)

(***************************************************************************)
(* What the trees that were written mention is written or among the tasks  *)
(* L that are left: the walk over the commit forgets nothing.              *)
(***************************************************************************)
TreesAhead(w, L) ==
    /\ Root \in w.dirtree \/ \E x \in L : x.op = "tree" /\ x.id = Root
    /\ \A t \in w.dirtree : \A k \in 1..Len(Dirs[t]) :
          \/ t = Root /\ Dirs[t][k].name = "sysroot"
          \/ Dirs[t][k].tree \in w.dirtree
          \/ \E x \in L : x.op \in {"tree", "dir"} /\ x.id = Dirs[t][k].tree
MetasAhead(w, L) ==
    /\ RootMeta \in w.dirmeta
    /\ \A t \in w.dirtree : \A k \in 1..Len(Dirs[t]) :
          \/ Dirs[t][k].meta \in w.dirmeta
          \/ \E x \in L : x.op \in {"dir", "sysroot"} /\ x.meta = Dirs[t][k].meta
FilesAhead(w, L) ==
    \A t \in w.dirtree : \A k \in 1..Len(Files[t]) :
        \/ Files[t][k].content \in w.content
        \/ \E x \in L : x.op = "file" /\ x.id = Files[t][k].content
ChunkAhead(w, L) ==
    \A k \in 1..Len(plan[part].chunk) :
        \/ plan[part].chunk[k].content \in w.content
        \/ \E x \in L : x.op = "object" /\ x.id = plan[part].chunk[k].content

\* Only the root's path is ".".
Located(L) ==
    \A x \in L :
        /\ x.op = "tree" => (x.paths[1] = <<".">> /\ x.id = Root) \/ Len(x.paths[1]) >= 2
        /\ x.op = "dir" => Len(x.paths[1]) >= 2

Walking ==
    LET L == Held(todo)
    IN  /\ Present(archive, wrote) /\ Located(L)
        /\ Mode # "chunk" => TreesAhead(wrote, L) /\ MetasAhead(wrote, L)
        /\ Mode = "commit" => FilesAhead(wrote, L)
        /\ Mode # "commit" => ChunkAhead(wrote, L)

\* The archive that is finished has all that it should.
Whole(a) ==
    /\ Mode # "chunk" => \A o \in CommitObjects : o[1] # "file" => Object(o[1], o[2]) \in Held(a)
    /\ Mode = "commit" => \A o \in CommitObjects : o[1] = "file" => Object(o[1], o[2]) \in Held(a)
    /\ Mode # "commit" =>
          \A k \in 1..Len(plan[part].chunk) : Object("file", plan[part].chunk[k].content) \in Held(a)

WriteInv ==
    /\ export = "run" => Walking
    /\ export = "done" => Whole(archive)

(***************************************************************************)
(* And what the importer has of it.  Nothing is staged before the second   *)
(* object; a commit that is staged or stored is marked, or complete; every *)
(* object that was read is stored or staged.                               *)
(***************************************************************************)
Fresh == import \in {"first", "second"} => staged = {} /\ stagedMeta = "none"

Marked ==
    \A c \in Commits : <<"commit", c>> \in staged =>
        c \in partial \/ (import = "commit" /\ request.mode = "layer")

ReadSoFar ==
    /\ request.mode # "set" => commit = Commit
    /\ \A k \in 1..(pos - 1) : archive[k].type \in {"commit", "dirtree", "dirmeta", "file"} =>
          <<archive[k].type, archive[k].id>> \in objs \cup staged
    /\ import \in {"clear", "commit", "done"} => pos = Len(archive) + 1
    /\ request.mode # "set" =>
          /\ IF import = "done" \/ (import = "clear" /\ request.mode = "tar")
             THEN detached # "none" => meta[Commit] = detached
             ELSE stagedMeta = detached
          /\ import = "done" \/ (import = "commit" /\ request.mode = "layer") => Commit \notin partial

\* The chunks before the archive at hand are stored.
Earlier ==
    \A j \in 1..(part - 1) : plan[j].mode # "commit" =>
        \A k \in 1..Len(plan[j].chunk) : <<"file", plan[j].chunk[k].content>> \in objs

Honest ==
    \/ torn \/ (import = "done" /\ export \in {"cut", "foreign"})
    \/ import = "commit" /\ request.mode = "layer"
    \/ <<"commit", Commit>> \in objs /\ Commit \notin partial => CommitObjects \subseteq objs

RestoreInv ==
    /\ StreamInv /\ WriteInv /\ Fresh /\ Marked /\ Earlier /\ Honest
    /\ import \in {"objects", "clear", "commit", "done"} /\ export = "done" => ReadSoFar

-----------------------------------------------------------------------------
(***************************************************************************)
(* Sets of what sequences hold.                                            *)
(***************************************************************************)
LEMMA HeldJoined ==
    ASSUME NEW S, NEW s \in Seq(S), NEW t \in Seq(S)
    PROVE  Held(s \o t) = Held(s) \cup Held(t)
  <1> DEFINE u == s \o t
  <1>1. /\ u \in Seq(S) /\ Len(u) = Len(s) + Len(t) /\ Len(s) \in Nat /\ Len(t) \in Nat
        /\ \A k \in 1..Len(s) : u[k] = s[k]
        /\ \A k \in 1..Len(t) : u[Len(s) + k] = t[k]
        /\ \A k \in 1..(Len(s) + Len(t)) : k > Len(s) => u[k] = t[k - Len(s)]
    BY Joined
  <1> HIDE DEF u
  <1>2. ASSUME NEW k \in 1..Len(u) PROVE u[k] \in Held(s) \cup Held(t)
    <2>1. k \in 1..Len(s) \/ (k > Len(s) /\ k - Len(s) \in 1..Len(t) /\ k \in 1..(Len(s) + Len(t)))
      BY <1>1
    <2> QED  BY <1>1, <2>1 DEF Held
  <1>3. ASSUME NEW k \in 1..Len(s) PROVE s[k] \in Held(u)
    <2>1. k \in 1..Len(u)
      BY <1>1
    <2> QED  BY <1>1, <2>1 DEF Held
  <1>4. ASSUME NEW k \in 1..Len(t) PROVE t[k] \in Held(u)
    <2>1. Len(s) + k \in 1..Len(u)
      BY <1>1
    <2> QED  BY <1>1, <2>1 DEF Held
  <1>5. Held(u) \subseteq Held(s) \cup Held(t) /\ Held(s) \subseteq Held(u) /\ Held(t) \subseteq Held(u)
    BY <1>2, <1>3, <1>4 DEF Held
  <1> QED  BY <1>5 DEF u

LEMMA HeldThree ==
    ASSUME NEW S, NEW s \in Seq(S), NEW t \in Seq(S), NEW u \in Seq(S)
    PROVE  Held(s \o (t \o u)) = Held(s) \cup (Held(t) \cup Held(u))
  <1> DEFINE v == t \o u
  <1>1. v \in Seq(S) /\ Held(v) = Held(t) \cup Held(u)
    BY Joined, HeldJoined
  <1> HIDE DEF v
  <1>2. Held(s \o v) = Held(s) \cup Held(v)
    BY <1>1, HeldJoined
  <1> QED  BY <1>1, <1>2 DEF v

LEMMA HeldFirst ==
    ASSUME NEW S, NEW s \in Seq(S), s # <<>>
    PROVE  Held(s) = {Head(s)} \cup Held(Tail(s))
  <1>1. /\ Len(s) \in Nat /\ Len(s) >= 1 /\ Head(s) = s[1] /\ Len(Tail(s)) = Len(s) - 1
        /\ \A k \in 1..(Len(s) - 1) : Tail(s)[k] = s[k + 1]
    OBVIOUS
  <1>2. ASSUME NEW k \in 1..Len(s) PROVE s[k] \in {Head(s)} \cup Held(Tail(s))
    <2>1. k = 1 \/ (k - 1 \in 1..(Len(s) - 1) /\ (k - 1) + 1 = k)
      BY <1>1
    <2>2. k = 1 \/ (k - 1 \in 1..Len(Tail(s)) /\ s[k] = Tail(s)[k - 1])
      BY <1>1, <2>1
    <2> QED  BY <1>1, <2>2 DEF Held
  <1>3. ASSUME NEW k \in 1..Len(Tail(s)) PROVE Tail(s)[k] \in Held(s)
    <2>1. k + 1 \in 1..Len(s) /\ Tail(s)[k] = s[k + 1]
      BY <1>1
    <2> QED  BY <2>1 DEF Held
  <1>4. Head(s) \in Held(s)
    BY <1>1 DEF Held
  <1>5. Held(s) \subseteq {Head(s)} \cup Held(Tail(s)) /\ Held(Tail(s)) \subseteq Held(s)
    BY <1>2, <1>3 DEF Held
  <1> QED  BY <1>4, <1>5

LEMMA HeldFew ==
    /\ Held(<<>>) = {}
    /\ \A e : Held(<<e>>) = {e}
    /\ \A e, f : Held(<<e, f>>) = {e, f}
  <1>1. Held(<<>>) = {}
    BY DEF Held
  <1>2. ASSUME NEW e PROVE Held(<<e>>) = {e}
    BY DEF Held
  <1>3. ASSUME NEW e, NEW f PROVE Held(<<e, f>>) = {e, f}
    <2>1. 1..Len(<<e, f>>) = {1, 2}
      OBVIOUS
    <2> QED  BY <2>1 DEF Held
  <1> QED  BY <1>1, <1>2, <1>3

LEMMA PresentGrows ==
    ASSUME NEW a, NEW b, NEW w, Present(a, w), Held(a) \subseteq Held(b)
    PROVE  Present(b, w)
  BY DEF Present

-----------------------------------------------------------------------------
(***************************************************************************)
(* The tasks that a directory makes.                                       *)
(***************************************************************************)
LEMMA MapPathLong ==
    ASSUME NEW p \in Seq(Names), Len(p) >= 2
    PROVE  Len(MapPath(p)) >= 2
  <1>1. CASE IsPrefix(<<".", "usr", "etc">>, p)
    <2>1. MapPath(p) = <<".", "etc">> \o SubSeq(p, 4, Len(p))
      BY <1>1 DEF MapPath
    <2>2. <<".", "etc">> \in Seq(Names) /\ Len(<<".", "etc">>) = 2
      BY TreeAssumption, Tuples
    <2>3. SubSeq(p, 4, Len(p)) \in Seq(Names) /\ Len(SubSeq(p, 4, Len(p))) \in Nat
      OBVIOUS
    <2>4. Len(MapPath(p)) = 2 + Len(SubSeq(p, 4, Len(p)))
      BY <2>1, <2>2, <2>3, Joined
    <2> QED  BY <2>3, <2>4
  <1>2. CASE ~IsPrefix(<<".", "usr", "etc">>, p)
    BY <1>2 DEF MapPath
  <1> QED  BY <1>1, <1>2

LEMMA TaskFields ==
    ASSUME NEW op, NEW paths, NEW id, NEW m
    PROVE  LET x == Task(op, paths, id, m) IN x.op = op /\ x.paths = paths /\ x.id = id /\ x.meta = m
  BY DEF Task

LEMMA LengthIs ==
    ASSUME NEW S, NEW s \in Seq(S), NEW n \in Nat, DOMAIN s = 1..n
    PROVE  Len(s) = n
  OBVIOUS

LEMMA FilesHeld ==
    ASSUME NEW path \in Seq(Names), NEW t \in Trees
    PROVE  /\ \A x \in Held(FileTasks(path, t)) : x.op = "file"
           /\ \A k \in 1..Len(Files[t]) :
                 \E x \in Held(FileTasks(path, t)) : x.op = "file" /\ x.id = Files[t][k].content
  <1> DEFINE f == FileTasks(path, t)
  <1>0. Files[t] \in Seq([name: Names, content: Contents])
    BY TreeAssumption
  <1>1. Len(Files[t]) \in Nat
    BY <1>0
  <1>2. /\ Len(f) = Len(Files[t])
        /\ \A k \in 1..Len(Files[t]) : f[k].op = "file" /\ f[k].id = Files[t][k].content
    <2>1. DOMAIN f = 1..Len(Files[t]) /\ f \in Seq(Tasks)
      BY DirTasksType DEF FileTasks
    <2>2. \A k \in 1..Len(Files[t]) : f[k].op = "file" /\ f[k].id = Files[t][k].content
      BY DEF FileTasks, Task
    <2> HIDE DEF f
    <2> QED  BY <1>1, <2>1, <2>2, LengthIs
  <1> HIDE DEF f
  <1>3. (\A x \in Held(f) : x.op = "file") /\ \A k \in 1..Len(f) : f[k] \in Held(f)
    BY <1>2 DEF Held
  <1>4. \A k \in 1..Len(Files[t]) : \E x \in Held(f) : x.op = "file" /\ x.id = Files[t][k].content
    BY <1>2, <1>3
  <1> QED  BY <1>3, <1>4 DEF f

LEMMA DirsHeld ==
    ASSUME NEW path \in Seq(Names), NEW t \in Trees, Len(path) >= 1
    PROVE  /\ \A x \in Held(DirTasks(path, t)) : x.op \in {"dir", "sysroot"} /\ Len(x.paths[1]) >= 2
           /\ \A k \in 1..Len(Dirs[t]) :
                 \E x \in Held(DirTasks(path, t)) :
                     /\ x.meta = Dirs[t][k].meta /\ x.id = Dirs[t][k].tree
                     /\ x.op = (IF path = <<".">> /\ Dirs[t][k].name = "sysroot" THEN "sysroot" ELSE "dir")
  <1> DEFINE f == DirTasks(path, t)
  <1>0. Dirs[t] \in Seq([name: Names, tree: Trees, meta: Metas])
    BY TreeAssumption
  <1>1. Len(Dirs[t]) \in Nat
    BY <1>0
  <1>2. ASSUME NEW k \in 1..Len(Dirs[t])
        PROVE  /\ f[k].op = (IF path = <<".">> /\ Dirs[t][k].name = "sysroot" THEN "sysroot" ELSE "dir")
               /\ f[k].id = Dirs[t][k].tree /\ f[k].meta = Dirs[t][k].meta
               /\ f[k].paths[1] = MapPath(Append(path, Dirs[t][k].name))
    BY <1>1, TaskFields DEF DirTasks
  <1>3. ASSUME NEW k \in 1..Len(Dirs[t]) PROVE Len(f[k].paths[1]) >= 2
    <2>0. Dirs[t][k] \in [name: Names, tree: Trees, meta: Metas]
      BY <1>0, Element
    <2>1. Dirs[t][k].name \in Names
      BY <2>0
    <2>2. Append(path, Dirs[t][k].name) \in Seq(Names) /\ Len(Append(path, Dirs[t][k].name)) >= 2
      BY <2>1
    <2> QED  BY <1>2, <2>2, MapPathLong
  <1>4. Len(f) = Len(Dirs[t])
    <2>1. DOMAIN f = 1..Len(Dirs[t]) /\ f \in Seq(Tasks)
      BY DirTasksType DEF DirTasks
    <2> HIDE DEF f
    <2> QED  BY <1>1, <2>1, LengthIs
  <1> HIDE DEF f
  <1>5. /\ \A x \in Held(f) : x.op \in {"dir", "sysroot"} /\ Len(x.paths[1]) >= 2
        /\ \A k \in 1..Len(Dirs[t]) : f[k] \in Held(f)
    BY <1>2, <1>3, <1>4 DEF Held
  <1> QED  BY <1>2, <1>5 DEF f

LEMMA ChunksHeld ==
    ASSUME plan \in Plans, part \in 1..Len(plan)
    PROVE  /\ \A x \in Held(ChunkTasks) : x.op = "object"
           /\ \A k \in 1..Len(plan[part].chunk) :
                 \E x \in Held(ChunkTasks) : x.op = "object" /\ x.id = plan[part].chunk[k].content
  <1> DEFINE n == Len(plan[part].chunk)
             f == ChunkTasks
  <1>1. n \in Nat
    BY PlansAssumption DEF Archives
  <1>2. /\ Len(f) = n
        /\ \A k \in 1..n : f[k].op = "object" /\ f[k].id = plan[part].chunk[k].content
    <2>1. DOMAIN f = 1..n /\ f \in Seq(Tasks)
      BY ChunkTasksType DEF ChunkTasks
    <2>2. \A k \in 1..n : f[k].op = "object" /\ f[k].id = plan[part].chunk[k].content
      BY DEF ChunkTasks, Task
    <2> HIDE DEF f, n
    <2> QED  BY <1>1, <2>1, <2>2, LengthIs
  <1> HIDE DEF f
  <1>3. (\A x \in Held(f) : x.op = "object") /\ \A k \in 1..n : f[k] \in Held(f)
    BY <1>2 DEF Held
  <1> QED  BY <1>2, <1>3 DEF f

-----------------------------------------------------------------------------
(***************************************************************************)
(* The steps of the exporter forget nothing.                               *)
(***************************************************************************)
\* The tasks that are left, and what they are made of.
LEMMA TasksLeft ==
    ASSUME ExportInv, export = "run", todo # <<>>
    PROVE  /\ Held(todo) = {Head(todo)} \cup Held(Tail(todo)) /\ Head(todo) \in Tasks
           /\ Tail(todo) \in Seq(Tasks)
           /\ wrote \in [dirtree : SUBSET Trees, dirmeta : SUBSET Metas, content : SUBSET Contents,
                         xattrs : SUBSET Xattrs, vartmp : BOOLEAN]
           /\ archive \in Seq(Entries)
  BY TaskAtHand, HeldFirst DEF ExportInv, ExportTypes

LEMMA DirtreeWalks == ASSUME ExportInv, Walking, AppendDirtree PROVE Walking'
  <1> DEFINE t == Head(todo)
             L == Held(todo)
             R == Held(Tail(todo))
             ft == IF Mode = "final" THEN <<>> ELSE FileTasks(t.paths[1], t.id)
             dt == DirTasks(t.paths[1], t.id)
             y == Unless(t.id \in wrote.dirtree, Object("dirtree", t.id))
  <1>1. /\ export = "run" /\ todo # <<>> /\ t.op = "tree"
        /\ archive' = archive \o y
        /\ wrote' = [wrote EXCEPT !.dirtree = @ \cup {t.id},
                                  !.vartmp = @ \/ t.paths[1] = <<"var", "tmp">>]
        /\ todo' = ft \o (dt \o Tail(todo))
        /\ UNCHANGED <<plan, part>>
    BY DEF AppendDirtree, Doing
  <1>2. L = {t} \cup R /\ t \in Tasks /\ Tail(todo) \in Seq(Tasks) /\ archive \in Seq(Entries)
        /\ wrote \in [dirtree : SUBSET Trees, dirmeta : SUBSET Metas, content : SUBSET Contents,
                         xattrs : SUBSET Xattrs, vartmp : BOOLEAN]
    BY <1>1, TasksLeft
  <1>3. t.id \in Trees /\ t.paths[1] \in Seq(Names)
    BY <1>1, <1>2, TaskIs
  <1>4. /\ wrote'.dirtree = wrote.dirtree \cup {t.id} /\ wrote'.dirmeta = wrote.dirmeta
        /\ wrote'.content = wrote.content
    BY <1>1, <1>2
  <1>5. /\ Present(archive, wrote) /\ Located(L)
        /\ Mode # "chunk" => TreesAhead(wrote, L) /\ MetasAhead(wrote, L)
        /\ Mode = "commit" => FilesAhead(wrote, L)
        /\ Mode # "commit" => ChunkAhead(wrote, L)
    BY DEF Walking
  <1>6. Mode' = Mode /\ Mode # "chunk"
    BY <1>1, TaskAtHand DEF Mode
  <1>7. Held(archive') = Held(archive) \cup (IF t.id \in wrote.dirtree THEN {} ELSE {Object("dirtree", t.id)})
    <2> DEFINE e == Object("dirtree", t.id)
    <2>1. e \in Entries
      BY <1>3, MadeEntries
    <2>2. y = IF t.id \in wrote.dirtree THEN <<>> ELSE <<e>>
      BY DEF Unless
    <2> HIDE DEF e, y
    <2>3. y \in Seq(Entries) /\ Held(y) = IF t.id \in wrote.dirtree THEN {} ELSE {e}
      BY <2>1, <2>2, HeldFew, Tuples
    <2>4. Held(archive') = Held(archive) \cup Held(y)
      BY <1>1, <1>2, <2>3, HeldJoined
    <2> QED  BY <2>3, <2>4 DEF e
  <1>8. Held(todo') = Held(ft) \cup (Held(dt) \cup R)
    <2>1. ft \in Seq(Tasks) /\ dt \in Seq(Tasks)
      BY <1>3, DirTasksType
    <2> HIDE DEF dt, ft
    <2> DEFINE tl == Tail(todo)
    <2>2. tl \in Seq(Tasks) /\ todo' = ft \o (dt \o tl)
      BY <1>1, <1>2
    <2> HIDE DEF tl
    <2>3. Held(ft \o (dt \o tl)) = Held(ft) \cup (Held(dt) \cup Held(tl))
      BY <2>1, <2>2, HeldThree
    <2> QED  BY <2>2, <2>3, Zenon DEF tl
  <1>9. (t.paths[1] = <<".">> /\ t.id = Root) \/ Len(t.paths[1]) >= 2
    BY <1>1, <1>2, <1>5 DEF Located
  <1>10. Len(t.paths[1]) >= 1 /\ (t.paths[1] = <<".">> => t.id = Root)
    <2> DEFINE p == t.paths[1]
               root == <<".">>
    <2>1. Len(root) = 1 /\ ((p = root /\ t.id = Root) \/ Len(p) >= 2)
      BY <1>9
    <2> HIDE DEF p, root, t
    <2>2. Len(p) >= 1 /\ (p = root => t.id = Root)
      BY <2>1, SMTT(30)
    <2> QED  BY <2>2 DEF p, root
  <1>11. /\ \A x \in Held(dt) : x.op \in {"dir", "sysroot"} /\ Len(x.paths[1]) >= 2
         /\ \A k \in 1..Len(Dirs[t.id]) :
                 \E x \in Held(dt) :
                     /\ x.meta = Dirs[t.id][k].meta /\ x.id = Dirs[t.id][k].tree
                     /\ x.op = (IF t.paths[1] = <<".">> /\ Dirs[t.id][k].name = "sysroot" THEN "sysroot" ELSE "dir")
    BY <1>3, <1>10, DirsHeld
  <1>12. \A x \in Held(ft) : x.op = "file"
    BY <1>3, FilesHeld, HeldFew
  <1> HIDE DEF t, L, R, ft, dt, y
  <1>13. Present(archive', wrote')
    BY <1>4, <1>5, <1>7 DEF Present
  <1>14. Located(Held(todo'))
    BY <1>2, <1>5, <1>8, <1>11, <1>12 DEF Located
  <1>15. TreesAhead(wrote', Held(todo'))
    <2>1. Root \in wrote'.dirtree \/ \E x \in Held(todo') : x.op = "tree" /\ x.id = Root
      BY <1>1, <1>2, <1>4, <1>5, <1>6, <1>8 DEF TreesAhead
    <2>2. ASSUME NEW u \in wrote'.dirtree, NEW k \in 1..Len(Dirs[u])
          PROVE  \/ u = Root /\ Dirs[u][k].name = "sysroot"
                 \/ Dirs[u][k].tree \in wrote'.dirtree
                 \/ \E x \in Held(todo') : x.op \in {"tree", "dir"} /\ x.id = Dirs[u][k].tree
      <3>1. CASE u = t.id
        <4>1. PICK x \in Held(dt) :
                     /\ x.meta = Dirs[u][k].meta /\ x.id = Dirs[u][k].tree
                     /\ x.op = (IF t.paths[1] = <<".">> /\ Dirs[u][k].name = "sysroot" THEN "sysroot" ELSE "dir")
          BY <1>11, <3>1
        <4>2. CASE t.paths[1] = <<".">> /\ Dirs[u][k].name = "sysroot"
          BY <1>10, <3>1, <4>2
        <4>3. CASE ~(t.paths[1] = <<".">> /\ Dirs[u][k].name = "sysroot")
          BY <1>8, <4>1, <4>3
        <4> QED  BY <4>2, <4>3
      <3>2. CASE u \in wrote.dirtree
        BY <1>1, <1>2, <1>4, <1>5, <1>6, <1>8, <3>2, SMTT(30) DEF TreesAhead
      <3> QED  BY <1>4, <3>1, <3>2
    <2> QED  BY <2>1, <2>2 DEF TreesAhead
  <1>16. MetasAhead(wrote', Held(todo'))
    <2>1. RootMeta \in wrote'.dirmeta
      BY <1>4, <1>5, <1>6 DEF MetasAhead
    <2>2. ASSUME NEW u \in wrote'.dirtree, NEW k \in 1..Len(Dirs[u])
          PROVE  \/ Dirs[u][k].meta \in wrote'.dirmeta
                 \/ \E x \in Held(todo') : x.op \in {"dir", "sysroot"} /\ x.meta = Dirs[u][k].meta
      <3>1. CASE u = t.id
        BY <1>8, <1>11, <3>1
      <3>2. CASE u \in wrote.dirtree
        BY <1>1, <1>2, <1>4, <1>5, <1>6, <1>8, <3>2 DEF MetasAhead
      <3> QED  BY <1>4, <3>1, <3>2
    <2> QED  BY <2>1, <2>2 DEF MetasAhead
  <1>17. Mode = "commit" => FilesAhead(wrote', Held(todo'))
    <2> SUFFICES ASSUME Mode = "commit", NEW u \in wrote'.dirtree, NEW k \in 1..Len(Files[u])
                 PROVE  \/ Files[u][k].content \in wrote'.content
                        \/ \E x \in Held(todo') : x.op = "file" /\ x.id = Files[u][k].content
      BY DEF FilesAhead
    <2>1. CASE u = t.id
      <3>1. ft = FileTasks(t.paths[1], t.id)
        BY DEF ft
      <3>2. \E x \in Held(ft) : x.op = "file" /\ x.id = Files[u][k].content
        BY <1>3, <2>1, <3>1, FilesHeld
      <3> QED  BY <1>8, <3>2
    <2>2. CASE u \in wrote.dirtree
      BY <1>1, <1>2, <1>4, <1>5, <1>8, <2>2, SMTT(30) DEF FilesAhead
    <2> QED  BY <1>4, <2>1, <2>2
  <1>18. Mode # "commit" => ChunkAhead(wrote, L)' 
    <2>1. Mode # "commit" => ChunkAhead(wrote', Held(todo'))
      BY <1>1, <1>2, <1>4, <1>5, <1>8 DEF ChunkAhead
    <2> QED  BY <1>1, <2>1 DEF ChunkAhead, L
  <1> QED  BY <1>1, <1>6, <1>13, <1>14, <1>15, <1>16, <1>17, <1>18
           DEF Walking, Present, Located, TreesAhead, MetasAhead, FilesAhead, L

\* The invariant after a step, and after a step that only finishes a task.
LEMMA WalksOn ==
    ASSUME UNCHANGED <<plan, part>>, Present(archive', wrote'), Located(Held(todo')),
           Mode # "chunk" => TreesAhead(wrote', Held(todo')) /\ MetasAhead(wrote', Held(todo')),
           Mode = "commit" => FilesAhead(wrote', Held(todo')),
           Mode # "commit" => ChunkAhead(wrote', Held(todo'))
    PROVE  Walking'
  <1>1. Mode' = Mode /\ (ChunkAhead(wrote', Held(todo')) => ChunkAhead(wrote, Held(todo))')
    BY DEF Mode, ChunkAhead
  <1> QED  BY <1>1 DEF Walking, Present, Located, TreesAhead, MetasAhead, FilesAhead

LEMMA TaskDone ==
    ASSUME NEW w, NEW v, NEW t, NEW R,
           v.dirtree = w.dirtree, w.dirmeta \subseteq v.dirmeta, w.content \subseteq v.content,
           t.op \notin {"tree", "dir"}, t.op \in {"file", "object"} => t.id \in v.content,
           t.op = "sysroot" => t.meta \in v.dirmeta
    PROVE  /\ Located({t} \cup R) => Located(R)
           /\ TreesAhead(w, {t} \cup R) => TreesAhead(v, R)
           /\ MetasAhead(w, {t} \cup R) => MetasAhead(v, R)
           /\ FilesAhead(w, {t} \cup R) => FilesAhead(v, R)
           /\ ChunkAhead(w, {t} \cup R) => ChunkAhead(v, R)
  <1>1. Located({t} \cup R) => Located(R)
    BY DEF Located
  <1>2. TreesAhead(w, {t} \cup R) => TreesAhead(v, R)
    BY DEF TreesAhead
  <1>3. MetasAhead(w, {t} \cup R) => MetasAhead(v, R)
    BY DEF MetasAhead
  <1>4. FilesAhead(w, {t} \cup R) => FilesAhead(v, R)
    BY DEF FilesAhead
  <1>5. ChunkAhead(w, {t} \cup R) => ChunkAhead(v, R)
    BY DEF ChunkAhead
  <1> QED  BY <1>1, <1>2, <1>3, <1>4, <1>5

LEMMA TaskIsDone ==
    ASSUME ExportInv, Walking, export = "run", todo # <<>>, todo' = Tail(todo), UNCHANGED <<plan, part>>,
           Present(archive', wrote'),
           wrote'.dirtree = wrote.dirtree, wrote.dirmeta \subseteq wrote'.dirmeta,
           wrote.content \subseteq wrote'.content,
           Head(todo).op \notin {"tree", "dir"},
           Head(todo).op \in {"file", "object"} => Head(todo).id \in wrote'.content,
           Head(todo).op = "sysroot" => Head(todo).meta \in wrote'.dirmeta
    PROVE  Walking'
  <1> DEFINE t == Head(todo)
             R == Held(Tail(todo))
             w == wrote'
  <1>1. Held(todo) = {t} \cup R /\ Held(todo') = R
    BY TasksLeft
  <1>2. /\ Located(Held(todo))
        /\ Mode # "chunk" => TreesAhead(wrote, Held(todo)) /\ MetasAhead(wrote, Held(todo))
        /\ Mode = "commit" => FilesAhead(wrote, Held(todo))
        /\ Mode # "commit" => ChunkAhead(wrote, Held(todo))
    BY DEF Walking
  <1>3. /\ w.dirtree = wrote.dirtree /\ wrote.dirmeta \subseteq w.dirmeta /\ wrote.content \subseteq w.content
        /\ t.op \notin {"tree", "dir"} /\ (t.op \in {"file", "object"} => t.id \in w.content)
        /\ (t.op = "sysroot" => t.meta \in w.dirmeta)
    OBVIOUS
  <1> HIDE DEF t, R, w
  <1>4. /\ Located({t} \cup R) => Located(R)
        /\ TreesAhead(wrote, {t} \cup R) => TreesAhead(w, R)
        /\ MetasAhead(wrote, {t} \cup R) => MetasAhead(w, R)
        /\ FilesAhead(wrote, {t} \cup R) => FilesAhead(w, R)
        /\ ChunkAhead(wrote, {t} \cup R) => ChunkAhead(w, R)
    BY <1>3, TaskDone
  <1>5. /\ Located(R)
        /\ Mode # "chunk" => TreesAhead(w, R) /\ MetasAhead(w, R)
        /\ Mode = "commit" => FilesAhead(w, R)
        /\ Mode # "commit" => ChunkAhead(w, R)
    BY <1>1, <1>2, <1>4
  <1> QED  BY <1>1, <1>5, WalksOn DEF w

LEMMA SubdirWalks == ASSUME ExportInv, Walking, AppendSubdir PROVE Walking'
  <1> DEFINE t == Head(todo)
             R == Held(Tail(todo))
             e == Object("dirmeta", t.meta)
             y == Unless(t.meta \in wrote.dirmeta, e)
             z == <<Directory(t.paths[1])>>
             n == Task("tree", t.paths, t.id, "")
  <1>1. /\ export = "run" /\ todo # <<>> /\ t.op \in {"dir", "sysroot"}
        /\ wrote' = [wrote EXCEPT !.dirmeta = @ \cup {t.meta}]
        /\ t.op = "sysroot" => archive' = archive \o y /\ todo' = Tail(todo)
        /\ t.op = "dir" => archive' = archive \o (y \o z) /\ todo' = <<n>> \o Tail(todo)
        /\ UNCHANGED <<plan, part>>
    BY DEF AppendSubdir, Doing
  <1>2. Held(todo) = {t} \cup R /\ t \in Tasks /\ Tail(todo) \in Seq(Tasks) /\ archive \in Seq(Entries)
        /\ wrote \in [dirtree : SUBSET Trees, dirmeta : SUBSET Metas, content : SUBSET Contents,
                      xattrs : SUBSET Xattrs, vartmp : BOOLEAN]
    BY <1>1, TasksLeft
  <1>3. t.id \in Trees /\ t.meta \in Metas /\ t.paths \in Places /\ t.paths[1] \in Seq(Names)
    BY <1>1, <1>2, TaskIs
  <1>4. /\ wrote'.dirtree = wrote.dirtree /\ wrote'.dirmeta = wrote.dirmeta \cup {t.meta}
        /\ wrote'.content = wrote.content
    BY <1>1, <1>2
  <1>5. Held(archive) \subseteq Held(archive') /\ (e \in Held(archive') \/ t.meta \in wrote.dirmeta)
    <2>1. e \in Entries /\ Directory(t.paths[1]) \in Entries
      BY <1>3, MadeEntries
    <2>2. z \in Seq(Entries)
      BY <2>1, Tuples
    <2>3. y = IF t.meta \in wrote.dirmeta THEN <<>> ELSE <<e>>
      BY DEF Unless
    <2> HIDE DEF e, y, z, t, n
    <2>4. y \in Seq(Entries) /\ (e \in Held(y) \/ t.meta \in wrote.dirmeta)
      BY <2>1, <2>3, HeldFew, Tuples
    <2>5. Held(archive \o y) = Held(archive) \cup Held(y)
      BY <1>2, <2>4, HeldJoined
    <2>6. Held(archive \o (y \o z)) = Held(archive) \cup (Held(y) \cup Held(z))
      BY <1>2, <2>2, <2>4, HeldThree
    <2>7. \/ Held(archive') = Held(archive) \cup Held(y)
          \/ Held(archive') = Held(archive) \cup (Held(y) \cup Held(z))
      <3>1. archive' = archive \o y \/ archive' = archive \o (y \o z)
        BY <1>1, Zenon
      <3> QED  BY <2>5, <2>6, <3>1, Zenon
    <2> QED  BY <2>4, <2>7
  <1>6. Present(archive, wrote)
    BY DEF Walking
  <1>7. Present(archive', wrote')
    BY <1>4, <1>5, <1>6 DEF Present
  <1>8. CASE t.op = "sysroot"
    BY <1>1, <1>4, <1>7, <1>8, TaskIsDone
  <1>9. CASE t.op = "dir"
    <2>1. Held(todo') = {n} \cup R
      <3>1. n \in Tasks
        BY <1>3 DEF Task, Tasks
      <3> DEFINE tl == Tail(todo)
                 one == <<n>>
      <3>2. tl \in Seq(Tasks) /\ todo' = one \o tl /\ one \in Seq(Tasks) /\ Held(one) = {n}
        BY <1>1, <1>2, <1>9, <3>1, Tuples, HeldFew
      <3> HIDE DEF n, tl, one
      <3>3. Held(one \o tl) = Held(one) \cup Held(tl)
        BY <3>2, HeldJoined
      <3> QED  BY <3>2, <3>3, Zenon DEF tl
    <2>2. n.op = "tree" /\ n.paths = t.paths /\ n.id = t.id
      BY DEF Task
    <2>3. /\ Located({t} \cup R)
          /\ Mode # "chunk" => TreesAhead(wrote, {t} \cup R) /\ MetasAhead(wrote, {t} \cup R)
          /\ Mode = "commit" => FilesAhead(wrote, {t} \cup R)
          /\ Mode # "commit" => ChunkAhead(wrote, {t} \cup R)
      BY <1>2 DEF Walking
    <2> DEFINE w == wrote'
               M == {n} \cup R
    <2>4. w.dirtree = wrote.dirtree /\ w.dirmeta = wrote.dirmeta \cup {t.meta} /\ w.content = wrote.content
      BY <1>4
    <2> HIDE DEF t, n, R, w
    <2>5. Located(M)
      <3>1. Len(t.paths[1]) >= 2
        BY <1>9, <2>3 DEF Located
      <3> QED  BY <2>2, <2>3, <3>1 DEF Located
    <2>6. Mode # "chunk" => TreesAhead(w, M)
      BY <1>9, <2>2, <2>3, <2>4 DEF TreesAhead
    <2>7. Mode # "chunk" => MetasAhead(w, M)
      BY <1>9, <2>2, <2>3, <2>4 DEF MetasAhead
    <2>8. Mode = "commit" => FilesAhead(w, M)
      BY <1>9, <2>2, <2>3, <2>4 DEF FilesAhead
    <2>9. Mode # "commit" => ChunkAhead(w, M)
      BY <1>9, <2>2, <2>3, <2>4 DEF ChunkAhead
    <2> HIDE DEF M
    <2> QED  BY <1>1, <1>7, <2>1, <2>5, <2>6, <2>7, <2>8, <2>9, WalksOn DEF w, M
  <1> QED  BY <1>1, <1>8, <1>9

LEMMA ObjectHeld ==
    ASSUME NEW c \in Contents
    PROVE  c \in wrote.content \/ Object("file", c) \in Held(ContentEntries(c))
  <1> DEFINE first == Unless(XattrOf[c] \in wrote.xattrs, Object("file-xattrs", XattrOf[c]))
             f == Object("file", c)
             l == XattrsLink(c, XattrOf[c])
             pair == <<l, f>>
  <1> SUFFICES ASSUME c \notin wrote.content PROVE f \in Held(ContentEntries(c))
    OBVIOUS
  <1>1. ContentEntries(c) = first \o pair
    BY Zenon DEF ContentEntries
  <1>2. XattrOf[c] \in Xattrs /\ l \in Entries /\ f \in Entries /\ Object("file-xattrs", XattrOf[c]) \in Entries
    BY TreeAssumption, MadeEntries
  <1>3. first \in Seq(Entries)
    <2> DEFINE e == Object("file-xattrs", XattrOf[c])
    <2>1. first = <<>> \/ first = <<e>>
      BY DEF Unless
    <2> HIDE DEF e, first
    <2> QED  BY <1>2, <2>1, Tuples DEF e
  <1> HIDE DEF f, l, first
  <1>4. pair \in Seq(Entries) /\ f \in Held(pair)
    BY <1>2, Tuples, HeldFew
  <1> HIDE DEF pair
  <1>5. Held(first \o pair) = Held(first) \cup Held(pair)
    BY <1>3, <1>4, HeldJoined
  <1> QED  BY <1>1, <1>4, <1>5

\* A content object and the paths to it.
LEMMA ContentPresent ==
    ASSUME ExportInv, Walking, export = "run", NEW c \in Contents, NEW y \in Seq(Entries),
           archive' = archive \o (ContentEntries(c) \o y), wrote' = WroteContent(c)
    PROVE  /\ Present(archive', wrote')
           /\ wrote'.dirtree = wrote.dirtree /\ wrote'.dirmeta = wrote.dirmeta
           /\ wrote'.content = wrote.content \cup {c}
  <1>1. archive \in Seq(Entries) /\ Present(archive, wrote)
        /\ wrote \in [dirtree : SUBSET Trees, dirmeta : SUBSET Metas, content : SUBSET Contents,
                      xattrs : SUBSET Xattrs, vartmp : BOOLEAN]
    BY DEF ExportInv, ExportTypes, Walking
  <1>2. ContentEntries(c) \in Seq(Entries)
    BY ContentWritten DEF ExportInv
  <1>3. /\ wrote'.dirtree = wrote.dirtree /\ wrote'.dirmeta = wrote.dirmeta
        /\ wrote'.content = wrote.content \cup {c}
    BY <1>1 DEF WroteContent
  <1>4. Held(archive') = Held(archive) \cup (Held(ContentEntries(c)) \cup Held(y))
    BY <1>1, <1>2, HeldThree
  <1>5. c \in wrote.content \/ Object("file", c) \in Held(ContentEntries(c))
    BY ObjectHeld
  <1>6. Present(archive', wrote')
    BY <1>1, <1>3, <1>4, <1>5 DEF Present
  <1> QED  BY <1>3, <1>6

LEMMA FileWalks == ASSUME ExportInv, Walking, AppendFile PROVE Walking'
  <1> DEFINE t == Head(todo)
             y == <<CheckoutEntry(t.id, t.paths[1])>>
  <1>1. /\ export = "run" /\ todo # <<>> /\ t.op = "file"
        /\ archive' = archive \o (ContentEntries(t.id) \o y)
        /\ wrote' = WroteContent(t.id) /\ todo' = Tail(todo)
        /\ UNCHANGED <<plan, part>>
    BY DEF AppendFile, Doing
  <1>2. t.id \in Contents /\ t.paths[1] \in Seq(Names)
    BY <1>1, TasksLeft, TaskIs
  <1>3. CheckoutEntry(t.id, t.paths[1]) \in Entries
    BY <1>2, CheckoutPlain DEF Plain
  <1>4. y \in Seq(Entries)
    BY <1>3, Tuples
  <1> HIDE DEF y
  <1>5. /\ Present(archive', wrote')
        /\ wrote'.dirtree = wrote.dirtree /\ wrote'.dirmeta = wrote.dirmeta
        /\ wrote'.content = wrote.content \cup {t.id}
    BY <1>1, <1>2, <1>4, ContentPresent
  <1> QED  BY <1>1, <1>5, TaskIsDone

LEMMA ChunkWalks == ASSUME ExportInv, Walking, WriteChunkObject PROVE Walking'
  <1> DEFINE t == Head(todo)
             n == Len(t.paths)
             y == [k \in 1..n |-> CheckoutEntry(t.id, PathForTarV1(t.paths[k]))]
  <1>1. /\ export = "run" /\ todo # <<>> /\ t.op = "object"
        /\ archive' = archive \o (ContentEntries(t.id) \o y)
        /\ wrote' = WroteContent(t.id) /\ todo' = Tail(todo)
        /\ UNCHANGED <<plan, part>>
    BY DEF WriteChunkObject, Doing
  <1>2. t.id \in Contents /\ t.paths \in Seq(Seq(Names))
    BY <1>1, TasksLeft, TaskIs
  <1>3. y \in Seq(Entries)
    <2>1. n \in Nat
      BY <1>2
    <2>2. ASSUME NEW k \in 1..n
          PROVE  CheckoutEntry(t.id, PathForTarV1(t.paths[k])) \in Entries
      <3>1. PathForTarV1(t.paths[k]) \in Seq(Names)
        BY <1>2, Element, PathForTarType
      <3> QED  BY <1>2, <3>1, CheckoutPlain DEF Plain
    <2>3. y \in [1..n -> Entries]
      BY <2>2
    <2> HIDE DEF y, n
    <2> QED  BY <2>1, <2>3, Tabulated
  <1> HIDE DEF y
  <1>4. /\ Present(archive', wrote')
        /\ wrote'.dirtree = wrote.dirtree /\ wrote'.dirmeta = wrote.dirmeta
        /\ wrote'.content = wrote.content \cup {t.id}
    BY <1>1, <1>2, <1>3, ContentPresent
  <1> QED  BY <1>1, <1>4, TaskIsDone
LEMMA VarWalks == ASSUME ExportInv, Walking, AppendStandardVar PROVE Walking'
  <1> DEFINE d == Directory(<<"var", "tmp">>)
             y == Unless(wrote.vartmp, d)
  <1>1. /\ export = "run" /\ todo # <<>> /\ Head(todo).op = "var"
        /\ archive' = archive \o y /\ todo' = Tail(todo) /\ UNCHANGED <<plan, part, wrote>>
    BY DEF AppendStandardVar, Doing
  <1>2. d \in Entries /\ archive \in Seq(Entries)
    <2>1. <<"var", "tmp">> \in Seq(Names)
      BY TreeAssumption, Tuples
    <2> QED  BY <2>1, MadeEntries DEF ExportInv, ExportTypes
  <1>3. y = <<>> \/ y = <<d>>
    BY DEF Unless
  <1> HIDE DEF d, y
  <1>4. y \in Seq(Entries)
    BY <1>2, <1>3, Tuples
  <1>5. Held(archive') = Held(archive) \cup Held(y)
    BY <1>1, <1>2, <1>4, HeldJoined
  <1>6. Present(archive', wrote')
    BY <1>1, <1>5, PresentGrows DEF Walking
  <1> QED  BY <1>1, <1>6, TaskIsDone

LEMMA SymlinkWalks == ASSUME ExportInv, Walking, AppendRepeatedSymlink, export' = "run" PROVE Walking'
  <1> DEFINE t == Head(todo)
             e == EmptyFile(t.paths[1])
  <1>1. /\ export = "run" /\ todo # <<>> /\ t.op = "file" /\ t.id \in wrote.content
        /\ archive' = Append(archive, e) /\ todo' = Tail(todo) /\ UNCHANGED <<plan, part, wrote>>
    BY DEF AppendRepeatedSymlink, Doing
  <1>2. e \in Entries /\ archive \in Seq(Entries)
    <2>1. t.paths[1] \in Seq(Names)
      BY <1>1, TasksLeft, TaskIs
    <2> QED  BY <2>1, MadeEntries DEF ExportInv, ExportTypes
  <1> DEFINE one == <<e>>
  <1>3. archive' = archive \o one
    BY <1>1, <1>2
  <1>4. one \in Seq(Entries)
    BY <1>2, Tuples
  <1> HIDE DEF one, e
  <1>5. Held(archive') = Held(archive) \cup Held(one)
    BY <1>2, <1>3, <1>4, HeldJoined
  <1>6. Present(archive', wrote')
    BY <1>1, <1>5, PresentGrows DEF Walking
  <1> QED  BY <1>1, <1>6, TaskIsDone

LEMMA StartWalks == ASSUME ExportInv, StartExport PROVE Walking'
  <1>1. export' = "run" /\ UNCHANGED <<plan, part, detached>> /\ plan \in Plans /\ part \in 1..Len(plan)
    BY DEF StartExport, ExportInv, ExportTypes
  <1>2. /\ \A x \in Held(ChunkTasks) : x.op = "object"
        /\ \A k \in 1..Len(plan[part].chunk) :
              \E x \in Held(ChunkTasks) : x.op = "object" /\ x.id = plan[part].chunk[k].content
    BY <1>1, ChunksHeld
  <1>3. CASE Mode = "chunk"
    <2>1. todo' = ChunkTasks /\ wrote' = NothingWritten
      BY <1>3 DEF StartExport
    <2> HIDE DEF ChunkTasks
    <2>2. Present(archive', wrote')
      BY <2>1 DEF Present, NothingWritten
    <2>3. Located(Held(todo'))
      BY <1>2, <2>1 DEF Located
    <2>4. ChunkAhead(wrote', Held(todo'))
      BY <1>2, <2>1 DEF ChunkAhead
    <2> QED  BY <1>1, <1>3, <2>2, <2>3, <2>4, WalksOn
  <1>4. CASE Mode # "chunk"
    <2> DEFINE root == Task("tree", << <<".">> >>, Root, "")
               var == Task("var", <<>>, "", "")
               two == <<root, var>>
               more == IF Mode = "final" THEN ChunkTasks ELSE <<>>
    <2>1. todo' = two \o more /\ wrote' = [NothingWritten EXCEPT !.dirmeta = {RootMeta}]
      BY <1>4 DEF StartExport
    <2>2. wrote'.dirtree = {} /\ wrote'.dirmeta = {RootMeta} /\ wrote'.content = {}
      BY <2>1 DEF NothingWritten
    <2>3. root \in Tasks /\ var \in Tasks
      <3>1. <<".">> \in Seq(Names)
        BY TreeAssumption, Tuples
      <3>2. << <<".">> >> \in Places
        BY <3>1 DEF Places
      <3> QED  BY <3>2, TreeAssumption DEF Task, Tasks
    <2>4. root.op = "tree" /\ root.id = Root /\ root.paths[1] = <<".">> /\ var.op = "var"
      BY DEF Task
    <2>5. more \in Seq(Tasks) /\ (more = ChunkTasks \/ more = <<>>) /\ (Mode # "commit" => more = ChunkTasks)
      <3>1. ChunkTasks \in Seq(Tasks)
        BY <1>1, ChunkTasksType
      <3>2. Mode \in {"commit", "chunk", "final"}
        <4>1. plan \in Seq(Archives)
          BY <1>1, PlansAssumption
        <4>2. plan[part] \in Archives
          BY <1>1, <4>1, Element
        <4> QED  BY <4>2 DEF Mode, Archives
      <3> QED  BY <1>4, <3>1, <3>2
    <2> HIDE DEF root, var, more
    <2>6. two \in Seq(Tasks) /\ Held(two) = {root, var}
      BY <2>3, Tuples, HeldFew
    <2> HIDE DEF two
    <2>7. Held(todo') = {root, var} \cup Held(more)
      <3>1. Held(two \o more) = Held(two) \cup Held(more)
        BY <2>5, <2>6, HeldJoined
      <3> QED  BY <2>1, <2>6, <3>1, Zenon
    <2>8. \A x \in Held(more) : x.op = "object"
      BY <1>2, <2>5, HeldFew
    <2>9. Object("dirmeta", RootMeta) \in Held(archive')
      <3>1. Headed(archive)' /\ Mode' # "chunk" /\ archive' \in Seq(Entries)
        BY <1>1, <1>4, StartKeeps DEF ExportInv, ExportTypes, Mode
      <3>2. Len(archive') \in Nat
        BY <3>1
      <3>3. \E k \in 1..Len(archive') : archive'[k] = Object("dirmeta", RootMeta)
        BY <3>1, <3>2 DEF Headed
      <3> QED  BY <3>3 DEF Held
    <2>10. Present(archive', wrote')
      BY <2>2, <2>9 DEF Present
    <2>11. Located(Held(todo'))
      BY <2>4, <2>7, <2>8 DEF Located
    <2>12. TreesAhead(wrote', Held(todo')) /\ MetasAhead(wrote', Held(todo')) /\ FilesAhead(wrote', Held(todo'))
      BY <2>2, <2>4, <2>7 DEF TreesAhead, MetasAhead, FilesAhead
    <2>13. Mode # "commit" => ChunkAhead(wrote', Held(todo'))
      BY <1>2, <2>5, <2>7 DEF ChunkAhead
    <2> QED  BY <1>1, <2>10, <2>11, <2>12, <2>13, WalksOn
  <1> QED  BY <1>3, <1>4

\* The objects of the commit, one kind at a time.
LEMMA CommitObjectIs ==
    ASSUME NEW o \in CommitObjects
    PROVE  \/ o = <<"commit", Commit>>
           \/ o = <<"dirmeta", RootMeta>>
           \/ \E t \in CommitTrees : o = <<"dirtree", t>>
           \/ \E t \in CommitTrees : \E k \in 1..Len(Dirs[t]) : o = <<"dirmeta", Dirs[t][k].meta>>
           \/ \E t \in CommitTrees : \E k \in 1..Len(Files[t]) : o = <<"file", Files[t][k].content>>
  BY Zenon DEF CommitObjects

(***************************************************************************)
(* The walk has ended: the trees that were written are closed under        *)
(* subdirectories, but for the top level sysroot, so they are all the      *)
(* trees of the commit.                                                    *)
(***************************************************************************)
LEMMA WalkEnds ==
    ASSUME SysrootShared, ExportInv, Walking, export = "run", todo = <<>>
    PROVE  Whole(archive)
  <1>1. Held(todo) = {}
    BY HeldFew
  <1>2. Present(archive, wrote)
    BY DEF Walking
  <1>3. wrote.dirtree \subseteq Trees
    BY DEF ExportInv, ExportTypes
  <1>4. ASSUME Mode # "chunk" PROVE CommitTrees \subseteq wrote.dirtree
    <2>1. TreesAhead(wrote, {})
      BY <1>1, <1>4 DEF Walking
    <2>2. Root \in wrote.dirtree
          /\ \A t \in wrote.dirtree : \A k \in 1..Len(Dirs[t]) :
                Dirs[t][k].tree \in wrote.dirtree \/ (t = Root /\ Dirs[t][k].name = "sysroot")
      BY <2>1 DEF TreesAhead
    <2> QED  BY <1>3, <2>2 DEF SysrootShared
  <1>5. ASSUME Mode # "chunk" PROVE Object("commit", Commit) \in Held(archive)
    <2>1. Headed(archive) /\ archive \in Seq(Entries)
      BY DEF ExportInv, ExportTypes
    <2>2. Len(archive) \in Nat /\ Len(archive) >= 5 /\ archive[4] = Object("commit", Commit)
      BY <1>5, <2>1 DEF Headed
    <2>3. 4 \in 1..Len(archive)
      BY <2>2
    <2> QED  BY <2>2, <2>3 DEF Held
  <1>6. ASSUME Mode # "chunk", NEW o \in CommitObjects, o[1] # "file" PROVE Object(o[1], o[2]) \in Held(archive)
    <2>1. MetasAhead(wrote, {})
      BY <1>1, <1>6 DEF Walking
    <2>2. CASE o = <<"commit", Commit>>
      BY <1>5, <1>6, <2>2
    <2>3. CASE o = <<"dirmeta", RootMeta>>
      BY <1>2, <2>1, <2>3 DEF MetasAhead, Present
    <2>4. ASSUME NEW t \in CommitTrees, o = <<"dirtree", t>> PROVE Object(o[1], o[2]) \in Held(archive)
      BY <1>2, <1>4, <1>6, <2>4 DEF Present
    <2>5. ASSUME NEW t \in CommitTrees, NEW k \in 1..Len(Dirs[t]), o = <<"dirmeta", Dirs[t][k].meta>>
          PROVE  Object(o[1], o[2]) \in Held(archive)
      <3>1. Dirs[t][k].meta \in wrote.dirmeta
        BY <1>4, <1>6, <2>1 DEF MetasAhead
      <3> QED  BY <1>2, <2>5, <3>1 DEF Present
    <2>6. ASSUME NEW t \in CommitTrees, NEW k \in 1..Len(Files[t]), o = <<"file", Files[t][k].content>> PROVE FALSE
      BY <1>6, <2>6
    <2> QED  BY <2>2, <2>3, <2>4, <2>5, <2>6, CommitObjectIs
  <1>7. ASSUME Mode = "commit", NEW o \in CommitObjects, o[1] = "file" PROVE Object(o[1], o[2]) \in Held(archive)
    <2>1. FilesAhead(wrote, {}) /\ CommitTrees \subseteq wrote.dirtree
      BY <1>1, <1>4, <1>7 DEF Walking
    <2>2. PICK t \in CommitTrees : \E k \in 1..Len(Files[t]) : o = <<"file", Files[t][k].content>>
      BY <1>7, CommitObjectIs
    <2>3. PICK k \in 1..Len(Files[t]) : o = <<"file", Files[t][k].content>>
      BY <2>2
    <2>4. Files[t][k].content \in wrote.content
      BY <2>1 DEF FilesAhead
    <2> QED  BY <1>2, <2>3, <2>4 DEF Present
  <1>8. ASSUME Mode # "commit", NEW k \in 1..Len(plan[part].chunk)
        PROVE  Object("file", plan[part].chunk[k].content) \in Held(archive)
    <2>1. ChunkAhead(wrote, {})
      BY <1>1, <1>8 DEF Walking
    <2>2. plan[part].chunk[k].content \in wrote.content
      BY <2>1 DEF ChunkAhead
    <2> QED  BY <1>2, <2>2 DEF Present
  <1> QED  BY <1>6, <1>7, <1>8 DEF Whole

LEMMA ReinjectHolds ==
    ASSUME ExportInv, NEW signature \in Signatures, Reinject(signature),
           NEW e \in Held(archive), e.type # "commitmeta"
    PROVE  e \in Held(archive')
  <1> DEFINE m == IF signature = "none" THEN 0 ELSE 1
             r == IF detached = "none" THEN 0 ELSE 1
             b == archive'
  <1>1. /\ b \in Seq(Entries) /\ Len(b) = Len(archive) + m - r
        /\ \A k \in 1..4 : b[k] = archive[k]
        /\ \A k \in (5 + m)..Len(b) : b[k] = archive[k - m + r]
    BY Reinjected, Zenon
  <1>2. Headed(archive) /\ archive \in Seq(Entries) /\ Mode # "chunk"
    BY DEF ExportInv, ExportTypes, Reinject
  <1>3. r = 1 => archive[5].type = "commitmeta"
    BY <1>2 DEF Headed, CommitMeta, Entry
  <1>4. m \in {0, 1} /\ r \in {0, 1} /\ Len(archive) \in Nat
    BY <1>2
  <1>5. Len(archive) >= 5 + r
    BY <1>2 DEF Headed
  <1> HIDE DEF m, r, b
  <1>6. PICK i \in 1..Len(archive) : archive[i] = e
    BY DEF Held
  <1>7. CASE i \in 1..4
    <2>1. i \in 1..Len(b) /\ b[i] = e
      BY <1>1, <1>4, <1>5, <1>6, <1>7
    <2> QED  BY <2>1 DEF Held, b
  <1>8. CASE i \in (5 + r)..Len(archive)
    <2>1. i + m - r \in (5 + m)..Len(b) /\ i + m - r \in 1..Len(b) /\ (i + m - r) - m + r = i
      BY <1>1, <1>4, <1>8
    <2>2. b[i + m - r] = e
      BY <1>1, <1>6, <2>1
    <2> QED  BY <2>1, <2>2 DEF Held, b
  <1>9. i # 5 \/ r = 0
    BY <1>3, <1>4, <1>6
  <1> QED  BY <1>4, <1>6, <1>7, <1>8, <1>9

LEMMA WholeStays ==
    ASSUME UNCHANGED <<plan, part>>, Whole(archive),
           \A e \in Held(archive) : e.type # "commitmeta" => e \in Held(archive')
    PROVE  Whole(archive)'
  <1>1. ASSUME NEW type \in {"commit", "dirtree", "dirmeta", "file"}, NEW id, Object(type, id) \in Held(archive)
        PROVE  Object(type, id) \in Held(archive')
    <2>1. Object(type, id).type # "commitmeta"
      BY ObjectIs
    <2> QED  BY <1>1, <2>1
  <1>2. \A o \in CommitObjects : o[1] \in {"commit", "dirtree", "dirmeta", "file"}
    <2> SUFFICES ASSUME NEW o \in CommitObjects PROVE o[1] \in {"commit", "dirtree", "dirmeta", "file"}
      OBVIOUS
    <2> QED  BY CommitObjectIs
  <1>3. Mode' = Mode /\ plan[part]' = plan[part]
    BY DEF Mode
  <1> QED  BY <1>1, <1>2, <1>3 DEF Whole

LEMMA WalkKeeps ==
    ASSUME ExportInv, export = "run" => Walking, [Next]_vars, export' = "run"
    PROVE  Walking'
  <1>1. CASE Export
    <2>1. ExportStep
      BY <1>1 DEF Export
    <2>2. CASE StartExport
      BY <2>2, StartWalks
    <2>3. CASE FinishExport
      BY <2>3 DEF FinishExport
    <2>4. CASE AppendRepeatedSymlink
      <3>1. export = "run"
        BY <2>4 DEF AppendRepeatedSymlink, Doing
      <3> QED  BY <2>4, <3>1, SymlinkWalks
    <2>5. CASE AppendDirtree \/ AppendSubdir \/ AppendFile \/ AppendStandardVar \/ WriteChunkObject
      <3>1. export = "run"
        BY <2>5 DEF AppendDirtree, AppendSubdir, AppendFile, AppendStandardVar, WriteChunkObject, Doing
      <3> QED  BY <2>5, <3>1, DirtreeWalks, SubdirWalks, FileWalks, VarWalks, ChunkWalks
    <2> QED  BY <2>1, <2>2, <2>3, <2>4, <2>5 DEF ExportStep
  <1>2. CASE ReplaceMetadata \/ Truncate \/ ExportAgain \/ (\E a \in Foreign : Receive(a)) \/ NextPart \/ Resend
    BY <1>2 DEF ReplaceMetadata, Reinject, Truncate, Cut, ExportAgain, Receive, NextPart, Resend
  <1>3. ASSUME UNCHANGED exportVars PROVE Walking'
    BY <1>3 DEF exportVars, Walking, Mode, Present, Located, TreesAhead, MetasAhead, FilesAhead, ChunkAhead
  <1>4. CASE Import \/ Read \/ Crash \/ ImportAgain \/ UNCHANGED vars
    BY <1>3, <1>4 DEF Import, Read, Crash, ImportAgain, vars
  <1> QED  BY <1>1, <1>2, <1>4 DEF Next

\* The steps after which an archive is finished.
LEMMA DoneSteps ==
    ASSUME [Next]_vars, export' = "done"
    PROVE  \/ FinishExport
           \/ \E s \in Signatures : Reinject(s)
           \/ UNCHANGED exportVars
  <1>1. CASE Export
    BY <1>1 DEF Export, ExportStep, StartExport, AppendDirtree, AppendSubdir, AppendFile, AppendRepeatedSymlink,
                AppendStandardVar, WriteChunkObject, Doing
  <1>2. CASE ReplaceMetadata
    BY <1>2 DEF ReplaceMetadata, Signatures
  <1>3. CASE Truncate \/ ExportAgain \/ (\E a \in Foreign : Receive(a)) \/ NextPart \/ Resend
    BY <1>3 DEF Truncate, Cut, ExportAgain, Receive, NextPart, Resend
  <1>4. CASE Import \/ Read \/ Crash \/ ImportAgain \/ UNCHANGED vars
    BY <1>4 DEF Import, Read, Crash, ImportAgain, vars
  <1> QED  BY <1>1, <1>2, <1>3, <1>4 DEF Next

LEMMA WriteKeeps ==
    ASSUME SysrootShared, ExportInv, WriteInv, [Next]_vars
    PROVE  WriteInv'
  <1>1. export' = "run" => Walking'
    BY WalkKeeps DEF WriteInv
  <1>2. ASSUME export' = "done" PROVE Whole(archive)'
    <2>1. CASE FinishExport
      <3>1. export = "run" /\ todo = <<>> /\ UNCHANGED <<archive, plan, part>>
        BY <2>1 DEF FinishExport
      <3>2. Whole(archive)
        BY <3>1, WalkEnds DEF WriteInv
      <3> QED  BY <3>1, <3>2 DEF Whole, Mode
    <2>2. CASE \E s \in Signatures : Reinject(s)
      <3>1. PICK s \in Signatures : Reinject(s)
        BY <2>2
      <3>2. export = "done" /\ UNCHANGED <<plan, part>>
        BY <3>1 DEF Reinject
      <3>3. \A e \in Held(archive) : e.type # "commitmeta" => e \in Held(archive')
        BY <3>1, ReinjectHolds
      <3> QED  BY <3>2, <3>3, WholeStays DEF WriteInv
    <2>3. CASE UNCHANGED exportVars
      BY <1>2, <2>3 DEF exportVars, WriteInv, Whole, Mode
    <2> QED  BY <1>2, <2>1, <2>2, <2>3, DoneSteps
  <1> QED  BY <1>1, <1>2 DEF WriteInv

-----------------------------------------------------------------------------
(***************************************************************************)
(* A hardlink comes after its object.                                      *)
(***************************************************************************)
Linked(a) ==
    \A k \in 1..Len(a) : a[k].type = "link" => \E j \in 1..(k - 1) : a[j] = Object("file", a[k].id)
LinkInv ==
    /\ export = "run" => Walking
    /\ export \in {"run", "done"} => Linked(archive)

LEMMA LinkedJoined ==
    ASSUME NEW a \in Seq(Entries), NEW y \in Seq(Entries), Linked(a),
           \A e \in Held(y) : e.type = "link" => Object("file", e.id) \in Held(a)
    PROVE  Linked(a \o y)
  <1> DEFINE b == a \o y
  <1>1. /\ Len(b) = Len(a) + Len(y) /\ Len(a) \in Nat /\ Len(y) \in Nat
        /\ \A k \in 1..Len(a) : b[k] = a[k]
        /\ \A k \in 1..(Len(a) + Len(y)) : k > Len(a) => b[k] = y[k - Len(a)]
    BY Joined
  <1> HIDE DEF b
  <1> SUFFICES ASSUME NEW k \in 1..Len(b), b[k].type = "link"
               PROVE  \E j \in 1..(k - 1) : b[j] = Object("file", b[k].id)
    BY DEF Linked, b
  <1>2. CASE k \in 1..Len(a)
    <2>1. a[k].type = "link" /\ a[k] = b[k]
      BY <1>1, <1>2
    <2>2. PICK j \in 1..(k - 1) : a[j] = Object("file", a[k].id)
      BY <1>2, <2>1 DEF Linked
    <2>3. j \in 1..Len(a)
      BY <1>1, <1>2
    <2> QED  BY <1>1, <2>1, <2>2, <2>3
  <1>3. CASE k > Len(a)
    <2>1. k - Len(a) \in 1..Len(y) /\ b[k] = y[k - Len(a)]
      BY <1>1, <1>3
    <2>2. b[k] \in Held(y)
      BY <2>1 DEF Held
    <2>3. PICK j \in 1..Len(a) : a[j] = Object("file", b[k].id)
      BY <2>2 DEF Held
    <2>4. j \in 1..(k - 1)
      BY <1>1, <1>3
    <2> QED  BY <1>1, <2>3, <2>4
  <1> QED  BY <1>1, <1>2, <1>3

\* The entries of a content object, and the checkout entries that follow them.
LEMMA ContentLinked ==
    ASSUME ExportInv, Walking, export = "run", Linked(archive), NEW c \in Contents, NEW y \in Seq(Entries),
           \A e \in Held(y) : e.type = "link" => e.id = c,
           archive' = archive \o (ContentEntries(c) \o y), wrote' = WroteContent(c)
    PROVE  Linked(archive')
  <1> DEFINE x == ContentEntries(c)
             b == archive \o x
  <1>1. archive \in Seq(Entries) /\ x \in Seq(Entries) /\ Follows(archive, b, {"file", "file-xattrs", "file-xattrs-link"})
    BY ContentWritten DEF ExportInv, ExportTypes
  <1>2. archive' = b \o y
    BY <1>1, JoinedTwice
  <1>3. b \in Seq(Entries) /\ Len(b) = Len(archive) + Len(x) /\ Len(archive) \in Nat /\ Len(x) \in Nat
    BY <1>1, Joined
  <1>4. Object("file", c) \in Held(b)
    <2>1. c \in wrote.content \/ Object("file", c) \in Held(x)
      BY ObjectHeld
    <2>2. Held(b) = Held(archive) \cup Held(x)
      BY <1>1, HeldJoined
    <2>3. c \in wrote.content => Object("file", c) \in Held(archive)
      BY DEF Walking, Present
    <2> QED  BY <2>1, <2>2, <2>3
  <1> HIDE DEF x, b
  <1>5. Linked(b)
    <2> SUFFICES ASSUME NEW k \in 1..Len(b), b[k].type = "link"
                 PROVE  \E j \in 1..(k - 1) : b[j] = Object("file", b[k].id)
      BY DEF Linked
    <2>1. k \in 1..Len(archive) /\ \A j \in 1..k : b[j] = archive[j]
      <3>1. (\A j \in 1..Len(archive) : b[j] = archive[j])
            /\ (k > Len(archive) => b[k].type \in {"file", "file-xattrs", "file-xattrs-link"})
        BY <1>1 DEF Follows
      <3>2. k \in 1..Len(archive)
        BY <1>3, <3>1
      <3> QED  BY <1>3, <3>1, <3>2, SMTT(30)
    <2>2. PICK j \in 1..(k - 1) : archive[j] = Object("file", archive[k].id)
      BY <2>1 DEF Linked
    <2> QED  BY <2>1, <2>2
  <1>6. \A e \in Held(y) : e.type = "link" => Object("file", e.id) \in Held(b)
    BY <1>4
  <1> QED  BY <1>2, <1>3, <1>5, <1>6, LinkedJoined

\* Entries among which is no hardlink.
Linkless(y) == y \in Seq(Entries) /\ \A e \in Held(y) : e.type # "link"

LEMMA LinklessJoined ==
    ASSUME NEW x, NEW y, Linkless(x), Linkless(y)
    PROVE  Linkless(x \o y)
  <1>1. x \in Seq(Entries) /\ y \in Seq(Entries)
    BY DEF Linkless
  <1>2. x \o y \in Seq(Entries) /\ Held(x \o y) = Held(x) \cup Held(y)
    BY <1>1, Joined, HeldJoined
  <1> QED  BY <1>2 DEF Linkless

LEMMA LinklessFew ==
    /\ Linkless(<<>>)
    /\ \A e \in Entries : e.type # "link" => Linkless(<<e>>)
    /\ \A e, f \in Entries : e.type # "link" /\ f.type # "link" => Linkless(<<e, f>>)
  <1>1. Linkless(<<>>)
    BY HeldFew DEF Linkless
  <1>2. ASSUME NEW e \in Entries, e.type # "link" PROVE Linkless(<<e>>)
    <2>1. <<e>> \in Seq(Entries) /\ Held(<<e>>) = {e}
      BY Tuples, HeldFew
    <2> QED  BY <1>2, <2>1, Zenon DEF Linkless
  <1>3. ASSUME NEW e \in Entries, NEW f \in Entries, e.type # "link", f.type # "link" PROVE Linkless(<<e, f>>)
    <2>1. <<e, f>> \in Seq(Entries) /\ Held(<<e, f>>) = {e, f}
      BY Tuples, HeldFew
    <2> QED  BY <1>3, <2>1, Zenon DEF Linkless
  <1> QED  BY <1>1, <1>2, <1>3

LEMMA LinklessUnless ==
    ASSUME NEW p, NEW e \in Entries, e.type # "link"
    PROVE  Linkless(Unless(p, e))
  <1>1. Unless(p, e) = <<>> \/ Unless(p, e) = <<e>>
    BY DEF Unless
  <1>2. Linkless(<<>>) /\ Linkless(<<e>>)
    BY LinklessFew
  <1> QED  BY <1>1, <1>2, Zenon

LEMMA LinklessStart ==
    ASSUME ExportInv, StartExport
    PROVE  Linkless(archive')
  <1> DEFINE dir == Directory(<<"sysroot">>)
             config == Entry("config", "", "", <<>>)
             root == Directory(<<".">>)
             com == Object("commit", Commit)
             det == CommitMeta(Commit, detached)
             met == Object("dirmeta", RootMeta)
  <1>1. <<"sysroot">> \in Seq(Names) /\ <<".">> \in Seq(Names) /\ detached \in Signatures
    BY TreeAssumption, Tuples DEF ExportInv, ExportTypes
  <1>2. /\ dir \in Entries /\ config \in Entries /\ root \in Entries /\ com \in Entries /\ met \in Entries
        /\ detached # "none" => det \in Entries
    BY <1>1, TreeAssumption, MadeEntries DEF Signatures
  <1>3. /\ dir.type # "link" /\ config.type # "link" /\ root.type # "link" /\ com.type # "link"
        /\ met.type # "link" /\ det.type # "link"
    BY DEF Directory, Object, CommitMeta, Entry
  <1>4. CASE Mode = "chunk"
    <2>1. archive' = <<dir, config>>
      BY <1>4 DEF StartExport, Structure
    <2> HIDE DEF dir, config
    <2> QED  BY <1>2, <1>3, <2>1, LinklessFew
  <1>5. CASE Mode # "chunk"
    <2> DEFINE x == Unless(detached = "none", det)
               p == <<root>> \o <<dir, config>>
               q == p \o <<com>>
               r == q \o x
    <2>1. archive' = r \o <<met>>
      BY <1>5, Zenon DEF StartExport, CommitHeader, Structure
    <2>2. Linkless(x)
      <3>1. CASE detached = "none"
        BY <3>1, LinklessFew DEF Unless
      <3>2. CASE detached # "none"
        <4> HIDE DEF det
        <4> QED  BY <1>2, <1>3, <3>2, LinklessUnless
      <3> QED  BY <3>1, <3>2
    <2> HIDE DEF dir, config, root, com, met, det, x
    <2>3. Linkless(<<root>>) /\ Linkless(<<dir, config>>) /\ Linkless(<<com>>) /\ Linkless(<<met>>)
      BY <1>2, <1>3, LinklessFew
    <2>4. Linkless(p)
      BY <2>3, LinklessJoined
    <2> HIDE DEF p
    <2>5. Linkless(q)
      BY <2>3, <2>4, LinklessJoined
    <2> HIDE DEF q
    <2>6. Linkless(r)
      BY <2>2, <2>5, LinklessJoined
    <2> HIDE DEF r
    <2>7. Linkless(r \o <<met>>)
      BY <2>3, <2>6, LinklessJoined
    <2> QED  BY <2>1, <2>7, Zenon
  <1> QED  BY <1>4, <1>5

\* The steps that append no hardlink.
LEMMA LinklessAppended ==
    ASSUME ExportInv, AppendDirtree \/ AppendSubdir \/ AppendStandardVar \/ (AppendRepeatedSymlink /\ export' = "run")
    PROVE  \E y : Linkless(y) /\ archive' = archive \o y
  <1> DEFINE t == Head(todo)
  <1>1. export = "run" /\ todo # <<>>
    BY DEF AppendDirtree, AppendSubdir, AppendStandardVar, AppendRepeatedSymlink, Doing
  <1>2. t \in Tasks /\ archive \in Seq(Entries)
    BY <1>1, TasksLeft
  <1>3. CASE AppendDirtree
    <2> DEFINE e == Object("dirtree", t.id)
               y == Unless(t.id \in wrote.dirtree, e)
    <2>1. t.op = "tree" /\ archive' = archive \o y
      BY <1>3 DEF AppendDirtree, Doing
    <2>2. e \in Entries /\ e.type # "link"
      BY <1>2, <2>1, TaskIs, MadeEntries DEF Object, Entry
    <2>3. Linkless(y)
      <3> HIDE DEF e
      <3> QED  BY <2>2, LinklessUnless
    <2> HIDE DEF y
    <2> QED  BY <2>1, <2>3
  <1>4. CASE AppendSubdir
    <2> DEFINE e == Object("dirmeta", t.meta)
               d == Directory(t.paths[1])
               y == Unless(t.meta \in wrote.dirmeta, e)
               z == <<d>>
    <2>1. t.op \in {"dir", "sysroot"} /\ (archive' = archive \o y \/ archive' = archive \o (y \o z))
      BY <1>4 DEF AppendSubdir, Doing
    <2>2. e \in Entries /\ e.type # "link" /\ d \in Entries /\ d.type # "link"
      BY <1>2, <2>1, TaskIs, MadeEntries DEF Object, Directory, Entry
    <2>3. Linkless(y) /\ Linkless(z)
      <3> HIDE DEF e, d
      <3> QED  BY <2>2, LinklessUnless, LinklessFew
    <2> HIDE DEF y, z
    <2>4. Linkless(y \o z)
      BY <2>3, LinklessJoined
    <2> QED  BY <2>1, <2>3, <2>4, Zenon
  <1>5. CASE AppendStandardVar
    <2> DEFINE d == Directory(<<"var", "tmp">>)
               y == Unless(wrote.vartmp, d)
    <2>1. archive' = archive \o y
      BY <1>5 DEF AppendStandardVar
    <2>2. d \in Entries /\ d.type # "link"
      <3>1. <<"var", "tmp">> \in Seq(Names)
        BY TreeAssumption, Tuples
      <3> QED  BY <3>1, MadeEntries DEF Directory, Entry
    <2>3. Linkless(y)
      <3> HIDE DEF d
      <3> QED  BY <2>2, LinklessUnless
    <2> HIDE DEF y
    <2> QED  BY <2>1, <2>3
  <1>6. CASE AppendRepeatedSymlink /\ export' = "run"
    <2> DEFINE e == EmptyFile(t.paths[1])
               y == <<e>>
    <2>1. t.op = "file" /\ archive' = Append(archive, e)
      BY <1>6 DEF AppendRepeatedSymlink, Doing
    <2>2. e \in Entries /\ e.type # "link"
      BY <1>2, <2>1, TaskIs, MadeEntries DEF EmptyFile, Entry
    <2>3. archive' = archive \o y
      BY <1>2, <2>1, <2>2
    <2>4. Linkless(y)
      <3> HIDE DEF e
      <3> QED  BY <2>2, LinklessFew
    <2> HIDE DEF y
    <2> QED  BY <2>3, <2>4
  <1> QED  BY <1>3, <1>4, <1>5, <1>6

LEMMA CheckoutLinks ==
    ASSUME NEW c, NEW p, CheckoutEntry(c, p).type = "link"
    PROVE  CheckoutEntry(c, p).id = c
  BY DEF CheckoutEntry, EmptyFile, Hardlink, Entry

LEMMA FileLinked ==
    ASSUME ExportInv, Walking, Linked(archive), AppendFile \/ WriteChunkObject
    PROVE  Linked(archive')
  <1> DEFINE t == Head(todo)
  <1>1. CASE AppendFile
    <2> DEFINE e == CheckoutEntry(t.id, t.paths[1])
               y == <<e>>
    <2>1. /\ export = "run" /\ todo # <<>> /\ t.op = "file"
          /\ archive' = archive \o (ContentEntries(t.id) \o y) /\ wrote' = WroteContent(t.id)
      BY <1>1 DEF AppendFile, Doing
    <2>2. t.id \in Contents /\ t.paths[1] \in Seq(Names)
      BY <2>1, TasksLeft, TaskIs
    <2>3. e \in Entries /\ (e.type = "link" => e.id = t.id)
      BY <2>2, CheckoutPlain, CheckoutLinks DEF Plain
    <2> HIDE DEF e
    <2>4. y \in Seq(Entries) /\ Held(y) = {e}
      BY <2>3, Tuples, HeldFew
    <2> HIDE DEF y
    <2> QED  BY <2>1, <2>2, <2>3, <2>4, ContentLinked
  <1>2. CASE WriteChunkObject
    <2> DEFINE n == Len(t.paths)
               y == [k \in 1..n |-> CheckoutEntry(t.id, PathForTarV1(t.paths[k]))]
    <2>1. /\ export = "run" /\ todo # <<>> /\ t.op = "object"
          /\ archive' = archive \o (ContentEntries(t.id) \o y) /\ wrote' = WroteContent(t.id)
      BY <1>2 DEF WriteChunkObject, Doing
    <2>2. t.id \in Contents /\ t.paths \in Seq(Seq(Names)) /\ n \in Nat
      BY <2>1, TasksLeft, TaskIs
    <2>3. ASSUME NEW k \in 1..n PROVE y[k] \in Entries /\ (y[k].type = "link" => y[k].id = t.id)
      <3>1. PathForTarV1(t.paths[k]) \in Seq(Names)
        BY <2>2, Element, PathForTarType
      <3>2. y[k] = CheckoutEntry(t.id, PathForTarV1(t.paths[k]))
        OBVIOUS
      <3> HIDE DEF y
      <3> QED  BY <2>2, <3>1, <3>2, CheckoutPlain, CheckoutLinks DEF Plain
    <2>4. y \in [1..n -> Entries]
      BY <2>3
    <2> HIDE DEF y, n
    <2>5. y \in Seq(Entries) /\ Len(y) = n
      BY <2>2, <2>4, Tabulated
    <2>6. \A e \in Held(y) : e.type = "link" => e.id = t.id
      BY <2>3, <2>5 DEF Held
    <2> QED  BY <2>1, <2>2, <2>5, <2>6, ContentLinked
  <1> QED  BY <1>1, <1>2

LEMMA ReinjectLinked ==
    ASSUME ExportInv, Linked(archive), NEW signature \in Signatures, Reinject(signature)
    PROVE  Linked(archive')
  <1> DEFINE m == IF signature = "none" THEN 0 ELSE 1
             r == IF detached = "none" THEN 0 ELSE 1
             b == archive'
  <1>1. /\ b \in Seq(Entries) /\ Len(b) = Len(archive) + m - r
        /\ \A k \in 1..4 : b[k] = archive[k]
        /\ m = 1 => b[5] = CommitMeta(Commit, signature)
        /\ \A k \in (5 + m)..Len(b) : b[k] = archive[k - m + r]
    BY Reinjected, Zenon
  <1>2. export = "done" /\ Mode # "chunk" /\ Headed(archive) /\ archive \in Seq(Entries)
    BY DEF ExportInv, ExportTypes, Reinject
  <1>3. m \in {0, 1} /\ r \in {0, 1} /\ Len(archive) \in Nat /\ Len(b) \in Nat
    BY <1>1, <1>2
  <1>4. \A k \in 1..5 : archive[k].type # "file"
    BY <1>2, Heading
  <1>5. archive[5 + r].type # "file"
    BY <1>2, ObjectIs DEF Headed
  <1>6. m = 1 => b[5].type # "link"
    BY <1>1 DEF CommitMeta, Entry
  <1> HIDE DEF m, r, b
  <1> SUFFICES ASSUME NEW k \in 1..Len(b), b[k].type = "link"
               PROVE  \E j \in 1..(k - 1) : b[j] = Object("file", b[k].id)
    BY DEF Linked, b
  <1>7. ASSUME NEW i \in 1..Len(archive), archive[i].type = "link"
        PROVE  \E j \in 1..(i - 1) : archive[j] = Object("file", archive[i].id) /\ j > 5 + r
    <2>1. PICK j \in 1..(i - 1) : archive[j] = Object("file", archive[i].id)
      BY <1>7 DEF Linked
    <2>2. archive[j].type = "file"
      BY <2>1, ObjectIs
    <2>3. j > 5 + r
      BY <1>3, <1>4, <1>5, <2>2, SMTT(30)
    <2> QED  BY <2>1, <2>3
  <1>8. CASE k \in 1..4
    <2>1. archive[k].type = "link" /\ k \in 1..Len(archive)
      BY <1>1, <1>2, <1>8, Heading
    <2> QED  BY <1>3, <1>7, <1>8, <2>1
  <1>9. CASE k \in (5 + m)..Len(b)
    <2> DEFINE i == k - m + r
    <2>1. i \in 1..Len(archive) /\ b[k] = archive[i] /\ k = i + m - r
      BY <1>1, <1>3, <1>9
    <2> HIDE DEF i
    <2>2. PICK j \in 1..(i - 1) : archive[j] = Object("file", archive[i].id) /\ j > 5 + r
      BY <1>7, <2>1
    <2>3. j + m - r \in (5 + m)..Len(b) /\ j + m - r \in 1..(k - 1) /\ (j + m - r) - m + r = j
      BY <1>1, <1>3, <2>1, <2>2
    <2>4. b[j + m - r] = archive[j]
      BY <1>1, <2>3
    <2> QED  BY <2>1, <2>2, <2>3, <2>4
  <1>10. k \in 1..4 \/ (k = 5 /\ m = 1) \/ k \in (5 + m)..Len(b)
    BY <1>3, Regions
  <1> QED  BY <1>6, <1>8, <1>9, <1>10

LEMMA LinkKeeps ==
    ASSUME ExportInv, LinkInv, [Next]_vars
    PROVE  LinkInv'
  <1>1. export' = "run" => Walking'
    BY WalkKeeps DEF LinkInv
  <1>2. ASSUME export' = "run" PROVE Linked(archive')
    <2>1. CASE Export
      <3>1. ExportStep
        BY <2>1 DEF Export
      <3>2. CASE StartExport
        BY <3>2, LinklessStart DEF Linkless, Linked, Held
      <3>3. CASE AppendDirtree \/ AppendSubdir \/ AppendStandardVar \/ AppendRepeatedSymlink
        <4>1. export = "run"
          BY <3>3 DEF AppendDirtree, AppendSubdir, AppendStandardVar, AppendRepeatedSymlink, Doing
        <4>2. PICK y : Linkless(y) /\ archive' = archive \o y
          BY <1>2, <3>3, LinklessAppended
        <4>3. Linked(archive) /\ archive \in Seq(Entries)
          BY <4>1 DEF LinkInv, ExportInv, ExportTypes
        <4>4. Linked(archive \o y)
          BY <4>2, <4>3, LinkedJoined DEF Linkless
        <4> QED  BY <4>2, <4>4, Zenon
      <3>4. CASE AppendFile \/ WriteChunkObject
        <4>1. export = "run"
          BY <3>4 DEF AppendFile, WriteChunkObject, Doing
        <4> QED  BY <3>4, <4>1, FileLinked DEF LinkInv
      <3>5. CASE FinishExport
        BY <1>2, <3>5 DEF FinishExport
      <3> QED  BY <3>1, <3>2, <3>3, <3>4, <3>5 DEF ExportStep
    <2>2. CASE ReplaceMetadata \/ Truncate \/ ExportAgain \/ (\E a \in Foreign : Receive(a)) \/ NextPart \/ Resend
      BY <1>2, <2>2 DEF ReplaceMetadata, Reinject, Truncate, Cut, ExportAgain, Receive, NextPart, Resend
    <2>3. CASE Import \/ Read \/ Crash \/ ImportAgain \/ UNCHANGED vars
      <3>1. UNCHANGED exportVars
        BY <2>3 DEF Import, Read, Crash, ImportAgain, vars
      <3> QED  BY <1>2, <3>1 DEF exportVars, LinkInv
    <2> QED  BY <2>1, <2>2, <2>3 DEF Next
  <1>3. ASSUME export' = "done" PROVE Linked(archive')
    <2>1. CASE FinishExport
      BY <2>1 DEF FinishExport, LinkInv
    <2>2. CASE \E s \in Signatures : Reinject(s)
      <3>1. PICK s \in Signatures : Reinject(s)
        BY <2>2
      <3>2. Linked(archive)
        BY <3>1 DEF Reinject, LinkInv
      <3> QED  BY <3>1, <3>2, ReinjectLinked
    <2>3. CASE UNCHANGED exportVars
      BY <1>3, <2>3 DEF exportVars, LinkInv
    <2> QED  BY <1>3, <2>1, <2>2, <2>3, DoneSteps
  <1>4. Linked(archive') => Linked(archive)'
    BY DEF Linked
  <1> QED  BY <1>1, <1>2, <1>3, <1>4 DEF LinkInv

(***************************************************************************)
(* Every hardlink that OstreeTarWriter writes comes after its content      *)
(* object in the same archive, although an object is written only once:    *)
(* for every commit, every split of it into chunks, and also after the     *)
(* detached metadata was replaced.                                         *)
(***************************************************************************)
THEOREM HardlinksResolve == Spec => []LinksResolve
  <1>1. Init => LinkInv
    BY DEF Init, ExportInit, LinkInv
  <1>2. StreamInv /\ LinkInv /\ [Next]_vars => LinkInv'
    BY LinkKeeps DEF StreamInv
  <1>3. ASSUME StreamInv, LinkInv PROVE LinksResolve
    <2>1. DOMAIN archive = 1..Len(archive)
      BY <1>3 DEF StreamInv, ExportInv, ExportTypes
    <2> QED  BY <1>3, <2>1 DEF LinkInv, Linked, LinksResolve, CheckoutEntries
  <1> QED  BY <1>1, <1>2, <1>3, StreamInvariant, PTL DEF Spec

-----------------------------------------------------------------------------
(***************************************************************************)
(* The importer and the repository.                                        *)
(***************************************************************************)
\* What the repository has it keeps; a mark goes only when an import ends.
LEMMA OnlyGrows ==
    ASSUME ImportTypes, [Next]_vars
    PROVE  /\ objs \subseteq objs' /\ (torn => torn')
           /\ plan' = plan
           /\ part' = part \/ NextPart
  <1>1. CASE Export
    BY <1>1 DEF Export, ExportStep, StartExport, AppendDirtree, AppendSubdir, AppendFile, AppendRepeatedSymlink,
                AppendStandardVar, WriteChunkObject, FinishExport, importVars, repo
  <1>2. CASE ReplaceMetadata \/ Truncate \/ ExportAgain \/ \E a \in Foreign : Receive(a)
    <2>1. UNCHANGED <<plan, part>>
      BY <1>2 DEF ReplaceMetadata, Reinject, Truncate, Cut, ExportAgain, Receive
    <2>2. UNCHANGED <<objs, torn>>
      <3> HIDE DEF Reinject, Cut
      <3> QED  BY <1>2 DEF ReplaceMetadata, Truncate, ExportAgain, Receive, importVars, repo
    <2> QED  BY <2>1, <2>2
  <1>3. CASE Import
    BY <1>3 DEF Import, BeginImport, exportVars, repo
  <1>4. CASE Read
    <2>1. objs \subseteq objs' /\ torn' = torn
      BY <1>4 DEF Read, ImportStep, FilterEntry, ReadCommit, WriteCommit, ImportMetadata, CacheXattrs,
                  ProcessXattrsLink, ImportContent, RefuseEntry, RefuseEnd, AbortTransaction, EndOfArchive,
                  CommitTransaction, ClearPartial, repo
    <2> QED  BY <1>4, <2>1 DEF Read, exportVars
  <1>5. CASE Crash
    BY <1>5 DEF Crash, Interrupt, InterruptCommit, exportVars
  <1>6. CASE ImportAgain \/ NextPart \/ Resend
    BY <1>6 DEF ImportAgain, NextPart, Resend, exportVars, repo
  <1>7. CASE UNCHANGED vars
    BY <1>7 DEF vars, exportVars, importVars, repo
  <1> QED  BY <1>1, <1>2, <1>3, <1>4, <1>5, <1>6, <1>7 DEF Next

\* No transaction is open when nothing is imported.
LEMMA NothingOpen ==
    ASSUME ImportTypes', import' \in {"idle", "done", "refused"}
    PROVE  staged' = {} /\ stagedMeta' = "none"
  BY DEF ImportTypes, TypeOK

LEMMA FreshKeeps ==
    ASSUME ImportTypes, Fresh, [Next]_vars
    PROVE  Fresh'
  <1>1. CASE import' = "idle"
    BY <1>1 DEF Fresh
  <1>2. CASE Begins
    BY <1>2 DEF Begins, BeginImport, Fresh
  <1>3. CASE ImportStep
    BY <1>3 DEF ImportStep, FilterEntry, ReadCommit, WriteCommit, ImportMetadata, CacheXattrs, ProcessXattrsLink,
                ImportContent, RefuseEntry, RefuseEnd, AbortTransaction, EndOfArchive, CommitTransaction,
                ClearPartial, Fresh, txn
  <1>4. CASE UNCHANGED vars
    BY <1>4 DEF vars, importVars, txn, Fresh
  <1> QED  BY <1>1, <1>2, <1>3, <1>4, StepKinds

LEMMA MarkedKeeps ==
    ASSUME ImportTypes, ImportTypes', Marked, [Next]_vars
    PROVE  Marked'
  <1>1. CASE import' = "idle"
    BY <1>1, NothingOpen DEF Marked
  <1>2. CASE Begins
    BY <1>2 DEF Begins, BeginImport, Marked
  <1>3. CASE ImportStep
    <2>1. CASE FilterEntry \/ ReadCommit \/ CacheXattrs \/ ProcessXattrsLink
      <3>1. UNCHANGED <<staged, partial>> /\ import # "commit"
        BY <2>1 DEF FilterEntry, ReadCommit, CacheXattrs, ProcessXattrsLink, Reading, txn, repo
      <3> QED  BY <3>1 DEF Marked
    <2>2. CASE WriteCommit
      <3>1. import = "second" /\ partial' = partial \cup {commit} /\ Current.type \in {"commitmeta", "dirtree", "dirmeta"}
            /\ staged' = staged \cup {<<"commit", commit>>}
                         \cup (IF Current.type = "commitmeta" THEN {} ELSE {<<Current.type, Current.id>>})
        BY <2>2 DEF WriteCommit, Verified, Unverified
      <3>2. \A c : <<"commit", c>> \in staged' => <<"commit", c>> \in staged \/ c = commit
        BY <3>1
      <3> QED  BY <3>1, <3>2 DEF Marked
    <2>3. CASE ImportMetadata
      <3>1. import = "objects" /\ Current.type \in {"dirtree", "dirmeta"} /\ UNCHANGED partial
            /\ staged' = staged \cup {<<Current.type, Current.id>>}
        BY <2>3 DEF ImportMetadata, MetadataAllowed, repo
      <3>2. \A c : <<"commit", c>> \in staged' => <<"commit", c>> \in staged
        BY <3>1
      <3> QED  BY <3>1, <3>2 DEF Marked
    <2>4. CASE ImportContent
      <3>1. import = "objects" /\ UNCHANGED partial /\ staged' = staged \cup ({<<"file", Current.id>>} \ objs)
        BY <2>4 DEF ImportContent, repo
      <3>2. \A c : <<"commit", c>> \in staged' => <<"commit", c>> \in staged
        BY <3>1
      <3> QED  BY <3>1, <3>2 DEF Marked
    <2>5. CASE RefuseEntry \/ RefuseEnd \/ CommitTransaction
      BY <2>5 DEF RefuseEntry, RefuseEnd, AbortTransaction, CommitTransaction, Marked
    <2>6. CASE EndOfArchive
      BY <2>6 DEF EndOfArchive, txn, repo, Marked
    <2>7. CASE ClearPartial
      <3>1. import = "clear" /\ request' = request /\ staged' = staged
            /\ import' = (IF request.mode = "tar" THEN "done" ELSE "commit")
        BY <2>7 DEF ClearPartial, txn
      <3>2. request.mode \in {"tar", "layer"} /\ (request.mode = "tar" => staged = {})
        BY <3>1 DEF ImportTypes, TypeOK, ImportRequests
      <3> QED  BY <3>1, <3>2 DEF Marked
    <2> QED  BY <1>3, <2>1, <2>2, <2>3, <2>4, <2>5, <2>6, <2>7 DEF ImportStep
  <1>4. CASE UNCHANGED vars
    BY <1>4 DEF vars, importVars, txn, repo, Marked
  <1> QED  BY <1>1, <1>2, <1>3, <1>4, StepKinds

\* The importer reads the archive of the exporter to its end.
LEMMA ReadSoFarKeeps ==
    ASSUME ExportInv, ImportTypes, import # "idle" /\ export = "done" => InStep, Fresh,
           import \in {"objects", "clear", "commit", "done"} /\ export = "done" => ReadSoFar,
           [Next]_vars, import' \in {"objects", "clear", "commit", "done"}, export' = "done"
    PROVE  ReadSoFar'
  <1>1. CASE Begins /\ UNCHANGED exportVars
    <2>1. pos' = 1 /\ request'.mode = "set" /\ import' = "objects"
      BY <1>1 DEF Begins, BeginImport
    <2> QED  BY <2>1 DEF ReadSoFar
  <1>2. CASE ImportStep /\ UNCHANGED exportVars
    <2>1. /\ archive' = archive /\ detached' = detached /\ request' = request /\ export = "done"
      BY <1>2 DEF exportVars, ImportStep, FilterEntry, ReadCommit, WriteCommit, ImportMetadata, CacheXattrs,
                  ProcessXattrsLink, ImportContent, RefuseEntry, RefuseEnd, AbortTransaction, EndOfArchive,
                  CommitTransaction, ClearPartial
    <2>2. /\ Len(archive) \in Nat /\ request.mode \in {"tar", "layer", "set"} /\ Commit \in Commits
          /\ meta \in [Commits -> Signatures]
      <3>1. Len(archive) \in Nat
        BY DEF ExportInv, ExportTypes
      <3>2. request \in ImportRequests /\ meta \in [Commits -> Signatures]
        BY DEF ImportTypes, TypeOK
      <3>3. request.mode \in {"tar", "layer", "set"}
        BY <3>2 DEF ImportRequests
      <3> QED  BY <3>1, <3>2, <3>3, TreeAssumption
    <2>3. ASSUME import = "objects", HasEntry, import' = "objects", UNCHANGED <<commit, stagedMeta, objs, partial>>,
                 pos' = pos + 1, staged \subseteq staged',
                 archive[pos].type \in {"commit", "dirtree", "dirmeta", "file"} =>
                     <<archive[pos].type, archive[pos].id>> \in objs \cup staged'
          PROVE  ReadSoFar'
      <3>1. ReadSoFar /\ pos \in 1..Len(archive)
        BY <2>1, <2>3, AtEntry DEF Reading
      <3>2. \A k \in 1..(pos' - 1) : k \in 1..(pos - 1) \/ k = pos
        BY <2>2, <2>3, <3>1
      <3>3. \A k \in 1..(pos' - 1) : archive'[k].type \in {"commit", "dirtree", "dirmeta", "file"} =>
               <<archive'[k].type, archive'[k].id>> \in objs' \cup staged'
        BY <2>1, <2>3, <3>1, <3>2 DEF ReadSoFar
      <3> QED  BY <2>1, <2>3, <3>1, <3>3 DEF ReadSoFar
    <2>4. CASE FilterEntry
      <3>1. import = "objects" /\ HasEntry /\ archive[pos].type \notin ObjectTypes /\ pos' = pos + 1
            /\ import' = "objects" /\ UNCHANGED <<commit, staged, stagedMeta, objs, partial>>
        BY <2>4 DEF FilterEntry, Reading, Current, txn, repo
      <3> QED  BY <2>3, <3>1 DEF ObjectTypes, MetadataTypes
    <2>5. CASE ReadCommit \/ RefuseEntry \/ RefuseEnd
      BY <2>5 DEF ReadCommit, RefuseEntry, RefuseEnd, AbortTransaction
    <2>6. CASE WriteCommit
      <3>1. /\ import = "second" /\ import' = "objects" /\ pos' = pos + 1
            /\ staged' = staged \cup {<<"commit", commit>>}
                         \cup (IF archive[pos].type = "commitmeta" THEN {} ELSE {<<archive[pos].type, archive[pos].id>>})
            /\ stagedMeta' = (IF archive[pos].type = "commitmeta" THEN archive[pos].ref ELSE stagedMeta)
            /\ UNCHANGED commit
        BY <2>6 DEF WriteCommit, Current
      <3>2. pos = 5 /\ Mode # "chunk" /\ commit = Commit /\ stagedMeta = "none"
        BY <2>1, <3>1 DEF InStep, ImportTypes, Fresh
      <3>3. /\ archive[4].type = "commit" /\ archive[4].id = Commit
            /\ \A k \in 1..3 : archive[k].type \notin ObjectTypes
            /\ \/ archive[5].type = "dirmeta" /\ detached = "none"
               \/ archive[5].type = "commitmeta" /\ archive[5].ref = detached
        BY <2>1, <3>2, Heading
      <3>4. pos' - 1 = 5 /\ \A k \in 1..5 : k \in 1..3 \/ k = 4 \/ k = 5
        BY <3>1, <3>2
      <3>5. stagedMeta' = detached' /\ commit' = Commit
        BY <2>1, <3>1, <3>2, <3>3
      <3>6. \A k \in 1..(pos' - 1) : archive'[k].type \in {"commit", "dirtree", "dirmeta", "file"} =>
               <<archive'[k].type, archive'[k].id>> \in objs' \cup staged'
        <4> SUFFICES ASSUME NEW k \in 1..5, archive[k].type \in {"commit", "dirtree", "dirmeta", "file"}
                     PROVE  <<archive[k].type, archive[k].id>> \in staged'
          BY <2>1, <3>4
        <4>1. k = 4 \/ (k = 5 /\ archive[5].type = "dirmeta")
          BY <3>3, <3>4 DEF ObjectTypes, MetadataTypes
        <4> QED  BY <3>1, <3>2, <3>3, <4>1
      <3> QED  BY <3>1, <3>5, <3>6 DEF ReadSoFar
    <2>7. CASE ImportMetadata
      <3>1. import = "objects" /\ HasEntry /\ pos' = pos + 1 /\ import' = "objects"
            /\ UNCHANGED <<commit, stagedMeta, objs, partial>>
            /\ staged' = staged \cup {<<archive[pos].type, archive[pos].id>>}
        BY <2>7 DEF ImportMetadata, Current, repo
      <3> QED  BY <2>3, <3>1
    <2>8. CASE CacheXattrs \/ ProcessXattrsLink
      <3>1. import = "objects" /\ HasEntry /\ pos' = pos + 1 /\ import' = "objects"
            /\ archive[pos].type \in {"file-xattrs", "file-xattrs-link", "file-xattrs-inline"}
            /\ UNCHANGED <<commit, staged, stagedMeta, objs, partial>>
        BY <2>8 DEF CacheXattrs, ProcessXattrsLink, IsXattrsLink, Current, txn, repo
      <3> QED  BY <2>3, <3>1
    <2>9. CASE ImportContent
      <3>1. import = "objects" /\ HasEntry /\ pos' = pos + 1 /\ import' = "objects" /\ archive[pos].type = "file"
            /\ UNCHANGED <<commit, stagedMeta, objs, partial>>
            /\ staged' = staged \cup ({<<"file", archive[pos].id>>} \ objs)
        BY <2>9 DEF ImportContent, Current, repo
      <3> QED  BY <2>3, <3>1
    <2>10. CASE EndOfArchive
      <3>1. import = "objects" /\ ~HasEntry /\ import' = (IF request.mode = "layer" THEN "clear" ELSE "commit")
            /\ UNCHANGED <<pos, commit, staged, stagedMeta, objs, partial>>
        BY <2>10 DEF EndOfArchive, importer, txn, repo
      <3>2. ReadSoFar /\ pos = Len(archive) + 1
        BY <2>1, <2>2, <3>1 DEF HasEntry, ImportTypes, TypeOK
      <3> QED  BY <2>1, <2>2, <3>1, <3>2 DEF ReadSoFar
    <2>11. CASE CommitTransaction
      <3>1. /\ import = "commit" /\ import' = (IF request.mode = "tar" THEN "clear" ELSE "done")
            /\ objs' = objs \cup staged /\ staged' = {} /\ UNCHANGED <<pos, commit, partial>>
            /\ meta' = IF stagedMeta = "none" THEN meta ELSE [meta EXCEPT ![commit] = stagedMeta]
        BY <2>11 DEF CommitTransaction, importer
      <3>2. ReadSoFar
        BY <2>1, <3>1
      <3>3. pos' = Len(archive') + 1 /\ (request'.mode # "set" => commit' = Commit)
        BY <2>1, <3>1, <3>2 DEF ReadSoFar
      <3>4. \A k \in 1..(pos' - 1) : archive'[k].type \in {"commit", "dirtree", "dirmeta", "file"} =>
               <<archive'[k].type, archive'[k].id>> \in objs' \cup staged'
        BY <2>1, <3>1, <3>2 DEF ReadSoFar
      <3>5. request.mode # "set" => (detached # "none" => meta'[Commit] = detached)
        <4> SUFFICES ASSUME request.mode # "set", detached # "none" PROVE meta'[Commit] = detached
          OBVIOUS
        <4>1. stagedMeta = detached /\ commit = Commit
          BY <3>1, <3>2 DEF ReadSoFar
        <4> QED  BY <2>2, <3>1, <4>1
      <3>6. request.mode # "set" /\ import' = "done" => Commit \notin partial'
        BY <2>2, <3>1, <3>2 DEF ReadSoFar
      <3> QED  BY <2>1, <3>1, <3>3, <3>4, <3>5, <3>6 DEF ReadSoFar
    <2>12. CASE ClearPartial
      <3>1. /\ import = "clear" /\ import' = (IF request.mode = "tar" THEN "done" ELSE "commit")
            /\ partial' = partial \ {commit} /\ UNCHANGED <<pos, commit, staged, stagedMeta, objs, meta>>
        BY <2>12 DEF ClearPartial, importer, txn
      <3>2. ReadSoFar /\ request.mode # "set"
        BY <2>1, <3>1 DEF ImportTypes
      <3> QED  BY <2>1, <2>2, <3>1, <3>2 DEF ReadSoFar
    <2> QED  BY <1>2, <2>4, <2>5, <2>6, <2>7, <2>8, <2>9, <2>10, <2>11, <2>12 DEF ImportStep
  <1>3. CASE UNCHANGED vars
    BY <1>3 DEF vars, exportVars, importVars, importer, txn, repo, ReadSoFar
  <1> QED  BY <1>1, <1>2, <1>3, StepKinds

\* What the archive holds is stored when it was read.
LEMMA StoredWhenRead ==
    ASSUME ReadSoFar, import \in {"clear", "commit", "done"}, Len(archive) \in Nat,
           NEW type \in {"commit", "dirtree", "dirmeta", "file"}, NEW id, Object(type, id) \in Held(archive)
    PROVE  <<type, id>> \in objs \cup staged
  <1>1. PICK k \in 1..Len(archive) : archive[k] = Object(type, id)
    BY DEF Held
  <1>2. archive[k].type = type /\ archive[k].id = id
    BY <1>1, ObjectIs
  <1>3. pos = Len(archive) + 1 /\ k \in 1..(pos - 1)
    BY DEF ReadSoFar
  <1> QED  BY <1>2, <1>3 DEF ReadSoFar

LEMMA EarlierKeeps ==
    ASSUME ExportInv, ImportTypes, WriteInv, Earlier,
           import \in {"objects", "clear", "commit", "done"} /\ export = "done" => ReadSoFar,
           [Next]_vars
    PROVE  Earlier'
  <1>1. objs \subseteq objs' /\ plan' = plan /\ (part' = part \/ NextPart)
    BY OnlyGrows
  <1>2. CASE part' = part
    BY <1>1, <1>2 DEF Earlier
  <1>3. CASE NextPart
    <2>1. import = "done" /\ export = "done" /\ part' = part + 1
      BY <1>3 DEF NextPart
    <2>2. ReadSoFar /\ Whole(archive) /\ staged = {} /\ Len(archive) \in Nat
      BY <2>1 DEF WriteInv, ImportTypes, TypeOK, ExportInv, ExportTypes
    <2>3. part \in Nat
      BY PlansAssumption DEF ExportInv, ExportTypes
    <2>4. ASSUME NEW j \in 1..(part' - 1), plan[j].mode # "commit", NEW k \in 1..Len(plan[j].chunk)
          PROVE  <<"file", plan[j].chunk[k].content>> \in objs
      <3>1. CASE j \in 1..(part - 1)
        BY <2>4, <3>1 DEF Earlier
      <3>2. CASE j = part
        <4>1. Object("file", plan[j].chunk[k].content) \in Held(archive)
          BY <2>2, <2>4, <3>2 DEF Whole, Mode
        <4> QED  BY <2>1, <2>2, <4>1, StoredWhenRead
      <3> QED  BY <2>1, <2>3, <3>1, <3>2
    <2> QED  BY <1>1, <2>4 DEF Earlier
  <1> QED  BY <1>1, <1>2, <1>3

(***************************************************************************)
(* At the end of the last archive every object of the commit is stored or  *)
(* staged: the metadata and, of a commit that is exported as one archive,  *)
(* the files are in that archive; the files of chunks are in it or in an   *)
(* earlier one.                                                            *)
(***************************************************************************)
LEMMA AllStored ==
    ASSUME PlansComplete, ExportInv, WriteInv, Earlier, ReadSoFar, InStep, export = "done",
           import \in {"clear", "commit", "done"}, request.mode # "set"
    PROVE  CommitObjects \subseteq objs \cup staged
  <1>1. Whole(archive) /\ Len(archive) \in Nat /\ plan \in Plans /\ part \in 1..Len(plan)
    BY DEF WriteInv, ExportInv, ExportTypes
  <1>2. plan \in Seq(Archives) /\ Len(plan) \in Nat
    BY <1>1, PlansAssumption
  <1>3. Mode # "chunk" /\ Mode = plan[part].mode
    BY DEF InStep, Mode
  <1>4. /\ \A j \in 1..Len(plan) : plan[j].mode = "chunk" <=> j < Len(plan)
        /\ plan[Len(plan)].mode = "final" =>
              \A t \in CommitTrees : \A k \in 1..Len(Files[t]) :
                  \E j \in 1..Len(plan) : \E i \in 1..Len(plan[j].chunk) :
                      plan[j].chunk[i].content = Files[t][k].content
    BY <1>1, Zenon DEF PlansComplete
  <1>5. part = Len(plan)
    BY <1>1, <1>2, <1>3, <1>4
  <1>6. Mode \in {"commit", "final"}
    <2>1. plan[part] \in Archives
      BY <1>1, <1>2, Element
    <2> QED  BY <1>3, <2>1 DEF Archives
  <1>7. ASSUME NEW type \in {"commit", "dirtree", "dirmeta", "file"}, NEW id, Object(type, id) \in Held(archive)
        PROVE  <<type, id>> \in objs \cup staged
    BY <1>1, <1>7, StoredWhenRead
  <1> SUFFICES ASSUME NEW o \in CommitObjects PROVE o \in objs \cup staged
    OBVIOUS
  <1>8. CASE o[1] # "file"
    <2>1. o[1] \in {"commit", "dirtree", "dirmeta"} /\ o = <<o[1], o[2]>>
      BY <1>8, CommitObjectIs
    <2>2. Object(o[1], o[2]) \in Held(archive)
      BY <1>1, <1>3, <1>8 DEF Whole
    <2> QED  BY <1>7, <2>1, <2>2
  <1>9. CASE o[1] = "file"
    <2>1. PICK t \in CommitTrees : \E k \in 1..Len(Files[t]) : o = <<"file", Files[t][k].content>>
      BY <1>9, CommitObjectIs
    <2>2. PICK k \in 1..Len(Files[t]) : o = <<"file", Files[t][k].content>>
      BY <2>1
    <2>3. CASE Mode = "commit"
      <3>1. Object(o[1], o[2]) \in Held(archive)
        BY <1>1, <1>9, <2>3 DEF Whole
      <3> QED  BY <1>7, <2>2, <3>1
    <2>4. CASE Mode = "final"
      <3>1. PICK j \in 1..Len(plan) : \E i \in 1..Len(plan[j].chunk) : plan[j].chunk[i].content = Files[t][k].content
        BY <1>3, <1>4, <1>5, <2>4
      <3>2. PICK i \in 1..Len(plan[j].chunk) : plan[j].chunk[i].content = Files[t][k].content
        BY <3>1
      <3>3. CASE j = part
        <4>1. Object("file", plan[j].chunk[i].content) \in Held(archive)
          BY <1>1, <2>4, <3>3 DEF Whole
        <4> QED  BY <1>7, <2>2, <3>2, <4>1
      <3>4. CASE j \in 1..(part - 1)
        <4>1. plan[j].mode = "chunk"
          BY <1>2, <1>4, <1>5, <3>4
        <4>2. <<"file", plan[j].chunk[i].content>> \in objs
          BY <3>4, <4>1 DEF Earlier
        <4> QED  BY <2>2, <3>2, <4>2
      <3> QED  BY <1>2, <1>5, <3>3, <3>4
    <2> QED  BY <1>6, <2>3, <2>4
  <1> QED  BY <1>8, <1>9

\* The fourth part of Honest, which most steps leave alone.
Complete == <<"commit", Commit>> \in objs /\ Commit \notin partial => CommitObjects \subseteq objs

LEMMA HonestKeeps ==
    ASSUME PlansComplete, ExportInv, ImportTypes, WriteInv, Marked, Earlier, Honest,
           import # "idle" /\ export = "done" => InStep,
           import \in {"objects", "clear", "commit", "done"} /\ export = "done" => ReadSoFar,
           [Next]_vars
    PROVE  Honest'
  <1>1. CASE torn
    BY <1>1, OnlyGrows DEF Honest
  <1>2. CASE UNCHANGED vars
    BY <1>2 DEF vars, exportVars, importVars, repo, Honest
  <1>3. CASE ~torn /\ import = "done" /\ export \in {"cut", "foreign"}
    <2>1. ~Next
      BY <1>3 DEF Next, Export, ReplaceMetadata, Truncate, ExportAgain, Receive, Import, BeginImport, Read, ImportStep,
                  FilterEntry, ReadCommit, WriteCommit, ImportMetadata, CacheXattrs, ProcessXattrsLink, ImportContent,
                  RefuseEntry, RefuseEnd, EndOfArchive, CommitTransaction, ClearPartial, Reading, Crash, Interrupt,
                  InterruptCommit, ImportAgain, NextPart, Resend
    <2> QED  BY <1>2, <2>1
  \* A transaction that is committed whole.
  <1>4. ASSUME import \in {"clear", "commit"}, request.mode # "set", export = "done"
        PROVE  CommitObjects \subseteq objs \cup staged
    BY <1>4, AllStored
  <1>5. import # "idle" => export \in {"done", "cut", "foreign"}
    BY DEF ImportTypes
  <1>6. CASE import = "commit" /\ request.mode = "layer"
    <2>1. CASE CommitTransaction /\ UNCHANGED exportVars
      <3>1. import' = "done" /\ objs' = objs \cup staged /\ export' = export
        BY <1>6, <2>1 DEF CommitTransaction, exportVars
      <3> QED  BY <1>4, <1>5, <1>6, <3>1 DEF Honest
    <2>2. CASE Crash
      <3>1. torn'
        BY <1>6, <2>2 DEF Crash, Interrupt, InterruptCommit
      <3> QED  BY <3>1 DEF Honest
    <2>3. Next => (CommitTransaction /\ UNCHANGED exportVars) \/ Crash
      BY <1>5, <1>6
         DEF Next, Export, ReplaceMetadata, Truncate, ExportAgain, Receive, Import, BeginImport, Read, ImportStep,
             FilterEntry, ReadCommit, WriteCommit, ImportMetadata, CacheXattrs, ProcessXattrsLink, ImportContent,
             RefuseEntry, RefuseEnd, EndOfArchive, ClearPartial, Reading, ImportAgain, NextPart, Resend
    <2> QED  BY <1>2, <2>1, <2>2, <2>3
  <1>7. CASE Complete /\ ~(import = "commit" /\ request.mode = "layer")
    \* A commit that gets stored is marked.
    <2>1. ASSUME objs \subseteq objs', objs' \subseteq objs \cup staged, partial \subseteq partial'
          PROVE  Honest'
      <3>1. <<"commit", Commit>> \in staged => Commit \in partial
        BY <1>7, TreeAssumption DEF Marked
      <3> QED  BY <1>7, <2>1, <3>1 DEF Complete, Honest
    <2>2. CASE Export \/ ReplaceMetadata \/ Truncate \/ ExportAgain \/ \E a \in Foreign : Receive(a)
      <3>1. UNCHANGED <<objs, partial>>
        BY <2>2 DEF Export, ReplaceMetadata, Truncate, ExportAgain, Receive, importVars, repo
      <3> QED  BY <2>1, <3>1
    <2>3. CASE Import \/ ImportAgain \/ NextPart \/ Resend
      <3>1. UNCHANGED <<objs, partial>>
        BY <2>3 DEF Import, BeginImport, ImportAgain, NextPart, Resend, repo
      <3> QED  BY <2>1, <3>1
    <2>4. CASE Crash
      <3>1. objs \subseteq objs' /\ objs' \subseteq objs \cup staged /\ partial' = partial
        BY <2>4 DEF Crash, Interrupt, InterruptCommit
      <3> QED  BY <2>1, <3>1
    <2>5. CASE ClearPartial /\ UNCHANGED exportVars
      <3>1. /\ import = "clear" /\ import' = (IF request.mode = "tar" THEN "done" ELSE "commit")
            /\ objs' = objs /\ export' = export /\ request' = request
        BY <2>5 DEF ClearPartial, exportVars
      <3>2. request.mode \in {"tar", "layer"}
        BY <3>1 DEF ImportTypes, TypeOK, ImportRequests
      <3>3. CASE request.mode = "layer"
        BY <3>1, <3>3 DEF Honest
      <3>4. CASE request.mode = "tar"
        <4>1. staged = {}
          BY <3>1, <3>4 DEF ImportTypes
        <4> QED  BY <1>4, <1>5, <3>1, <3>4, <4>1 DEF Honest
      <3> QED  BY <3>2, <3>3, <3>4
    <2>6. CASE CommitTransaction
      <3>1. objs' = objs \cup staged /\ partial' = partial
        BY <2>6 DEF CommitTransaction
      <3> QED  BY <2>1, <3>1
    <2>7. CASE FilterEntry \/ ReadCommit \/ WriteCommit \/ ImportMetadata \/ CacheXattrs \/ ProcessXattrsLink
               \/ ImportContent \/ RefuseEntry \/ RefuseEnd \/ EndOfArchive
      <3>1. objs' = objs /\ partial \subseteq partial'
        BY <2>7 DEF FilterEntry, ReadCommit, WriteCommit, ImportMetadata, CacheXattrs, ProcessXattrsLink, ImportContent,
                    RefuseEntry, RefuseEnd, AbortTransaction, EndOfArchive, repo
      <3> QED  BY <2>1, <3>1
    <2> QED  BY <1>2, <2>2, <2>3, <2>4, <2>5, <2>6, <2>7 DEF Next, Read, ImportStep
  <1> QED  BY <1>1, <1>3, <1>6, <1>7 DEF Honest, Complete

-----------------------------------------------------------------------------
(***************************************************************************)
(* The inductive invariant of the way of a commit through archives: the    *)
(* exporter forgets nothing of the trees that it has written, the finished *)
(* archive is whole, what was read of it is stored or staged, the chunks   *)
(* before it are stored, and a commit that is stored and not marked        *)
(* partial is complete.                                                    *)
(***************************************************************************)
THEOREM RestoreInvariant ==
    ASSUME SysrootShared, PlansComplete
    PROVE  Spec => []RestoreInv
  <1>1. Init => RestoreInv
    <2> SUFFICES ASSUME Init PROVE RestoreInv
      OBVIOUS
    <2>1. export = "idle" /\ import = "idle" /\ staged = {} /\ part = 1 /\ objs \in Stores
      BY DEF Init, ExportInit, ImportInit
    <2>2. <<"commit", Commit>> \notin objs
      BY <2>1, ImportAssumption
    <2> QED  BY <2>1, <2>2, StreamBegins DEF RestoreInv, WriteInv, Fresh, Marked, Earlier, Honest
  <1>2. RestoreInv /\ [Next]_vars => RestoreInv'
    <2> SUFFICES ASSUME RestoreInv, [Next]_vars PROVE RestoreInv'
      OBVIOUS
    <2>1. /\ StreamInv /\ ExportInv /\ ImportTypes /\ (import # "idle" /\ export = "done" => InStep)
          /\ WriteInv /\ Fresh /\ Marked /\ Earlier /\ Honest
          /\ import \in {"objects", "clear", "commit", "done"} /\ export = "done" => ReadSoFar
      BY DEF RestoreInv, StreamInv
    <2>2. StreamInv' /\ ImportTypes'
      BY <2>1, StreamKeeps DEF StreamInv
    <2>3. WriteInv' /\ Fresh' /\ Marked'
      BY <2>1, <2>2, WriteKeeps, FreshKeeps, MarkedKeeps
    <2>4. Earlier' /\ Honest'
      BY <2>1, EarlierKeeps, HonestKeeps
    <2>5. import' \in {"objects", "clear", "commit", "done"} /\ export' = "done" => ReadSoFar'
      BY <2>1, ReadSoFarKeeps
    <2> QED  BY <2>2, <2>3, <2>4, <2>5 DEF RestoreInv
  <1> QED  BY <1>1, <1>2, PTL DEF Spec

(***************************************************************************)
(* When Importer has imported the last archive of a commit, the repository *)
(* has every object of the commit and the archive's detached metadata, and *)
(* the commit is not marked partial: for every commit whose top level      *)
(* sysroot shares its tree with another directory, and however it is split *)
(* into chunks, whatever was interrupted, repeated or damaged before.      *)
(***************************************************************************)
THEOREM ImportsRestore ==
    ASSUME SysrootShared, PlansComplete
    PROVE  Spec => []ImportRestores
  <1>1. ASSUME RestoreInv PROVE ImportRestores
    <2> SUFFICES ASSUME import = "done", export = "done", part = Len(plan)
                 PROVE  /\ CommitObjects \subseteq objs
                        /\ detached # "none" => meta[Commit] = detached
                        /\ Commit \notin partial
      BY DEF ImportRestores
    <2>1. ExportInv /\ ImportTypes /\ InStep /\ WriteInv /\ Earlier /\ ReadSoFar
      BY <1>1 DEF RestoreInv, StreamInv
    <2>2. plan \in Plans /\ part \in 1..Len(plan) /\ staged = {}
      BY <2>1 DEF ExportInv, ExportTypes, ImportTypes, TypeOK
    <2>3. Mode # "chunk"
      <3>1. plan \in Seq(Archives) /\ Len(plan) \in Nat
        BY <2>2, PlansAssumption
      <3>2. \A j \in 1..Len(plan) : plan[j].mode = "chunk" <=> j < Len(plan)
        BY <2>2, Zenon DEF PlansComplete
      <3> QED  BY <2>2, <3>1, <3>2 DEF Mode
    <2>4. request.mode # "set"
      BY <2>1, <2>3 DEF InStep
    <2> QED  BY <2>1, <2>2, <2>4, AllStored DEF ReadSoFar
  <1> QED  BY <1>1, RestoreInvariant, PTL

(***************************************************************************)
(* A commit that Importer has stored and that is not marked partial has    *)
(* all its objects, after any crash, also one inside of txn.commit; but    *)
(* not where unencapsulate_base has cleared the mark before it commits.    *)
(***************************************************************************)
THEOREM PartialIsHonest ==
    ASSUME SysrootShared, PlansComplete
    PROVE  Spec => []PartialHonest
  <1>1. RestoreInv => PartialHonest
    BY DEF RestoreInv, Honest, PartialHonest
  <1> QED  BY <1>1, RestoreInvariant, PTL
=============================================================================
