------------------------------ MODULE TarExport ------------------------------
(***************************************************************************)
(* OstreeTarWriter and the functions that drive it (lib/src/tar/export.rs):*)
(* export_commit writes a whole commit, export_chunk the content objects   *)
(* of one layer, export_final_chunk the commit, its metadata and the       *)
(* content objects that are left.  The recursion over directories is a     *)
(* stack of what remains to be written.                                    *)
(***************************************************************************)
EXTENDS TarFormat, SequencesExt

CONSTANT Plans   \* ways to split the commit into archives

VARIABLES
    plan,      \* the archives to write
    part,      \* the one at hand
    detached,  \* the signature in the commit's detached metadata, or "none"
    todo,      \* what remains to be written
    wrote,     \* the wrote_* sets of the writer
    export     \* "idle", "run", "done", "failed", "cut"

exportVars == <<archive, plan, part, detached, todo, wrote, export>>

Chunk == [content: Contents, paths: Seq(Seq(Names))]
Archives == [mode: {"commit", "chunk", "final"}, chunk: Seq(Chunk)]
ASSUME PlansAssumption == Plans \subseteq Seq(Archives) \ {<<>>}

Task(op, paths, id, meta) == [op |-> op, paths |-> paths, id |-> id, meta |-> meta]
Mode == plan[part].mode
NothingWritten ==
    [dirtree |-> {}, dirmeta |-> {}, content |-> {}, xattrs |-> {}, vartmp |-> FALSE]

(***************************************************************************)
(* map_path, and path_for_tar_v1 with map_path_v1: usr/etc becomes etc.    *)
(* The first is for the paths of append_dirtree, which begin with ".", the *)
(* second for those of a chunk, which begin with "/".                      *)
(***************************************************************************)
MapPath(p) ==
    IF IsPrefix(<<".", "usr", "etc">>, p) THEN <<".", "etc">> \o SubSeq(p, 4, Len(p)) ELSE p

PathForTarV1(p) ==
    LET relative == IF IsPrefix(<<"/">>, p) THEN Tail(p) ELSE p
    IN  IF IsPrefix(<<"usr", "etc">>, relative) THEN Tail(relative) ELSE relative

ChunkTasks ==
    [k \in 1..Len(plan[part].chunk) |->
        Task("object", plan[part].chunk[k].paths, plan[part].chunk[k].content, "")]

FileTasks(path, t) ==
    [k \in 1..Len(Files[t]) |->
        Task("file", <<MapPath(Append(path, Files[t][k].name))>>, Files[t][k].content, "")]

(***************************************************************************)
(* The top level sysroot is a task of its own kind.                        *)
(***************************************************************************)
DirTasks(path, t) ==
    [k \in 1..Len(Dirs[t]) |->
        Task(IF path = <<".">> /\ Dirs[t][k].name = "sysroot" THEN "sysroot" ELSE "dir",
             <<MapPath(Append(path, Dirs[t][k].name))>>, Dirs[t][k].tree, Dirs[t][k].meta)]

Unless(written, entry) == IF written THEN <<>> ELSE <<entry>>

ExportInit ==
    /\ plan \in Plans /\ part = 1
    /\ detached \in {"none", "good", "bad"}
    /\ archive = <<>> /\ todo = <<>> /\ wrote = NothingWritten /\ export = "idle"

-----------------------------------------------------------------------------
(***************************************************************************)
(* write_repo_structure, and for a commit also the root directory, the     *)
(* commit with its detached metadata, and the root's dirmeta.              *)
(***************************************************************************)
Structure == <<Directory(<<"sysroot">>), Entry("config", "", "", <<>>)>>
CommitHeader ==
    <<Directory(<<".">>)>> \o Structure \o <<Object("commit", Commit)>>
    \o Unless(detached = "none", CommitMeta(Commit, detached))
    \o <<Object("dirmeta", RootMeta)>>

\* Mutation of StartExport.
StartWithoutRemainder ==
    /\ export = "idle"
    /\ export' = "run"
    /\ IF Mode = "chunk"
       THEN /\ archive' = Structure
            /\ todo' = ChunkTasks
            /\ wrote' = NothingWritten
       ELSE /\ archive' = CommitHeader
            /\ todo' = <<Task("tree", << <<".">> >>, Root, ""), Task("var", <<>>, "", "")>>
            /\ wrote' = [NothingWritten EXCEPT !.dirmeta = {RootMeta}]
    /\ UNCHANGED <<plan, part, detached>>

StartExport ==
    /\ export = "idle"
    /\ export' = "run"
    /\ IF Mode = "chunk"
       THEN /\ archive' = Structure
            /\ todo' = ChunkTasks
            /\ wrote' = NothingWritten
       ELSE /\ archive' = CommitHeader
            /\ todo' = <<Task("tree", << <<".">> >>, Root, ""), Task("var", <<>>, "", "")>>
                       \o (IF Mode = "final" THEN ChunkTasks ELSE <<>>)
            /\ wrote' = [NothingWritten EXCEPT !.dirmeta = {RootMeta}]
    /\ UNCHANGED <<plan, part, detached>>

Doing(op) == export = "run" /\ todo # <<>> /\ Head(todo).op = op

(***************************************************************************)
(* append_dirtree: the object once, its files (unless only the structure   *)
(* is written), its subdirectories.                                        *)
(***************************************************************************)
AppendDirtree ==
    /\ Doing("tree")
    /\ LET t == Head(todo) IN
         /\ archive' = archive \o Unless(t.id \in wrote.dirtree, Object("dirtree", t.id))
         /\ wrote' = [wrote EXCEPT !.dirtree = @ \cup {t.id},
                                   !.vartmp = @ \/ t.paths[1] = <<"var", "tmp">>]
         /\ todo' = (IF Mode = "final" THEN <<>> ELSE FileTasks(t.paths[1], t.id))
                    \o (DirTasks(t.paths[1], t.id) \o Tail(todo))
    /\ UNCHANGED <<plan, part, detached, export>>

(***************************************************************************)
(* append_dirtree, one subdirectory: its dirmeta once, the directory and   *)
(* its tree.  The top level sysroot is left out, since write_repo_structure*)
(* has made it.                                                            *)
(***************************************************************************)
AppendSubdir ==
    /\ Doing("dir") \/ Doing("sysroot")
    /\ LET t == Head(todo)
           dirmeta == Unless(t.meta \in wrote.dirmeta, Object("dirmeta", t.meta))
       IN  /\ wrote' = [wrote EXCEPT !.dirmeta = @ \cup {t.meta}]
           /\ IF t.op = "sysroot"
              THEN archive' = archive \o dirmeta /\ todo' = Tail(todo)
              ELSE /\ archive' = archive \o (dirmeta \o <<Directory(t.paths[1])>>)
                   /\ todo' = <<Task("tree", t.paths, t.id, "")>> \o Tail(todo)
    /\ UNCHANGED <<plan, part, detached, export>>

\* Mutation of ContentEntries.
ContentBeforeLink(c) ==
    IF c \in wrote.content THEN <<>>
    ELSE Unless(XattrOf[c] \in wrote.xattrs, Object("file-xattrs", XattrOf[c]))
         \o <<Object("file", c), XattrsLink(c, XattrOf[c])>>

(***************************************************************************)
(* append_content and append_xattrs: the extended attributes once, the     *)
(* link that announces them for the object, the object.                    *)
(***************************************************************************)
ContentEntries(c) ==
    IF c \in wrote.content THEN <<>>
    ELSE Unless(XattrOf[c] \in wrote.xattrs, Object("file-xattrs", XattrOf[c]))
         \o <<XattrsLink(c, XattrOf[c]), Object("file", c)>>

WroteContent(c) ==
    [wrote EXCEPT !.content = @ \cup {c},
                  !.xattrs = @ \cup (IF c \in wrote.content THEN {} ELSE {XattrOf[c]})]

(***************************************************************************)
(* append_content_hardlink: a link to the object, or a file of its own     *)
(* when the object is empty.                                               *)
(***************************************************************************)
CheckoutEntry(c, path) == IF c \in Empties THEN EmptyFile(path) ELSE Hardlink(c, path)

\* Mutation of AppendFile.
AppendLinkFirst ==
    /\ Doing("file")
    /\ LET t == Head(todo) IN
         /\ t.id \in Symlinks => t.id \notin wrote.content
         /\ archive' = archive \o (<<CheckoutEntry(t.id, t.paths[1])>> \o ContentEntries(t.id))
         /\ wrote' = WroteContent(t.id)
    /\ todo' = Tail(todo)
    /\ UNCHANGED <<plan, part, detached, export>>

(***************************************************************************)
(* A file of a directory.  append_content gives the header of a symbolic   *)
(* link its type and its size only when it writes the object; after that   *)
(* the type reads as a regular file, and the size (in the tar crate) as an *)
(* error or as zero.                                                       *)
(***************************************************************************)
AppendFile ==
    /\ Doing("file")
    /\ LET t == Head(todo) IN
         /\ t.id \in Symlinks => t.id \notin wrote.content
         /\ archive' = archive \o (ContentEntries(t.id) \o <<CheckoutEntry(t.id, t.paths[1])>>)
         /\ wrote' = WroteContent(t.id)
    /\ todo' = Tail(todo)
    /\ UNCHANGED <<plan, part, detached, export>>

AppendRepeatedSymlink ==
    /\ Doing("file") /\ Head(todo).id \in Symlinks \cap wrote.content
    /\ \/ export' = "failed" /\ archive' = archive
       \/ export' = export /\ archive' = Append(archive, EmptyFile(Head(todo).paths[1]))
    /\ todo' = Tail(todo)
    /\ UNCHANGED <<plan, part, detached, wrote>>

(***************************************************************************)
(* append_standard_var.                                                    *)
(***************************************************************************)
AppendStandardVar ==
    /\ Doing("var")
    /\ archive' = archive \o Unless(wrote.vartmp, Directory(<<"var", "tmp">>))
    /\ todo' = Tail(todo)
    /\ UNCHANGED <<plan, part, detached, wrote, export>>

(***************************************************************************)
(* write_chunk: an object of the chunk and all its paths.                  *)
(***************************************************************************)
WriteChunkObject ==
    /\ Doing("object")
    /\ LET c == Head(todo).id
           paths == Head(todo).paths
       IN  /\ archive' = archive \o (ContentEntries(c)
                            \o [k \in 1..Len(paths) |-> CheckoutEntry(c, PathForTarV1(paths[k]))])
           /\ wrote' = WroteContent(c)
    /\ todo' = Tail(todo)
    /\ UNCHANGED <<plan, part, detached, export>>

FinishExport ==
    /\ export = "run" /\ todo = <<>>
    /\ export' = "done"
    /\ wrote' = NothingWritten   \* the writer is dropped
    /\ UNCHANGED <<archive, plan, part, detached, todo>>

(***************************************************************************)
(* reinject_detached_metadata: the commit is followed by the new detached  *)
(* metadata, if any, in place of the old.                                  *)
(***************************************************************************)
Reinject(signature) ==
    /\ export = "done" /\ Mode # "chunk"
    /\ LET n == CHOOSE k \in DOMAIN archive :
                    archive[k].type = "commit" /\ \A j \in 1..(k - 1) : archive[j].type # "commit"
           rest == IF archive[n + 1].type = "commitmeta" THEN n + 2 ELSE n + 1
       IN  archive' = SubSeq(archive, 1, n) \o Unless(signature = "none", CommitMeta(archive[n].id, signature))
                      \o SubSeq(archive, rest, Len(archive))
    /\ detached' = signature
    /\ UNCHANGED <<plan, part, todo, wrote, export>>

(***************************************************************************)
(* The archive is cut between two entries on its way (external).           *)
(***************************************************************************)
Cut(n) ==
    /\ export = "done" /\ n < Len(archive)
    /\ archive' = SubSeq(archive, 1, n)
    /\ export' = "cut"
    /\ UNCHANGED <<plan, part, detached, todo, wrote>>

ExportStep ==
    \/ StartExport \/ AppendDirtree \/ AppendSubdir \/ AppendFile \/ AppendRepeatedSymlink
    \/ AppendStandardVar \/ WriteChunkObject \/ FinishExport
=============================================================================
