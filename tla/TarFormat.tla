------------------------------ MODULE TarFormat ------------------------------
(***************************************************************************)
(* What the tar exporter and the tar importer of lib/src/tar share: the    *)
(* objects of one ostree commit and the entries of an archive.             *)
(*                                                                         *)
(* A checksum is a name.  A path is the sequence of its components, with   *)
(* the leading "." of the paths that export_commit writes.                 *)
(***************************************************************************)
EXTENDS Integers, Sequences

CONSTANTS
    Names,      \* the components of paths
    Commit,     \* the commit that is exported
    Commits,    \* commits that an archive may name
    Contents,   \* content objects: regular files and symbolic links
    Symlinks,   \* the symbolic links among them
    Empties,    \* the regular files of size zero among them
    Xattrs,     \* sets of extended attributes
    XattrOf,    \* the extended attributes of a content object
    Trees, Root,        \* dirtree objects, and the one of the commit
    Metas, RootMeta,    \* dirmeta objects, and the one of the commit
    Files,      \* the files of a tree, in order
    Dirs        \* the subdirectories of a tree, in order

ASSUME TreeAssumption ==
    /\ {".", "sysroot", "etc", "var", "tmp"} \subseteq Names
    /\ Commit \in Commits /\ Root \in Trees /\ RootMeta \in Metas
    /\ Symlinks \subseteq Contents /\ Empties \subseteq Contents \ Symlinks
    /\ XattrOf \in [Contents -> Xattrs]
    /\ Files \in [Trees -> Seq([name: Names, content: Contents])]
    /\ Dirs \in [Trees -> Seq([name: Names, tree: Trees, meta: Metas])]

(***************************************************************************)
(* The trees below the root, and the objects of the commit.                *)
(***************************************************************************)
SubtreesClosed(S) == \A t \in S : \A k \in 1..Len(Dirs[t]) : Dirs[t][k].tree \in S
CommitTrees ==
    {t \in Trees : \A S \in SUBSET Trees : Root \in S /\ SubtreesClosed(S) => t \in S}
CommitObjects ==
    {<<"commit", Commit>>, <<"dirmeta", RootMeta>>}
    \cup {<<"dirtree", t>> : t \in CommitTrees}
    \cup (UNION {{<<"dirmeta", Dirs[t][k].meta>> : k \in 1..Len(Dirs[t])} : t \in CommitTrees})
    \cup (UNION {{<<"file", Files[t][k].content>> : k \in 1..Len(Files[t])} : t \in CommitTrees})

VARIABLE archive   \* the entries of the archive

(***************************************************************************)
(* Entries.  An object entry lies under sysroot/ostree/repo; the others    *)
(* are directories, the repository's config, and the checkout with its     *)
(* links to content objects.  The entry of commitmeta holds the signature. *)
(* "file-xattrs-inline" is a .file-xattrs-link with content of its own;    *)
(* the v0 spellings of the two kinds of xattrs entries are handled alike.  *)
(***************************************************************************)
Entry(type, id, ref, path) == [type |-> type, id |-> id, ref |-> ref, path |-> path]
Object(type, id) == Entry(type, id, "", <<>>)
CommitMeta(c, signature) == Entry("commitmeta", c, signature, <<>>)
XattrsLink(c, x) == Entry("file-xattrs-link", c, x, <<>>)
Directory(path) == Entry("dir", "", "", path)
Hardlink(c, path) == Entry("link", c, "", path)
EmptyFile(path) == Entry("empty", "", "", path)

(***************************************************************************)
(* The entries that an archive can have.                                   *)
(***************************************************************************)
Signatures == {"none", "good", "bad"}
ObjectEntries(type, ids) == [type : {type}, id : ids, ref : {""}, path : {<<>>}]
Entries ==
    ObjectEntries("commit", Commits) \cup ObjectEntries("dirtree", Trees)
    \cup ObjectEntries("dirmeta", Metas) \cup ObjectEntries("file", Contents)
    \cup ObjectEntries("file-xattrs", Xattrs)
    \cup [type : {"commitmeta"}, id : Commits, ref : Signatures \ {"none"}, path : {<<>>}]
    \cup [type : {"file-xattrs-link", "file-xattrs-inline"}, id : Contents, ref : Xattrs, path : {<<>>}]
    \cup [type : {"dir", "config", "link", "empty"}, id : Contents \cup {""}, ref : {""}, path : Seq(Names)]

MetadataTypes == {"commit", "commitmeta", "dirtree", "dirmeta", "file"}
ObjectTypes == MetadataTypes \cup {"file-xattrs", "file-xattrs-link", "file-xattrs-inline"}
=============================================================================
