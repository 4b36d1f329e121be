---------------------------- MODULE MCTarStream ----------------------------
(***************************************************************************)
(* A small commit for TarStream.                                           *)
(*                                                                         *)
(*   /            bin -> (lnk)                                             *)
(*   /sysroot     empty, and the same tree as /usr/etc/d                   *)
(*   /usr         a (f1), z (empty), lib -> (lnk)                          *)
(*   /usr/etc     b (f1), c (f2)                                           *)
(*   /usr/etc/d                                                            *)
(*                                                                         *)
(* f1 and f2 share their extended attributes, the empty file and the       *)
(* symbolic link theirs, and the directories their dirmeta.                *)
(***************************************************************************)
EXTENDS TarStream

File(name, c) == [name |-> name, content |-> c]
Dir(name, t, m) == [name |-> name, tree |-> t, meta |-> m]

MCXattrOf == [c \in Contents |-> IF c \in {"f1", "f2"} THEN "x1" ELSE "x2"]
MCFiles ==
    [t \in Trees |->
        CASE t = "root" -> <<File("bin", "lnk")>>
          [] t = "usr" -> <<File("a", "f1"), File("lib", "lnk"), File("z", "zero")>>
          [] t = "etc" -> <<File("b", "f1"), File("c", "f2")>>
          [] OTHER -> <<>>]
MCDirs ==
    [t \in Trees |->
        CASE t = "root" -> <<Dir("sysroot", "none", "m1"), Dir("usr", "usr", "m2")>>
          [] t = "usr" -> <<Dir("etc", "etc", "m2")>>
          [] t = "etc" -> <<Dir("d", "none", "m1")>>
          [] OTHER -> <<>>]

(***************************************************************************)
(* Another commit has a file, the empty sysroot and the directory /var/tmp.*)
(***************************************************************************)
VarFiles == [t \in Trees |-> IF t = "root" THEN <<File("a", "f1")>> ELSE <<>>]
VarDirs ==
    [t \in Trees |->
        CASE t = "root" -> <<Dir("sysroot", "none", "m1"), Dir("var", "var", "m1")>>
          [] t = "var" -> <<Dir("tmp", "none", "m1")>>
          [] OTHER -> <<>>]

(***************************************************************************)
(* The commit in one archive, and in a chunk and the final one.            *)
(***************************************************************************)
ChunkOf(c, paths) == [content |-> c, paths |-> paths]
CommitPlan == <<[mode |-> "commit", chunk |-> <<>>]>>
ChunkPlan ==
    <<[mode |-> "chunk",
       chunk |-> <<ChunkOf("f1", << <<"/", "usr", "a">>, <<"/", "usr", "etc", "b">> >>),
                   ChunkOf("lnk", << <<"/", "bin">>, <<"/", "usr", "lib">> >>)>>],
      [mode |-> "final",
       chunk |-> <<ChunkOf("f2", << <<"/", "usr", "etc", "c">> >>),
                   ChunkOf("zero", << <<"/", "usr", "z">> >>)>>]>>
MCPlans == {CommitPlan, ChunkPlan}
VarPlans == {CommitPlan}
MCStores == {{}, {<<"file", "f1">>}}

(***************************************************************************)
(* Archives of another origin: detached metadata of another commit, no     *)
(* commit, two commits, content or extended attributes after the commit,   *)
(* nothing after it; two links in a row, an object without a link, with    *)
(* extended attributes that are missing or not its own, an object twice;   *)
(* a link with content of its own.                                         *)
(***************************************************************************)
InlineLink(c, x) == Entry("file-xattrs-inline", c, x, <<>>)
MCForeign ==
    {<<Object("commit", Commit), CommitMeta("other", "good"), Object("dirmeta", "m1")>>,
     <<Object("dirmeta", "m1")>>,
     <<Object("commit", Commit), Object("commit", "other")>>,
     <<Object("commit", Commit), Object("file", "f1")>>,
     <<Object("commit", Commit), Object("file-xattrs", "x1")>>,
     <<Object("file-xattrs", "x1"), XattrsLink("f1", "x1"), XattrsLink("f2", "x1"), Object("file", "f2")>>,
     <<Object("file", "f1")>>,
     <<XattrsLink("f1", "x1"), Object("file", "f1")>>,
     <<Object("file-xattrs", "x2"), XattrsLink("f1", "x2"), Object("file", "f1")>>,
     <<InlineLink("f1", "x1"), Object("file", "f1"), XattrsLink("f1", "x1"), Object("file", "f1")>>,
     <<InlineLink("f1", "x1"), Object("file", "f1")>>}

(***************************************************************************)
(* The commit and the plans are such as can be restored.                   *)
(***************************************************************************)
ASSUME RestorableAssumption == SysrootShared /\ PlansComplete
=============================================================================
