------------------------------ MODULE TarStream ------------------------------
(***************************************************************************)
(* The tar exporter and the tar importer together.  A commit is written as *)
(* one archive or as several, each is imported in turn, an import may be   *)
(* interrupted and repeated, an archive may be cut on its way, and one of  *)
(* another origin may come in its place.                                   *)
(***************************************************************************)
EXTENDS TarExport, TarImport

CONSTANT Foreign   \* archives of another origin
ASSUME ForeignAssumption == Foreign \subseteq Seq(Entries)

vars == <<exportVars, importVars>>

Init == ExportInit /\ ImportInit

-----------------------------------------------------------------------------
(***************************************************************************)
(* The exporter runs while nothing is imported.                            *)
(***************************************************************************)
Export == import = "idle" /\ ExportStep /\ UNCHANGED importVars
ReplaceMetadata ==
    import = "idle" /\ (\E s \in {"none", "good", "bad"} : Reinject(s)) /\ UNCHANGED importVars
Truncate ==
    /\ import = "idle" /\ faults < MaxFaults
    /\ \E n \in 0..(Len(archive) - 1) : Cut(n)
    /\ faults' = faults + 1
    /\ UNCHANGED <<import, request, importer, txn, objs, meta, sets, partial, torn>>

ExportAgain ==
    /\ export = "failed"
    /\ export' = "idle" /\ archive' = <<>> /\ todo' = <<>> /\ wrote' = NothingWritten
    /\ UNCHANGED <<plan, part, detached, importVars>>

Receive(a) ==
    /\ export = "idle" /\ import = "idle"
    /\ archive' = a /\ export' = "foreign"
    /\ UNCHANGED <<plan, part, detached, todo, wrote, importVars>>

(***************************************************************************)
(* A chunk is imported as an object set, the other archives as a commit,   *)
(* and archives of another origin as either.                               *)
(***************************************************************************)
Import ==
    /\ export \in {"done", "cut", "foreign"}
    /\ \E r \in ImportRequests :
          /\ export = "foreign" \/ (r.mode = "set" <=> Mode = "chunk")
          /\ BeginImport(r)
    /\ UNCHANGED exportVars

Read == ImportStep /\ UNCHANGED exportVars
Crash == (Interrupt \/ \E o \in staged : InterruptCommit(o)) /\ UNCHANGED exportVars

(***************************************************************************)
(* The archive is imported once more; the next one is exported; a damaged  *)
(* one is replaced when it has been refused.  What was imported from it    *)
(* with success is a result that nobody looks at again.                    *)
(***************************************************************************)
ImportAgain ==
    /\ import = "refused" \/ (import = "done" /\ export = "done")
    /\ import' = "idle" /\ Drop
    /\ UNCHANGED <<txn, repo, exportVars>>

NextPart ==
    /\ import = "done" /\ export = "done" /\ part < Len(plan)
    /\ import' = "idle" /\ Drop
    /\ export' = "idle" /\ archive' = <<>> /\ part' = part + 1
    /\ UNCHANGED <<txn, repo, plan, detached, todo, wrote>>

Resend ==
    /\ import = "refused" /\ export \in {"cut", "foreign"}
    /\ import' = "idle" /\ Drop
    /\ export' = "idle" /\ archive' = <<>>
    /\ UNCHANGED <<txn, repo, plan, part, detached, todo, wrote>>

Next ==
    \/ Export \/ ReplaceMetadata \/ Truncate \/ ExportAgain
    \/ \E a \in Foreign : Receive(a)
    \/ Import \/ Read \/ Crash
    \/ ImportAgain \/ NextPart \/ Resend

Spec == Init /\ [][Next]_vars

-----------------------------------------------------------------------------
Objects ==
    ({"commit"} \X Commits) \cup ({"dirtree"} \X Trees) \cup ({"dirmeta"} \X Metas)
    \cup ({"file"} \X Contents)

\* What the variables hold.  next_xattrs announces one content object at most, and while
\* nothing is imported no transaction is open.
TypeOK ==
    /\ plan \in Plans /\ part \in 1..Len(plan) /\ detached \in Signatures
    /\ export \in {"idle", "run", "done", "failed", "cut", "foreign"}
    /\ import \in {"idle", "first", "second", "objects", "clear", "commit", "done", "refused"}
    /\ request \in ImportRequests
    /\ pos \in 1..(Len(archive) + 1) \/ import = "idle"
    /\ commit \in Commits /\ objset \subseteq Contents /\ xattrs \subseteq Xattrs
    /\ Len(nextXattrs) <= 1
    /\ staged \subseteq Objects /\ objs \subseteq Objects /\ partial \subseteq Commits
    /\ stagedMeta \in Signatures /\ meta \in [Commits -> Signatures]
    /\ sets \subseteq SUBSET Contents
    /\ import \in {"idle", "done", "refused"} => staged = {} /\ stagedMeta = "none"
    /\ torn \in BOOLEAN /\ faults \in 0..MaxFaults

(***************************************************************************)
(* What OstreeTarWriter writes unpacks.  Every hardlink of the checkout    *)
(* comes after its content object in the same archive, whatever was        *)
(* written before and is left out.                                         *)
(***************************************************************************)
CheckoutEntries == {k \in DOMAIN archive : archive[k].type \in {"dir", "link", "empty"}}
LinksResolve ==
    export \in {"run", "done"} =>
        \A k \in CheckoutEntries : archive[k].type = "link" =>
            \E j \in 1..(k - 1) : archive[j] = Object("file", archive[k].id)

(***************************************************************************)
(* No path (with or without a leading ".") occurs twice, since a layer of  *)
(* a container image cannot have duplicates: the top level sysroot is left *)
(* out of the walk, and var/tmp is added only when the commit has none.    *)
(***************************************************************************)
Normal(p) == IF IsPrefix(<<".">>, p) THEN Tail(p) ELSE p
PathsOnce ==
    export \in {"run", "done"} =>
        \A j, k \in CheckoutEntries : Normal(archive[j].path) = Normal(archive[k].path) => j = k

\* The importer accepts every archive that the exporter writes, whatever objects are shared
\* between directories or are stored already, and whatever crashes came before; only a
\* remote refuses one, for the want of a good signature.
NeverRefused ==
    import = "refused" /\ export = "done" => request.remote /\ detached # "good"

(***************************************************************************)
(* What an import can restore.  The writer leaves out the tree of the top  *)
(* level sysroot, so it must be the tree of another directory too.  And    *)
(* the archives are what build_oci and export_commit make: any number of   *)
(* chunks and one with the commit, which together have every file.         *)
(***************************************************************************)
SysrootShared ==
    \A S \in SUBSET Trees :
        /\ Root \in S
        /\ \A t \in S : \A k \in 1..Len(Dirs[t]) :
              Dirs[t][k].tree \in S \/ (t = Root /\ Dirs[t][k].name = "sysroot")
        => CommitTrees \subseteq S
PlansComplete ==
    \A p \in Plans :
        /\ \A j \in 1..Len(p) : p[j].mode = "chunk" <=> j < Len(p)
        /\ p[Len(p)].mode = "final" =>
              \A t \in CommitTrees : \A k \in 1..Len(Files[t]) :
                  \E j \in 1..Len(p) : \E i \in 1..Len(p[j].chunk) : p[j].chunk[i].content = Files[t][k].content

\* When the last archive of a commit is imported, every object of the commit is stored, with
\* the detached metadata of that archive, and the commit is not partial.
ImportRestores ==
    import = "done" /\ export = "done" /\ part = Len(plan) =>
        /\ CommitObjects \subseteq objs
        /\ detached # "none" => meta[Commit] = detached
        /\ Commit \notin partial

(***************************************************************************)
(* A commit that is stored and not marked partial has all its objects,     *)
(* after any crash.  Excepted is the span in which unencapsulate_base has  *)
(* cleared the mark and not yet committed, what follows a crash there, and *)
(* archives that are not whole.                                            *)
(***************************************************************************)
PartialHonest ==
    \/ torn \/ export \in {"cut", "foreign"}
    \/ import = "commit" /\ request.mode = "layer"
    \/ <<"commit", Commit>> \in objs /\ Commit \notin partial => CommitObjects \subseteq objs

\* With a remote, an archive whose commit is not followed by good detached metadata of its
\* own leaves no trace: no object, no metadata and no partial mark.
Signed ==
    \E k \in DOMAIN archive :
        /\ archive[k].type = "commitmeta" /\ archive[k].ref = "good"
        /\ \E j \in 1..(k - 1) : archive[j] = Object("commit", archive[k].id)
VerifiedOnly ==
    [][request.remote /\ import \notin {"idle", "done", "refused"} /\ ~Signed
        => UNCHANGED <<objs, meta, partial>>]_vars

\* The synthetic commit of an object set lists exactly the content objects of its archive,
\* also those that were stored before, and all of them are stored.
SetExact ==
    /\ \A s \in sets : \A c \in s : <<"file", c>> \in objs
    /\ import = "done" /\ request.mode = "set" =>
          /\ objset = {archive[k].id : k \in {j \in DOMAIN archive : archive[j].type = "file"}}
          /\ objset \in sets
=============================================================================
