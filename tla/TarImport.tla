------------------------------ MODULE TarImport ------------------------------
(***************************************************************************)
(* The importer of lib/src/tar/import.rs, entry by entry, and the three    *)
(* transactions that use it: import_tar ("tar"), the commit layer of       *)
(* unencapsulate_base ("layer", lib/src/container/store.rs), and object    *)
(* sets ("set": import_tar_objects and the chunk layers).                  *)
(***************************************************************************)
EXTENDS TarFormat

CONSTANTS
    Stores,      \* what the repository may hold to begin with
    MaxFaults    \* bound on cut archives and crashes inside of a txn.commit

ASSUME ImportAssumption ==
    /\ Stores \subseteq SUBSET ({"file"} \X Contents)
    /\ MaxFaults \in Nat

VARIABLES
    import,     \* where the importer is
    request,    \* which import, and whether a remote verifies the commit
    pos,        \* the next entry to read
    commit,     \* checksum of the commit entry
    nextXattrs, \* next_xattrs: <<>> or the announced file and its xattrs
    xattrs,     \* the cache of extended attributes
    objset,     \* the content objects of an object set
    staged,     \* objects that the open transaction has written
    stagedMeta, \* detached metadata that it has written
    objs,       \* objects of the repository
    meta,       \* detached metadata of its commits
    sets,       \* the synthetic commits of object sets
    partial,    \* commits marked partial
    torn,       \* a "layer" import stopped between its last two steps
    faults      \* cut archives and crashes inside of a txn.commit so far

importer == <<pos, commit, nextXattrs, xattrs, objset>>
txn == <<staged, stagedMeta>>
repo == <<objs, meta, sets, partial, torn, faults>>
importVars == <<import, request, importer, txn, repo>>

ImportRequests == [mode: {"tar", "layer"}, remote: BOOLEAN] \cup [mode: {"set"}, remote: {FALSE}]

NoRequest == [mode |-> "set", remote |-> FALSE]

ImportInit ==
    /\ import = "idle" /\ request = NoRequest
    /\ pos = 1 /\ commit = Commit /\ nextXattrs = <<>> /\ xattrs = {} /\ objset = {}
    /\ staged = {} /\ stagedMeta = "none"
    /\ objs \in Stores
    /\ meta = [c \in Commits |-> "none"] /\ sets = {} /\ partial = {} /\ torn = FALSE /\ faults = 0

HasEntry == pos <= Len(archive)
Current == archive[pos]
Stored(type, id) == <<type, id>> \in objs \cup staged
Reading == import \in {"first", "second", "objects"}

\* The importer is dropped, and with it what it has cached.
Drop ==
    /\ request' = NoRequest
    /\ pos' = 1 /\ commit' = Commit /\ nextXattrs' = <<>> /\ xattrs' = {} /\ objset' = {}

-----------------------------------------------------------------------------
(***************************************************************************)
(* Importer::new_for_commit and new_for_object_set, and auto_transaction.  *)
(***************************************************************************)
BeginImport(r) ==
    /\ import = "idle"
    /\ request' = r
    /\ import' = IF r.mode = "set" THEN "objects" ELSE "first"
    /\ pos' = 1 /\ nextXattrs' = <<>> /\ xattrs' = {} /\ objset' = {}
    /\ staged' = {} /\ stagedMeta' = "none"
    /\ UNCHANGED <<commit, repo>>

(***************************************************************************)
(* filter_entry: only entries under the repository are looked at.          *)
(***************************************************************************)
FilterEntry ==
    /\ Reading /\ HasEntry /\ Current.type \notin ObjectTypes
    /\ pos' = pos + 1
    /\ UNCHANGED <<import, request, commit, nextXattrs, xattrs, objset, txn, repo>>

(***************************************************************************)
(* import_commit: the first object is the commit; nothing is written yet.  *)
(***************************************************************************)
ReadCommit ==
    /\ import = "first" /\ HasEntry /\ Current.type = "commit"
    /\ commit' = Current.id
    /\ pos' = pos + 1 /\ import' = "second"
    /\ UNCHANGED <<request, nextXattrs, xattrs, objset, txn, repo>>

\* Mutation of Verified.
VerifiedSignature(e) == e.type = "commitmeta" /\ e.ref = "good"

(***************************************************************************)
(* import_commit with a remote: the second object is the detached metadata *)
(* of this commit, and its signature is good.                              *)
(***************************************************************************)
Verified(e) == e.type = "commitmeta" /\ e.id = commit /\ e.ref = "good"

(***************************************************************************)
(* Without a remote it is detached metadata, which is attached to the      *)
(* commit whatever it is named after, or a metadata object.                *)
(***************************************************************************)
Unverified(e) == e.type \in {"commitmeta", "dirtree", "dirmeta"}

\* Mutation of WriteCommit.
WriteCommitUnmarked ==
    /\ import = "second" /\ HasEntry /\ Current.type \in ObjectTypes
    /\ IF request.remote THEN Verified(Current) ELSE Unverified(Current)
    /\ staged' = staged \cup {<<"commit", commit>>}
                 \cup (IF Current.type = "commitmeta" THEN {} ELSE {<<Current.type, Current.id>>})
    /\ stagedMeta' = IF Current.type = "commitmeta" THEN Current.ref ELSE stagedMeta
    /\ pos' = pos + 1 /\ import' = "objects"
    /\ UNCHANGED <<request, commit, nextXattrs, xattrs, objset, repo>>

WriteCommit ==
    /\ import = "second" /\ HasEntry /\ Current.type \in ObjectTypes
    /\ IF request.remote THEN Verified(Current) ELSE Unverified(Current)
    /\ partial' = partial \cup {commit}
    /\ staged' = staged \cup {<<"commit", commit>>}
                 \cup (IF Current.type = "commitmeta" THEN {} ELSE {<<Current.type, Current.id>>})
    /\ stagedMeta' = IF Current.type = "commitmeta" THEN Current.ref ELSE stagedMeta
    /\ pos' = pos + 1 /\ import' = "objects"
    /\ UNCHANGED <<request, commit, nextXattrs, xattrs, objset, objs, meta, sets, torn, faults>>

(***************************************************************************)
(* import_object, by the suffix of the entry.                              *)
(***************************************************************************)
MetadataAllowed(e) == e.type \in {"dirtree", "dirmeta"} /\ request.mode # "set"

ImportMetadata ==
    /\ import = "objects" /\ HasEntry /\ MetadataAllowed(Current)
    /\ staged' = staged \cup {<<Current.type, Current.id>>}
    /\ pos' = pos + 1
    /\ UNCHANGED <<import, request, commit, nextXattrs, xattrs, objset, stagedMeta, repo>>

CacheXattrs ==
    /\ import = "objects" /\ HasEntry /\ Current.type = "file-xattrs"
    /\ xattrs' = xattrs \cup {Current.id}
    /\ pos' = pos + 1
    /\ UNCHANGED <<import, request, commit, nextXattrs, objset, txn, repo>>

IsXattrsLink(e) == e.type \in {"file-xattrs-link", "file-xattrs-inline"}

\* Mutation of ProcessXattrsLink.
ProcessDanglingLink ==
    /\ import = "objects" /\ HasEntry /\ IsXattrsLink(Current)
    /\ nextXattrs' = Append(nextXattrs, [file |-> Current.id, xattrs |-> Current.ref])
    /\ xattrs' = IF Current.type = "file-xattrs-inline" THEN xattrs \cup {Current.ref} ELSE xattrs
    /\ pos' = pos + 1
    /\ UNCHANGED <<import, request, commit, objset, txn, repo>>

ProcessXattrsLink ==
    /\ import = "objects" /\ HasEntry /\ IsXattrsLink(Current) /\ nextXattrs = <<>>
    /\ nextXattrs' = <<[file |-> Current.id, xattrs |-> Current.ref]>>
    /\ xattrs' = IF Current.type = "file-xattrs-inline" THEN xattrs \cup {Current.ref} ELSE xattrs
    /\ pos' = pos + 1
    /\ UNCHANGED <<import, request, commit, objset, txn, repo>>

(***************************************************************************)
(* import_content_object: the announcement must be there and name this     *)
(* object.  An object that is stored is not written again; otherwise its   *)
(* xattrs must be cached, and libostree compares the checksum of what is   *)
(* written (external), which covers the xattrs.  An object set has no      *)
(* object twice.                                                           *)
(***************************************************************************)
ContentAccepted(e) ==
    /\ nextXattrs # <<>> /\ nextXattrs[1].file = e.id
    /\ \/ Stored("file", e.id)
       \/ nextXattrs[1].xattrs \in xattrs /\ nextXattrs[1].xattrs = XattrOf[e.id]
    /\ request.mode = "set" => e.id \notin objset

\* Mutation of ImportContent.
ImportContentUntracked ==
    /\ import = "objects" /\ HasEntry /\ Current.type = "file" /\ ContentAccepted(Current)
    /\ nextXattrs' = <<>>
    /\ staged' = staged \cup ({<<"file", Current.id>>} \ objs)
    /\ objset' = IF request.mode = "set" /\ ~Stored("file", Current.id) THEN objset \cup {Current.id}
                 ELSE objset
    /\ pos' = pos + 1
    /\ UNCHANGED <<import, request, commit, xattrs, stagedMeta, repo>>

ImportContent ==
    /\ import = "objects" /\ HasEntry /\ Current.type = "file" /\ ContentAccepted(Current)
    /\ nextXattrs' = <<>>
    /\ staged' = staged \cup ({<<"file", Current.id>>} \ objs)
    /\ objset' = IF request.mode = "set" THEN objset \cup {Current.id} ELSE objset
    /\ pos' = pos + 1
    /\ UNCHANGED <<import, request, commit, xattrs, stagedMeta, repo>>

(***************************************************************************)
(* Every other entry is an error, and so is an archive that ends too soon; *)
(* the transaction is aborted.  Without a remote the commit is marked      *)
(* partial before the second object turns out to be of a wrong type.       *)
(***************************************************************************)
Acceptable(e) ==
    CASE import = "first" -> e.type = "commit"
      [] import = "second" -> IF request.remote THEN Verified(e) ELSE Unverified(e)
      [] import = "objects" ->
            \/ MetadataAllowed(e) \/ e.type = "file-xattrs"
            \/ IsXattrsLink(e) /\ nextXattrs = <<>>
            \/ e.type = "file" /\ ContentAccepted(e)

AbortTransaction ==
    /\ import' = "refused"
    /\ staged' = {} /\ stagedMeta' = "none"
    /\ UNCHANGED <<request, importer, objs, meta, sets, faults>>

RefuseEntry ==
    /\ Reading /\ HasEntry /\ Current.type \in ObjectTypes /\ ~Acceptable(Current)
    /\ AbortTransaction
    /\ partial' = IF import = "second" /\ ~request.remote /\ Current.type \in MetadataTypes
                  THEN partial \cup {commit} ELSE partial
    /\ UNCHANGED torn

RefuseEnd ==
    /\ import \in {"first", "second"} /\ ~HasEntry
    /\ AbortTransaction
    /\ UNCHANGED <<partial, torn>>

-----------------------------------------------------------------------------
(***************************************************************************)
(* The end of the stream.  import_tar commits and then clears the partial  *)
(* mark; unencapsulate_base clears it first.                               *)
(***************************************************************************)
EndOfArchive ==
    /\ import = "objects" /\ ~HasEntry
    /\ import' = IF request.mode = "layer" THEN "clear" ELSE "commit"
    /\ UNCHANGED <<request, importer, txn, repo>>

CommitTransaction ==
    /\ import = "commit"
    /\ objs' = objs \cup staged
    /\ meta' = IF stagedMeta = "none" THEN meta ELSE [meta EXCEPT ![commit] = stagedMeta]
    /\ sets' = IF request.mode = "set" THEN sets \cup {objset} ELSE sets
    /\ import' = IF request.mode = "tar" THEN "clear" ELSE "done"
    /\ staged' = {} /\ stagedMeta' = "none"
    /\ UNCHANGED <<request, importer, partial, torn, faults>>

ClearPartial ==
    /\ import = "clear"
    /\ partial' = partial \ {commit}
    /\ import' = IF request.mode = "tar" THEN "done" ELSE "commit"
    /\ UNCHANGED <<request, importer, txn, objs, meta, sets, torn, faults>>

(***************************************************************************)
(* The importer fails or is killed.  Inside of txn.commit libostree moves  *)
(* the objects one by one (external): some of them are then stored.  The   *)
(* extreme cases stand for all.                                            *)
(***************************************************************************)
Interrupt ==
    /\ import \notin {"idle", "done", "refused"}
    /\ import' = "idle" /\ Drop
    /\ staged' = {} /\ stagedMeta' = "none"
    /\ torn' = (torn \/ (import = "commit" /\ request.mode = "layer"))
    /\ UNCHANGED <<objs, meta, sets, partial, faults>>

InterruptCommit(o) ==
    /\ import = "commit" /\ o \in staged /\ faults < MaxFaults
    /\ faults' = faults + 1
    /\ objs' \in {objs \cup {o}, objs \cup (staged \ {o})}
    /\ torn' = (torn \/ request.mode = "layer")
    /\ import' = "idle" /\ Drop
    /\ staged' = {} /\ stagedMeta' = "none"
    /\ UNCHANGED <<meta, sets, partial>>

ImportStep ==
    \/ FilterEntry \/ ReadCommit \/ WriteCommit
    \/ ImportMetadata \/ CacheXattrs \/ ProcessXattrsLink \/ ImportContent
    \/ RefuseEntry \/ RefuseEnd \/ EndOfArchive \/ CommitTransaction \/ ClearPartial
=============================================================================
