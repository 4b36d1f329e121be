------------------------------ MODULE ImageStore ------------------------------
(***************************************************************************)
(* The container image store kept in an OSTree repository                  *)
(* (lib/src/container/store.rs), with the deployment code that uses it     *)
(* (lib/src/container/deploy.rs) and the command line operations that      *)
(* drive both (lib/src/cli.rs).                                            *)
(*                                                                         *)
(* The repository holds                                                    *)
(*   - layer refs  (ostree/container/blob/<digest>),                       *)
(*   - image refs  (ostree/container/image/<name>), each naming a merge    *)
(*     commit whose metadata carries the manifest it was made from,        *)
(*   - the refs libostree keeps for each deployment,                       *)
(*   - the branches that `container import --write-ref` sets, and          *)
(*   - the objects those refs reach.                                       *)
(*                                                                         *)
(* Each process runs one operation at a time.  An operation is a sequence  *)
(* of repository transactions; another process may run between any two of  *)
(* them, and the operation may end there (an error from the proxy, a       *)
(* cancellation, a crash): nothing undoes the transactions already made.   *)
(***************************************************************************)
EXTENDS Integers, Sequences, FiniteSets

CONSTANTS
    Procs,       \* processes that open the repository
    Images,      \* image references
    Manifests,   \* manifests a registry can serve
    Layers,      \* layer digests
    Layout,      \* what parse_manifest_layout returns for each manifest
    ImageId,     \* the config digest of each manifest
    Bootable,    \* the manifests that require_bootable accepts
    Unreadable,  \* the manifests that parse_manifest_layout refuses
    Filtered,    \* derived layers with content that cannot be stored
    Requests,    \* the operations the processes may be asked to run
    Serial,      \* TRUE: callers run one operation at a time
    NoCommit,    \* "this ref does not exist"
    NoManifest   \* "no update has been cached"

(***************************************************************************)
(* The base commit layer holds the OSTree commit and every object that is  *)
(* not in a chunk, so equal base layers come with the same chunks.         *)
(***************************************************************************)
ASSUME LayoutAssumption ==
    /\ Layout \in [Manifests -> [base: Layers, chunks: Seq(Layers), derived: Seq(Layers)]]
    /\ \A m, n \in Manifests :
          Layout[m].base = Layout[n].base => Layout[m].chunks = Layout[n].chunks

(***************************************************************************)
(* A digest names one content: the layer with the commit of an image is no *)
(* chunk, which has no commit, and no layer that was built on top.         *)
(***************************************************************************)
ASSUME RolesAssumption ==
    \A m, n \in Manifests :
        /\ \A k \in DOMAIN Layout[m].chunks : Layout[m].chunks[k] # Layout[n].base
        /\ \A k \in DOMAIN Layout[m].derived : Layout[m].derived[k] # Layout[n].base

ASSUME ConstantsAssumption ==
    /\ Filtered \subseteq Layers
    /\ Bootable \subseteq Manifests /\ Unreadable \subseteq Manifests
    /\ Serial \in BOOLEAN

(***************************************************************************)
(* A merge commit is identified by the metadata that import() gives it:    *)
(* the manifest and the layers whose filtered content was recorded.        *)
(***************************************************************************)
Commits == [manifest: Manifests, filtered: SUBSET Filtered]

ASSUME NullAssumption == NoCommit \notin Commits /\ NoManifest \notin Manifests

Ops == {"pull", "check", "deploy", "unencapsulate", "copy",
        "remove", "prune_layers", "prune_images", "prune_full"}

(***************************************************************************)
(* A request: the image it is about, the reference it stores the result    *)
(* under (set_target), the images to remove, no_imgref, whether layers are *)
(* collected afterwards (disable_gc, --skip-gc, --and-layers), no_clean,   *)
(* and --write-ref.                                                        *)
(***************************************************************************)
RequestType == [op: Ops, img: Images, target: Images, imgs: SUBSET Images,
                noref: BOOLEAN, gc: BOOLEAN, noclean: BOOLEAN, writeref: BOOLEAN]

ASSUME RequestsAssumption == Requests \subseteq RequestType /\ Requests # {}

\* Only deploy() calls set_target.
ASSUME TargetAssumption == \A r \in Requests : r.op # "deploy" => r.target = r.img

NoRequest == CHOOSE r \in Requests : TRUE

VARIABLES
    tag,        \* the manifest the registry serves for each image
    imageRef,   \* image ref -> merge commit
    layerRef,   \* the layers that have a ref
    layerObjs,  \* the layers whose content is stored as a whole
    cut,        \* the layers whose ref was last set to a commit of a cut archive
    mergeObjs,  \* the merge commits that are stored
    cached,     \* detached metadata: the update cached on a merge commit
    deployed,   \* deployments, newest first, with their origin
    branch,     \* the base commits that a branch names
    lock,       \* the process that holds the lock of the sysroot, if any
    pc,         \* where each process is
    req,        \* the request it runs
    loaded,     \* the deployments when it loaded the sysroot
    work        \* what it remembers between two steps

vars == <<tag, imageRef, layerRef, layerObjs, cut, mergeObjs, cached, deployed, branch, lock,
          pc, req, loaded, work>>
repoVars == <<imageRef, layerRef, layerObjs, cut, mergeObjs, cached, deployed, branch>>

Elems(s) == {s[k] : k \in DOMAIN s}

\* Mutation of FetchOrder.
FetchOrderBaseFirst(m) == <<Layout[m].base>> \o (Layout[m].chunks \o Layout[m].derived)

(***************************************************************************)
(* import() fetches the chunks, then the commit layer, then the derived    *)
(* layers; copy() follows the manifest.                                    *)
(***************************************************************************)
FetchOrder(m) == Layout[m].chunks \o (<<Layout[m].base>> \o Layout[m].derived)
CopyOrder(m) == <<Layout[m].base>> \o (Layout[m].chunks \o Layout[m].derived)
LayersOf(m) == Elems(FetchOrder(m))
BaseLayers(m) == Elems(Layout[m].chunks) \cup {Layout[m].base}

WorkType == [manifest: Manifests \cup {NoManifest}, prev: Commits \cup {NoCommit},
             have: SUBSET Layers, idx: Nat \ {0}, filtered: SUBSET Filtered,
             merged: Commits \cup {NoCommit}, marked: SUBSET Layers,
             found: SUBSET Layers, todo: SUBSET Images, removed: SUBSET Images,
             missing: BOOLEAN]

NoWork == [manifest |-> NoManifest, prev |-> NoCommit, have |-> {}, idx |-> 1,
           filtered |-> {}, merged |-> NoCommit, marked |-> {}, found |-> {},
           todo |-> {}, removed |-> {}, missing |-> FALSE]

Ended == {"done", "failed", "aborted"}
PCs == {"idle", "prepare", "cache", "fetch", "late", "mark", "manifests", "resolve", "sweep",
        "requery", "deploy", "write", "cleanup", "warn", "lock", "list", "remove", "prune",
        "copy"} \cup Ended

DeploymentType == [commit: Commits, origin: Images]

(***************************************************************************)
(* The commits that list_container_deployment_manifests and libostree's    *)
(* prune reach through the refs of the deployments.                        *)
(***************************************************************************)
DeployedCommits == {deployed[k].commit : k \in DOMAIN deployed}
ImageCommits == {imageRef[i] : i \in {j \in Images : imageRef[j] # NoCommit}}
RefCommits == ImageCommits \cup DeployedCommits

Init ==
    /\ tag \in [Images -> Manifests]
    /\ imageRef = [i \in Images |-> NoCommit]
    /\ layerRef = {}
    /\ layerObjs = {}
    /\ mergeObjs = {}
    /\ cached = [c \in Commits |-> NoManifest]
    /\ cut = {}
    /\ deployed = <<>>
    /\ branch = {}
    /\ lock = {}
    /\ pc = [p \in Procs |-> "idle"]
    /\ req = [p \in Procs |-> NoRequest]
    /\ loaded = [p \in Procs |-> <<>>]
    /\ work = [p \in Procs |-> NoWork]

-----------------------------------------------------------------------------
(***************************************************************************)
(* Reading the repository                                                  *)
(***************************************************************************)

(***************************************************************************)
(* query_image_commit: the merge commit must load, and the ref of its      *)
(* first layer must resolve.                                               *)
(***************************************************************************)
QueryOk(c) == c \in mergeObjs /\ Layout[c.manifest].base \in layerRef

(***************************************************************************)
(* try_query_image: an image that cannot be queried counts as absent.      *)
(***************************************************************************)
TryQueryImage(i) ==
    IF imageRef[i] # NoCommit /\ QueryOk(imageRef[i]) THEN imageRef[i] ELSE NoCommit

(***************************************************************************)
(* prepare_internal returns AlreadyPresent for an equal manifest digest    *)
(* and for an equal image ID.                                              *)
(***************************************************************************)
AlreadyPresent(prev, m) ==
    /\ prev # NoCommit
    /\ prev.manifest = m \/ ImageId[prev.manifest] = ImageId[m]

(***************************************************************************)
(* The layers that gc_image_layers_impl finds in a manifest of an image or *)
(* of a deployment.                                                        *)
(***************************************************************************)
ReferencedLayers == UNION {LayersOf(c.manifest) : c \in RefCommits}
DeployedLayers == UNION {LayersOf(c.manifest) : c \in DeployedCommits}

\* Mutation of ReachableLayers.
ReachableFromImages == UNION {LayersOf(c.manifest) : c \in RefCommits}

(***************************************************************************)
(* What libostree's prune (REFS_ONLY, depth 0) keeps: a layer ref keeps    *)
(* its layer, unless it names the commit of a cut archive; and the ref of  *)
(* a base commit also keeps the chunks, whose objects that commit uses.    *)
(***************************************************************************)
RefBases == {m \in Manifests : Layout[m].base \in layerRef \cup branch}
ReachableLayers == (layerRef \ cut) \cup UNION {BaseLayers(m) : m \in RefBases}

-----------------------------------------------------------------------------
(***************************************************************************)
(* Steps                                                                   *)
(***************************************************************************)
At(p, label) == pc[p] = label
Go(p, label) == pc' = [pc EXCEPT ![p] = label]
Remember(p, w) == work' = [work EXCEPT ![p] = w]
Running(p) == pc[p] \notin {"idle"} \cup Ended

(***************************************************************************)
(* The registry moves a tag.                                               *)
(***************************************************************************)
Push(i, m) ==
    /\ tag' = [tag EXCEPT ![i] = m]
    /\ UNCHANGED <<repoVars, lock, pc, req, loaded, work>>

(***************************************************************************)
(* Only the commands that prune images take the lock of the sysroot.  They *)
(* load the sysroot first, and deploy() uses a sysroot that its caller has *)
(* loaded.                                                                 *)
(***************************************************************************)
LockedOps == {"prune_images", "prune_full"}
SysrootOps == LockedOps \cup {"deploy"}

FirstLabel(op) ==
    CASE op \in {"pull", "check", "deploy", "unencapsulate"} -> "prepare"
      [] op = "copy" -> "copy"
      [] op = "remove" -> "remove"
      [] op = "prune_layers" -> "mark"
      [] op \in LockedOps -> "lock"

Begin(p, r) ==
    /\ At(p, "idle")
    /\ Serial => \A q \in Procs : At(q, "idle")
    /\ Go(p, FirstLabel(r.op))
    /\ req' = [req EXCEPT ![p] = r]
    /\ loaded' = [loaded EXCEPT ![p] = IF r.op \in SysrootOps THEN deployed ELSE <<>>]
    /\ \E m \in (IF r.op = "copy" THEN Manifests \ Unreadable ELSE {NoManifest}) :
          Remember(p, [NoWork EXCEPT !.todo = r.imgs, !.manifest = m])
    /\ UNCHANGED <<tag, repoVars, lock>>

(***************************************************************************)
(* The process stops at an await point or inside a transaction that is     *)
(* then rolled back: an error of the proxy or of a filter, a cancellation, *)
(* or a crash.                                                             *)
(***************************************************************************)
Abort(p) ==
    /\ Running(p)
    /\ Go(p, "aborted")
    /\ Remember(p, NoWork)
    /\ UNCHANGED <<tag, repoVars, req, loaded, lock>>

\* Mutation of Reap.
ReapKeepsLock(p) ==
    /\ pc[p] \in Ended
    /\ Go(p, "idle")
    /\ req' = [req EXCEPT ![p] = NoRequest]
    /\ loaded' = [loaded EXCEPT ![p] = <<>>]
    /\ Remember(p, NoWork)
    /\ UNCHANGED <<tag, repoVars, lock>>

(***************************************************************************)
(* The end of an operation drops its SysrootLock, which unlocks; a process *)
(* that dies leaves the lock to the kernel, which does the same.           *)
(***************************************************************************)
Reap(p) ==
    /\ pc[p] \in Ended
    /\ Go(p, "idle")
    /\ req' = [req EXCEPT ![p] = NoRequest]
    /\ loaded' = [loaded EXCEPT ![p] = <<>>]
    /\ lock' = lock \ {p}
    /\ Remember(p, NoWork)
    /\ UNCHANGED <<tag, repoVars>>

(***************************************************************************)
(* SysrootLock::new_from_sysroot tries again every three seconds.          *)
(***************************************************************************)
TryLock(p) ==
    /\ At(p, "lock")
    /\ lock = {}
    /\ lock' = {p}
    /\ Go(p, "list")
    /\ UNCHANGED <<tag, repoVars, req, loaded, work>>

\* Mutation of AfterPresent.
AfterPresentDeploys(op) == IF op = "unencapsulate" THEN "failed" ELSE "deploy"

(***************************************************************************)
(* prepare_internal up to fetch_config: fetch the manifest, query the      *)
(* stored image.  unencapsulate() panics on AlreadyPresent.                *)
(***************************************************************************)
AfterPresent(op) ==
    CASE op = "deploy" -> "deploy" [] op = "unencapsulate" -> "failed" [] OTHER -> "done"

Prepare(p) ==
    LET m == tag[req[p].img]
        prev == TryQueryImage(req[p].img)
    IN  /\ At(p, "prepare")
        /\ IF AlreadyPresent(prev, m)
           THEN /\ Go(p, AfterPresent(req[p].op))
                /\ Remember(p, [work[p] EXCEPT !.merged = prev])
           ELSE /\ Go(p, "cache")
                /\ Remember(p, [work[p] EXCEPT !.manifest = m, !.prev = prev])
        /\ UNCHANGED <<tag, repoVars, req, loaded, lock>>

(***************************************************************************)
(* The rest of prepare_internal: cache_pending on the previous merge       *)
(* commit, then create_prepared_import, which may refuse the image and     *)
(* else resolves the ref of every layer.  `pull --check` ends here, and    *)
(* unencapsulate() refuses an image with derived layers.                   *)
(***************************************************************************)
Refused(op, m) ==
    \/ m \in Unreadable
    \/ op = "deploy" /\ m \notin Bootable
    \/ op = "unencapsulate" /\ Layout[m].derived # <<>>

PresentLayers(m) == layerRef \cap LayersOf(m)
CachedUpdate(p) ==
    IF work[p].prev = NoCommit THEN cached
    ELSE [cached EXCEPT ![work[p].prev] = work[p].manifest]

CachePending(p) ==
    LET m == work[p].manifest
    IN  /\ At(p, "cache")
        /\ cached' = CachedUpdate(p)
        /\ Go(p, IF Refused(req[p].op, m) THEN "failed"
                 ELSE IF req[p].op = "check" THEN "done" ELSE "fetch")
        /\ Remember(p, [work[p] EXCEPT !.have = PresentLayers(m), !.prev = NoCommit])
        /\ UNCHANGED <<tag, imageRef, layerRef, layerObjs, cut, mergeObjs, deployed,
                       branch, req, loaded, lock>>

(***************************************************************************)
(* One iteration of the loops of unencapsulate_base and import: a layer    *)
(* that had a commit when it was prepared is skipped; any other is fetched *)
(* and stored in one transaction, together with its ref unless the caller  *)
(* is unencapsulate().  Writing a derived layer first loads the policy of  *)
(* the base commit.  Only a layer stored now has its filtered content      *)
(* recorded.                                                               *)
(***************************************************************************)
NextLayer(p) == FetchOrder(work[p].manifest)[work[p].idx]
MoreLayers(p) == work[p].idx <= Len(FetchOrder(work[p].manifest))
IsDerived(p) == work[p].idx > Len(Layout[work[p].manifest].chunks) + 1
NewlyFiltered(p) == IF IsDerived(p) THEN {NextLayer(p)} \cap Filtered ELSE {}
BaseReadable(m) == BaseLayers(m) \subseteq layerObjs

ReuseLayer(p) ==
    /\ At(p, "fetch")
    /\ MoreLayers(p)
    /\ NextLayer(p) \in work[p].have
    /\ Remember(p, [work[p] EXCEPT !.idx = @ + 1])
    /\ UNCHANGED <<tag, repoVars, pc, req, loaded, lock>>

CanFetch(p) ==
    /\ At(p, "fetch")
    /\ MoreLayers(p)
    /\ NextLayer(p) \notin work[p].have
    /\ IsDerived(p) => BaseReadable(work[p].manifest)

WritesRef(p) == req[p].op # "unencapsulate"

\* Mutation of StoreWhole.
StoreWholeNoRef(p, l) ==
    /\ layerObjs' = layerObjs \cup {l}
    /\ UNCHANGED <<layerRef, cut>>

StoreWhole(p, l) ==
    /\ layerObjs' = layerObjs \cup {l}
    /\ layerRef' = IF WritesRef(p) THEN layerRef \cup {l} ELSE layerRef
    /\ cut' = IF WritesRef(p) THEN cut \ {l} ELSE cut

StoreCut(p, l) ==
    /\ layerRef' = IF WritesRef(p) THEN layerRef \cup {l} ELSE layerRef
    /\ cut' = IF WritesRef(p) THEN cut \cup {l} ELSE cut
    /\ UNCHANGED layerObjs

FetchLayer(p) ==
    /\ CanFetch(p)
    /\ StoreWhole(p, NextLayer(p))
    /\ Remember(p, [work[p] EXCEPT !.idx = @ + 1, !.filtered = @ \cup NewlyFiltered(p)])
    /\ UNCHANGED <<tag, imageRef, mergeObjs, cached, deployed, branch, pc, req, loaded, lock>>

(***************************************************************************)
(* What FetchContract allows beside: the fetch fails, or its future is     *)
(* dropped, and the blocking thread or the child of `ostree commit` goes   *)
(* on.  It may store nothing, the whole layer, or, when the stream ended   *)
(* between two entries of the archive, a cut one, under its ref like any.  *)
(***************************************************************************)
FetchFails(p) ==
    /\ CanFetch(p)
    /\ Go(p, "late")
    /\ UNCHANGED <<tag, repoVars, req, loaded, lock, work>>

LateCommit(p) ==
    /\ At(p, "late")
    /\ MoreLayers(p)
    /\ \/ StoreWhole(p, NextLayer(p))
       \/ StoreCut(p, NextLayer(p))
       \/ UNCHANGED <<layerRef, layerObjs, cut>>
    /\ Go(p, "aborted")
    /\ Remember(p, NoWork)
    /\ UNCHANGED <<tag, imageRef, mergeObjs, cached, deployed, branch, req, loaded, lock>>

(***************************************************************************)
(* import() reads the base commit before it writes a derived layer and     *)
(* before it merges, and checks out every derived layer: when an object is *)
(* gone, it fails.  The commit of a cut derived layer is whole in itself   *)
(* and checks out as well as any; where its ref is gone by then, its       *)
(* objects may be too.                                                     *)
(***************************************************************************)
DerivedStored(m) == Elems(Layout[m].derived) \subseteq layerObjs \cup (cut \cap layerRef)

MissingObjects(p) ==
    /\ At(p, "fetch")
    /\ WritesRef(p)
    /\ \/ MoreLayers(p) /\ IsDerived(p) /\ ~BaseReadable(work[p].manifest)
       \/ ~MoreLayers(p) /\ ~BaseReadable(work[p].manifest)
       \/ ~MoreLayers(p) /\ ~DerivedStored(work[p].manifest)
    /\ Go(p, "failed")
    /\ UNCHANGED <<tag, repoVars, req, loaded, lock, work>>

\* Mutation of WrittenRef.
WrittenOnce(p, c) ==
    IF req[p].noref \/ imageRef[req[p].target] # NoCommit THEN imageRef
    ELSE [imageRef EXCEPT ![req[p].target] = c]

(***************************************************************************)
(* The last transaction of import(): check out base and layers, write the  *)
(* merge commit, and set the image ref unless no_imgref.                   *)
(***************************************************************************)
WrittenRef(p, c) ==
    IF req[p].noref THEN imageRef ELSE [imageRef EXCEPT ![req[p].target] = c]

Merge(p) ==
    LET c == [manifest |-> work[p].manifest, filtered |-> work[p].filtered]
    IN  /\ At(p, "fetch")
        /\ ~MoreLayers(p)
        /\ WritesRef(p)
        /\ BaseReadable(work[p].manifest)
        /\ Elems(Layout[work[p].manifest].derived) \subseteq layerObjs \cup cut
        /\ mergeObjs' = mergeObjs \cup {c}
        /\ imageRef' = WrittenRef(p, c)
        /\ Remember(p, [NoWork EXCEPT !.manifest = work[p].manifest, !.merged = c])
        /\ Go(p, IF req[p].gc THEN "mark" ELSE "requery")
        /\ UNCHANGED <<tag, layerRef, layerObjs, cut, cached, deployed, branch, req, loaded, lock>>

(***************************************************************************)
(* `container import --write-ref` sets a branch to the base commit once    *)
(* unencapsulate() has returned, in no transaction.                        *)
(***************************************************************************)
UnencapsulateDone(p) ==
    /\ At(p, "fetch")
    /\ ~MoreLayers(p)
    /\ ~WritesRef(p)
    /\ branch' = branch \cup (IF req[p].writeref THEN {Layout[work[p].manifest].base} ELSE {})
    /\ Go(p, "done")
    /\ UNCHANGED <<tag, imageRef, layerRef, layerObjs, cut, mergeObjs, cached, deployed,
                   req, loaded, lock, work>>

-----------------------------------------------------------------------------
(***************************************************************************)
(* gc_image_layers_impl                                                    *)
(***************************************************************************)

(***************************************************************************)
(* List the images; then load the commits of the deployments; then resolve *)
(* the listed images one by one, and collect the layers of all manifests.  *)
(* A ref that is gone or a commit that does not load ends the collection   *)
(* with an error.                                                          *)
(***************************************************************************)
GcList(p) ==
    /\ At(p, "mark")
    /\ Go(p, "manifests")
    /\ Remember(p, [work[p] EXCEPT !.todo = {i \in Images : imageRef[i] # NoCommit}])
    /\ UNCHANGED <<tag, repoVars, req, loaded, lock>>

\* Mutation of GcDeployments.
GcNoDeployments(p) ==
    /\ At(p, "manifests")
    /\ Go(p, "resolve")
    /\ Remember(p, [work[p] EXCEPT !.marked = {}])
    /\ UNCHANGED <<tag, repoVars, req, loaded, lock>>

GcDeployments(p) ==
    /\ At(p, "manifests")
    /\ DeployedCommits \subseteq mergeObjs
    /\ Go(p, "resolve")
    /\ Remember(p, [work[p] EXCEPT !.marked = DeployedLayers])
    /\ UNCHANGED <<tag, repoVars, req, loaded, lock>>

\* Mutation of GcResolve.
GcResolveNoChunks(p, i) ==
    /\ At(p, "resolve")
    /\ i \in work[p].todo
    /\ imageRef[i] \in mergeObjs
    /\ Remember(p, [work[p] EXCEPT !.todo = @ \ {i},
                     !.marked = @ \cup {Layout[imageRef[i].manifest].base}
                                  \cup Elems(Layout[imageRef[i].manifest].derived)])
    /\ UNCHANGED <<tag, repoVars, pc, req, loaded, lock>>

GcResolve(p, i) ==
    /\ At(p, "resolve")
    /\ i \in work[p].todo
    /\ imageRef[i] \in mergeObjs
    /\ Remember(p, [work[p] EXCEPT !.todo = @ \ {i},
                                   !.marked = @ \cup LayersOf(imageRef[i].manifest)])
    /\ UNCHANGED <<tag, repoVars, pc, req, loaded, lock>>

GcFails(p) ==
    /\ \/ At(p, "manifests") /\ ~(DeployedCommits \subseteq mergeObjs)
       \/ At(p, "resolve") /\ \E i \in work[p].todo : imageRef[i] \notin mergeObjs
    /\ Go(p, "failed")
    /\ UNCHANGED <<tag, repoVars, req, loaded, lock, work>>

GcScan(p) ==
    /\ At(p, "resolve")
    /\ work[p].todo = {}
    /\ Go(p, "sweep")
    /\ Remember(p, [work[p] EXCEPT !.found = layerRef \ work[p].marked, !.marked = {}])
    /\ UNCHANGED <<tag, repoVars, req, loaded, lock>>

\* Mutation of GcSweep.
GcSweepFirst(p, l) ==
    /\ At(p, "sweep")
    /\ l \in work[p].found
    /\ layerRef' = layerRef \ {l}
    /\ Remember(p, [work[p] EXCEPT !.found = {}])
    /\ UNCHANGED <<tag, imageRef, layerObjs, cut, mergeObjs, cached, deployed, branch, pc,
                   req, loaded, lock>>

(***************************************************************************)
(* Delete the refs one at a time, in the order of a hash map.              *)
(***************************************************************************)
GcSweep(p, l) ==
    /\ At(p, "sweep")
    /\ l \in work[p].found
    /\ layerRef' = layerRef \ {l}
    /\ Remember(p, [work[p] EXCEPT !.found = @ \ {l}])
    /\ UNCHANGED <<tag, imageRef, layerObjs, cut, mergeObjs, cached, deployed, branch, pc,
                   req, loaded, lock>>

AfterGc(op) ==
    CASE op \in {"pull", "deploy"} -> "requery" [] op = "prune_full" -> "prune" [] OTHER -> "done"

GcDone(p) ==
    /\ At(p, "sweep")
    /\ work[p].found = {}
    /\ Go(p, AfterGc(req[p].op))
    /\ UNCHANGED <<tag, repoVars, req, loaded, lock, work>>

(***************************************************************************)
(* import() ends by querying the commit it wrote.                          *)
(***************************************************************************)
Requery(p) ==
    /\ At(p, "requery")
    /\ Go(p, IF ~QueryOk(work[p].merged) THEN "failed"
             ELSE IF req[p].op = "deploy" THEN "deploy" ELSE "warn")
    /\ UNCHANGED <<tag, repoVars, req, loaded, lock, work>>

-----------------------------------------------------------------------------
(***************************************************************************)
(* libostree's prune.  It fails where a base commit lacks objects that it  *)
(* must read.                                                              *)
(***************************************************************************)
PruneObjects(keep) ==
    /\ layerObjs' = layerObjs \cap ReachableLayers
    /\ mergeObjs' = mergeObjs \cap keep
    /\ cached' = [c \in Commits |-> IF c \in keep THEN cached[c] ELSE NoManifest]

BrokenBases == {m \in RefBases : Layout[m].base \notin layerObjs}

PruneFails(p) ==
    /\ At(p, "prune") \/ At(p, "cleanup")
    /\ BrokenBases # {}
    /\ Go(p, "failed")
    /\ UNCHANGED <<tag, repoVars, req, loaded, lock, work>>

(***************************************************************************)
(* deploy() checks out the merge commit, writes the list of deployments    *)
(* and cleans up, which prunes the repository: three calls of libostree,   *)
(* and none of them under the lock.  The new list holds the deployment,    *)
(* with the target reference as its origin, and the merge deployment that  *)
(* was read at the start of deploy().  In a booted sysroot the deployment  *)
(* is only staged.                                                         *)
(***************************************************************************)
DeployTree(p) ==
    /\ At(p, "deploy")
    /\ work[p].merged \in mergeObjs
    /\ Go(p, "write")
    /\ UNCHANGED <<tag, repoVars, req, loaded, lock, work>>

NewDeployments(p) ==
    <<[commit |-> work[p].merged, origin |-> req[p].target]>>
    \o SubSeq(loaded[p], 1, IF loaded[p] = <<>> THEN 0 ELSE 1)

WriteDeployment(p) ==
    /\ At(p, "write")
    /\ deployed' = NewDeployments(p)
    /\ Go(p, IF req[p].noclean THEN "warn" ELSE "cleanup")
    /\ UNCHANGED <<tag, imageRef, layerRef, layerObjs, cut, mergeObjs, cached, branch,
                   req, loaded, lock, work>>

\* Mutation of Cleanup.
CleanupUnderDeployments(p) ==
    /\ At(p, "cleanup")
    /\ PruneObjects(ImageCommits)
    /\ Go(p, "warn")
    /\ UNCHANGED <<tag, imageRef, layerRef, cut, deployed, branch, req, loaded, lock, work>>

Cleanup(p) ==
    /\ At(p, "cleanup")
    /\ PruneObjects(RefCommits)
    /\ Go(p, "warn")
    /\ UNCHANGED <<tag, imageRef, layerRef, cut, deployed, branch, req, loaded, lock, work>>

StageDeploy(p) ==
    /\ At(p, "deploy")
    /\ work[p].merged \in mergeObjs
    /\ deployed' = NewDeployments(p)
    /\ Go(p, "warn")
    /\ UNCHANGED <<tag, imageRef, layerRef, layerObjs, cut, mergeObjs, cached, branch,
                   req, loaded, lock, work>>

DeployFails(p) ==
    /\ At(p, "deploy")
    /\ work[p].merged \notin mergeObjs
    /\ Go(p, "failed")
    /\ UNCHANGED <<tag, repoVars, req, loaded, lock, work>>

(***************************************************************************)
(* The commands end with image_filtered_content_warning, which requires    *)
(* the ref of the image they wrote.                                        *)
(***************************************************************************)
FilteredWarning(p) ==
    /\ At(p, "warn")
    /\ Go(p, IF imageRef[req[p].target] \in mergeObjs THEN "done" ELSE "failed")
    /\ UNCHANGED <<tag, repoVars, req, loaded, lock, work>>

(***************************************************************************)
(* `ostree admin undeploy`, which is not part of this code.                *)
(***************************************************************************)
Undeploy(k) ==
    /\ Serial => \A q \in Procs : At(q, "idle")
    /\ k \in DOMAIN deployed
    /\ deployed' = IF k = 1 THEN Tail(deployed) ELSE SubSeq(deployed, 1, k - 1)
    /\ UNCHANGED <<tag, imageRef, layerRef, layerObjs, cut, mergeObjs, cached, branch, lock,
                   pc, req, loaded, work>>

-----------------------------------------------------------------------------
(***************************************************************************)
(* remove_undeployed_images: list the images that are the origin of no     *)
(* deployment of the loaded sysroot; they are then removed like those of   *)
(* remove_images.                                                          *)
(***************************************************************************)
UndeployedImages(p) ==
    {i \in Images : imageRef[i] # NoCommit /\ \A k \in DOMAIN loaded[p] : loaded[p][k].origin # i}

ListUndeployed(p) ==
    /\ At(p, "list")
    /\ Go(p, "remove")
    /\ Remember(p, [work[p] EXCEPT !.todo = UndeployedImages(p)])
    /\ UNCHANGED <<tag, repoVars, req, loaded, lock>>

(***************************************************************************)
(* remove_image: an image that is not there is reported, and the loop of   *)
(* remove_images goes on.  remove_undeployed_images does not report it.    *)
(***************************************************************************)
RemoveImage(p, i) ==
    /\ At(p, "remove")
    /\ i \in work[p].todo
    /\ imageRef' = [imageRef EXCEPT ![i] = NoCommit]
    /\ Remember(p, [work[p] EXCEPT !.todo = @ \ {i}, !.removed = @ \cup {i},
                     !.missing = @ \/ (req[p].op = "remove" /\ imageRef[i] = NoCommit)])
    /\ UNCHANGED <<tag, layerRef, layerObjs, cut, mergeObjs, cached, deployed, branch, pc,
                   req, loaded, lock>>

(***************************************************************************)
(* `remove` stops with an error when an image was missing, before any      *)
(* collection; `prune-images` without --full returns at once when it       *)
(* removed nothing, even with --and-layers.                                *)
(***************************************************************************)
AfterRemove(r, w) ==
    CASE r.op = "prune_full" -> "mark"
      [] r.op = "prune_images" -> IF w.removed # {} /\ r.gc THEN "mark" ELSE "done"
      [] OTHER -> IF w.missing THEN "failed" ELSE IF r.gc THEN "mark" ELSE "done"

RemoveDone(p) ==
    /\ At(p, "remove")
    /\ work[p].todo = {}
    /\ Go(p, AfterRemove(req[p], work[p]))
    /\ UNCHANGED <<tag, repoVars, req, loaded, lock, work>>

(***************************************************************************)
(* prune() ends with repo.prune(REFS_ONLY, 0).                             *)
(***************************************************************************)
Prune(p) ==
    /\ At(p, "prune")
    /\ PruneObjects(RefCommits)
    /\ Go(p, "done")
    /\ UNCHANGED <<tag, imageRef, layerRef, cut, deployed, branch, req, loaded, lock, work>>

-----------------------------------------------------------------------------
(***************************************************************************)
(* copy() into this repository of an image that another one holds: pull    *)
(* each layer ref, then the merge commit without a ref, then set the image *)
(* ref outside of any transaction.                                         *)
(***************************************************************************)
CopyLayer(p) ==
    LET m == work[p].manifest
        l == CopyOrder(m)[work[p].idx]
        pulled == {l} \cup (IF work[p].idx = 1 THEN BaseLayers(m) ELSE {})
    IN  /\ At(p, "copy")
        /\ work[p].idx <= Len(CopyOrder(m))
        /\ layerRef' = layerRef \cup {l}
        /\ layerObjs' = layerObjs \cup pulled
        /\ cut' = cut \ {l}
        /\ Remember(p, [work[p] EXCEPT !.idx = @ + 1])
        /\ UNCHANGED <<tag, imageRef, mergeObjs, cached, deployed, branch, pc, req, loaded, lock>>

CopyCommit(p) ==
    LET m == work[p].manifest
        c == [manifest |-> m, filtered |-> Filtered \cap Elems(Layout[m].derived)]
    IN  /\ At(p, "copy")
        /\ work[p].idx > Len(CopyOrder(m))
        /\ work[p].merged = NoCommit
        /\ mergeObjs' = mergeObjs \cup {c}
        /\ Remember(p, [work[p] EXCEPT !.merged = c])
        /\ UNCHANGED <<tag, imageRef, layerRef, layerObjs, cut, cached, deployed, branch,
                       pc, req, loaded, lock>>

CopyRef(p) ==
    /\ At(p, "copy")
    /\ work[p].merged # NoCommit
    /\ imageRef' = [imageRef EXCEPT ![req[p].img] = work[p].merged]
    /\ Go(p, "done")
    /\ UNCHANGED <<tag, layerRef, layerObjs, cut, mergeObjs, cached, deployed, branch, req,
                   loaded, lock, work>>

-----------------------------------------------------------------------------
ImportStep(p) ==
    \/ Prepare(p) \/ CachePending(p) \/ ReuseLayer(p) \/ FetchLayer(p) \/ FetchFails(p)
    \/ LateCommit(p) \/ MissingObjects(p) \/ Merge(p) \/ UnencapsulateDone(p) \/ Requery(p)

GcStep(p) ==
    \/ GcList(p) \/ GcDeployments(p) \/ GcFails(p) \/ GcScan(p) \/ GcDone(p)
    \/ \E i \in Images : GcResolve(p, i)
    \/ \E l \in Layers : GcSweep(p, l)

DeployStep(p) ==
    \/ DeployTree(p) \/ WriteDeployment(p) \/ Cleanup(p) \/ StageDeploy(p) \/ DeployFails(p)
    \/ FilteredWarning(p)

RemoveStep(p) ==
    \/ TryLock(p) \/ ListUndeployed(p) \/ RemoveDone(p) \/ Prune(p) \/ PruneFails(p)
    \/ \E i \in Images : RemoveImage(p, i)

CopyStep(p) == CopyLayer(p) \/ CopyCommit(p) \/ CopyRef(p)

Step(p) == ImportStep(p) \/ GcStep(p) \/ DeployStep(p) \/ RemoveStep(p) \/ CopyStep(p)

Next ==
    \/ \E i \in Images, m \in Manifests : Push(i, m)
    \/ \E k \in 1..2 : Undeploy(k)
    \/ \E p \in Procs :
          \/ \E r \in Requests : Begin(p, r)
          \/ Step(p)
          \/ Abort(p)
          \/ Reap(p)

Spec == Init /\ [][Next]_vars

(***************************************************************************)
(* Every step of a started operation is taken sooner or later: the         *)
(* executor polls a ready future, and the blocking parts run on threads of *)
(* their own; a command that waits for the lock keeps trying.  Nothing is  *)
(* assumed of the callers, the registry or crashes.                        *)
(***************************************************************************)
FairSpec == Spec /\ \A p \in Procs : WF_vars(Step(p)) /\ WF_vars(Reap(p))

-----------------------------------------------------------------------------
(***************************************************************************)
(* Properties                                                              *)
(***************************************************************************)

(***************************************************************************)
(* Every variable has its type, and libostree keeps at most two            *)
(* deployments of the stateroot that deploy() writes to.                   *)
(***************************************************************************)
RepoTypeOK ==
    /\ tag \in [Images -> Manifests]
    /\ imageRef \in [Images -> Commits \cup {NoCommit}]
    /\ layerRef \subseteq Layers
    /\ layerObjs \subseteq Layers
    /\ cut \subseteq Layers
    /\ mergeObjs \subseteq Commits
    /\ cached \in [Commits -> Manifests \cup {NoManifest}]
    /\ deployed \in Seq(DeploymentType) /\ Len(deployed) <= 2
    /\ branch \subseteq Layers
    /\ lock \subseteq Procs
    /\ loaded \in [Procs -> Seq(DeploymentType)]

ProcTypeOK ==
    /\ pc \in [Procs -> PCs]
    /\ req \in [Procs -> Requests]
    /\ work \in [Procs -> WorkType]

TypeOK == RepoTypeOK /\ ProcTypeOK

(***************************************************************************)
(* Every layer of the manifest behind an image ref has a layer ref: what   *)
(* copy(), export() and the next pull rely on.  Collections, crashes       *)
(* between two layers, re-pulls over a moved tag and interrupted copies    *)
(* all leave it true when operations do not overlap.                       *)
(***************************************************************************)
ImagesComplete == \A c \in ImageCommits : LayersOf(c.manifest) \subseteq layerRef

(***************************************************************************)
(* What each process knows at each of its steps.  An import or a copy has  *)
(* a manifest, a deployment has a merge commit, and only a removal removes *)
(* images.                                                                 *)
(***************************************************************************)
Imports(r) == r.op \in {"pull", "deploy"}
PhaseOf(l, r, w) ==
    /\ l \in {"cache", "fetch", "late", "copy"} => w.manifest \in Manifests
    /\ l \in {"requery", "deploy", "write"} => w.merged \in Commits /\ Imports(r)
    /\ l \in {"mark", "manifests", "resolve", "sweep"} /\ Imports(r) => w.merged \in Commits
    /\ l \in {"lock", "list", "remove"} => ~Imports(r)
    /\ l \in {"prepare", "cache"} => Imports(r) \/ r.op \in {"check", "unencapsulate"}
    /\ l \in {"fetch", "late"} => Imports(r) \/ r.op = "unencapsulate"
    /\ l = "copy" => r.op = "copy"
PhaseOK == \A p \in Procs : PhaseOf(pc[p], req[p], work[p])

TypeInv == TypeOK /\ PhaseOK

(***************************************************************************)
(* When callers take turns, what a process learned in one transaction is   *)
(* still true in the next: the layers it counted as present and those it   *)
(* stored keep their refs, and a collection condemns no layer in use.      *)
(***************************************************************************)
ProgressAt(p) ==
    /\ pc[p] \in {"prepare", "cache"} => work[p].idx = 1
    /\ pc[p] = "fetch" /\ WritesRef(p) =>
          /\ work[p].have \subseteq layerRef
          /\ \A k \in 1..Len(FetchOrder(work[p].manifest)) :
                k < work[p].idx => FetchOrder(work[p].manifest)[k] \in layerRef
    /\ pc[p] = "copy" =>
          /\ \A k \in 1..Len(CopyOrder(work[p].manifest)) :
                k < work[p].idx => CopyOrder(work[p].manifest)[k] \in layerRef
          /\ work[p].merged # NoCommit =>
                /\ work[p].merged.manifest = work[p].manifest
                /\ work[p].idx > Len(CopyOrder(work[p].manifest))
    /\ pc[p] = "manifests" => \A i \in Images \ work[p].todo : imageRef[i] = NoCommit
    /\ pc[p] = "resolve" =>
          /\ DeployedLayers \subseteq work[p].marked
          /\ \A i \in Images \ work[p].todo :
                imageRef[i] # NoCommit => LayersOf(imageRef[i].manifest) \subseteq work[p].marked
    /\ pc[p] = "sweep" => work[p].found \cap ReferencedLayers = {}
ProgressOK == \A p \in Procs : ProgressAt(p)

(***************************************************************************)
(* An import that writes an image ref still owns it when it deploys.       *)
(***************************************************************************)
MergedLabels == {"mark", "manifests", "resolve", "sweep", "requery", "deploy", "write"}
MergedStored ==
    \A p \in Procs :
        pc[p] \in MergedLabels /\ Imports(req[p]) /\ ~req[p].noref
            => work[p].merged \in ImageCommits

(***************************************************************************)
(* Nobody else deploys or undeploys while an operation that has loaded the *)
(* sysroot runs.                                                           *)
(***************************************************************************)
LoadedFresh ==
    \A p \in Procs :
        Running(p) /\ pc[p] \notin {"cleanup", "warn"} => loaded[p] \in {deployed, <<>>}

Exclusive == \A p, q \in Procs : p # q => At(p, "idle") \/ At(q, "idle")

(***************************************************************************)
(* The layers of a deployed image keep their refs, whatever images are     *)
(* removed, pruned or replaced while it is deployed:                       *)
(* gc_image_layers_impl also reads the manifests of the deployments.       *)
(***************************************************************************)
DeploymentsCached == \A c \in DeployedCommits : LayersOf(c.manifest) \subseteq layerRef

(***************************************************************************)
(* However operations overlap, no image ref and no layer ref dangles: the  *)
(* merge commit of every image is stored, and a layer with a ref is stored *)
(* as a whole or was cut when it was fetched.  Both kinds of refs are set  *)
(* in the transaction that stores their target, and prune keeps what has a *)
(* ref.  It is false of what is set later and without the lock: the image  *)
(* ref of copy(), the deployments of deploy(), and --write-ref.            *)
(***************************************************************************)
RefsResolve == ImageCommits \subseteq mergeObjs /\ layerRef \subseteq layerObjs \cup cut

(***************************************************************************)
(* When callers take turns the base of every stored image has all of its   *)
(* objects, so that it can be checked out and deployed, although fetches   *)
(* that failed may have left cut chunks and cut bases under their refs for *)
(* the next import to take as present.  Any other base commit with a ref   *)
(* or a branch lacks at most the objects of a layer that was cut.          *)
(***************************************************************************)
BasesWhole ==
    /\ \A c \in ImageCommits : BaseReadable(c.manifest)
    /\ \A m \in RefBases : BaseLayers(m) \subseteq layerObjs \cup cut

(***************************************************************************)
(* When callers take turns the commit of every deployment is stored: the   *)
(* deployment is written after its tree is checked out, in another call,   *)
(* and a prune finds it through its ref.                                   *)
(***************************************************************************)
DeploymentsStored == DeployedCommits \subseteq mergeObjs

(***************************************************************************)
(* An operation that is not interrupted fails only for a reason that can   *)
(* be named: an image it must refuse, an image to remove that is not       *)
(* there, or a cut layer under the base that it needs or that a prune must *)
(* read.  Nothing else that a crash, a failed fetch or a collection leaves *)
(* behind makes a later operation fail, in the checkout, in the collection *)
(* or in the final query of import; and a cut derived layer makes none     *)
(* fail.  The last reason is one of the code's: a deployment with a target *)
(* reference whose source is already present never writes the target, and  *)
(* the warning that looks it up fails when the deployment has been made.   *)
(***************************************************************************)
TargetSkipped(p) ==
    req[p].op = "deploy" /\ req[p].target # req[p].img /\ work[p].manifest = NoManifest
CutBase(p) ==
    \/ work[p].manifest # NoManifest /\ BaseLayers(work[p].manifest) \cap cut # {}
    \/ req[p].op \in {"deploy", "prune_full"} /\ BrokenBases # {}
OwnFault(p) ==
    \/ work[p].manifest # NoManifest /\ Refused(req[p].op, work[p].manifest)
    \/ req[p].op = "unencapsulate" /\ work[p].merged # NoCommit
    \/ req[p].op = "remove" /\ work[p].missing
    \/ TargetSkipped(p)
    \/ CutBase(p)
NoSpuriousFailure == \A p \in Procs : At(p, "failed") => OwnFault(p)

(***************************************************************************)
(* A collection leaves exactly the layers that an image or a deployment    *)
(* uses, the leftovers of interrupted imports included, and after a full   *)
(* prune the repository stores nothing that no ref reaches.                *)
(***************************************************************************)
BranchLayers == UNION {BaseLayers(m) : m \in {n \in Manifests : Layout[n].base \in branch}}
GcComplete ==
    \A p \in Procs :
        /\ (At(p, "requery") /\ req[p].gc) \/ At(p, "prune") => layerRef \subseteq ReferencedLayers
        /\ At(p, "done") /\ req[p].op = "prune_full" =>
              layerObjs \subseteq ReferencedLayers \cup BranchLayers /\ mergeObjs = RefCommits

(***************************************************************************)
(* A pull or a deployment that reports success has stored, under the       *)
(* reference it was asked to write, the image it fetched (or one with the  *)
(* same image ID), and that image can be queried.  (Where the target is    *)
(* skipped, see above, success only means that an older image has it.)     *)
(***************************************************************************)
Fetched(p) == IF work[p].manifest # NoManifest THEN work[p].manifest ELSE work[p].merged.manifest
SuccessIsStored ==
    \A p \in Procs :
        At(p, "done") /\ req[p].op \in {"pull", "deploy"} /\ ~req[p].noref /\ ~TargetSkipped(p) =>
            LET c == TryQueryImage(req[p].target)
            IN  c # NoCommit /\ ImageId[c.manifest] = ImageId[Fetched(p)]

(***************************************************************************)
(* A command that waits for the lock of the sysroot gets it, or is ended,  *)
(* if at some point no other process starts to prune any more: whoever     *)
(* holds it lets go, when it is done and when it fails, is interrupted or  *)
(* dies.  While others keep coming, it can lose against them for ever.     *)
(***************************************************************************)
StartsLocked(q) == At(q, "idle") /\ pc'[q] = "lock"
LockHandedOn ==
    \A p \in Procs :
        <>[][\A q \in Procs \ {p} : ~StartsLocked(q)]_vars => (At(p, "lock") ~> ~At(p, "lock"))

-----------------------------------------------------------------------------
(***************************************************************************)
(* What the documentation says and the code does not do                    *)
(***************************************************************************)

(***************************************************************************)
(* set_no_imgref: "Do not write the final image ref, but do write refs for *)
(* shared layers"; DeployOpts::no_imgref: "there will be refs for the      *)
(* fetched layers".  The collection that ends the import deletes them.     *)
(***************************************************************************)
NorefKeepsLayers ==
    \A p \in Procs :
        (/\ req[p].noref /\ work[p].merged # NoCommit
         /\ pc[p] \in {"requery", "deploy", "write", "cleanup", "warn", "done"})
            => LayersOf(work[p].merged.manifest) \subseteq layerRef
=============================================================================
