# A TLA+ verification project for ostree-rs-ext

ostree-rs-ext stores container images in an ostree repository. An image is a
manifest over layers. The first layers carry an ostree commit (the *commit
layer*, or base, and *chunk* layers with the rest of its objects), the others
are ordinary *derived* layers. Importing an image stores each layer under a
*layer ref*, then checks all of them out on top of each other and stores the
result as a *merge commit* under an *image ref*. Later operations deploy the
merge commit, look for updates, copy images, remove them, and collect layers
that nothing uses.

All paths below are relative to `lib/src/` of the repository.

## 1. Inventory

| Component | State | Operations | Hard because | Correct when |
|---|---|---|---|---|
| Image store (`container/store.rs`) | image refs, layer refs, merge commits, cached updates | `prepare`, `import`, `unencapsulate`, `copy`, `remove_images`, `gc_image_layers`, `query_image` | an import is many transactions with awaits in between; callers are separate processes; any of them may stop after any transaction; layers are shared | a stored image has all its layers; collection removes what is unused and nothing else; leftovers never make a later import fail |
| Deployment (`container/deploy.rs`, `cli.rs`) | the deployments and their origins | `deploy`, `remove_undeployed_images`, `prune` | image refs, layer refs and deployments change separately | what is deployed stays cached and is not pruned |
| Sysroot lock (`sysroot.rs`) | who holds it | `new_from_sysroot`, drop | a loop that waits | every holder releases it |
| Layer fetch (`container/unencapsulate.rs`, `tar/write.rs`, `tokio_util.rs`) | proxy, pipe, blocking thread, duplex, child process, futures | `fetch_layer`, `join_fetch`, `write_tar`, `filter_tar_async`, `spawn_blocking_cancellable` | four concurrent parties connected by bounded pipes, errors that cause each other, futures that are dropped | success means a whole and verified layer; nobody waits for ever; nothing leaks |
| Tar import and export (`tar/import.rs`, `tar/export.rs`) | the importer's caches and object set; the writer's sets of what it wrote | `import_commit`, `import_objects`, `write_commit`, `write_chunk`, `reinject_detached_metadata` | the order of the stream carries meaning | what is exported is imported to the same objects; nothing unverified is accepted |
| Tar filter (`tar/write.rs`) | hardlink tables | `filter_tar`, `normalize_validate_path`, `copy_entry` | links into a tree that is moved or dropped; three styles of paths | every path that is kept has its content, what is dropped is counted |
| Chunking (`chunking.rs`, `objectsource.rs`, `statistics.rs`) | chunks, bins | `process_mapping`, `basic_packing`, packing with a prior build | arithmetic on small numbers of bins; a merge loop | every object in exactly one chunk; at most the bins allowed; the loop ends |
| Encapsulation (`container/encapsulate.rs`, `container/mod.rs`) | manifest, config, label | `build_oci`, `export_chunked`, image references, `ManifestDiff` | writer and reader of a layout are far apart, and others rewrite the image in between | `parse_manifest_layout` reads what was written |
| Ref escaping (`refescape.rs`) | refs and origins as text | `prefix_escape_for_ref`, `unprefix_unescape_ref` | empty and repeated separators; two text formats that are not inverse to each other | refs stand for the images that are stored |
| Detached metadata (`container/update_detachedmeta.rs`) | - | `update_detached_metadata` | rewrites one layer of an image | the image is as if built with the new metadata |
| Repair (`repair.rs`) | the result of an analysis | `check_inode_collision`, `analyze_for_repair`, `repair` | truncated inode numbers; images change between its steps | no damaged image is left; what is flushed was found damaged, or stands under the name of one that was |
| Diff, IMA, commit (`diff.rs`, `ima.rs`, `commit.rs`) | memo tables | tree walks | shared subtrees | every object is visited once |
| Host configuration, skopeo driver, logging, test support | - | reads of files and of the environment | - | not modelled |

Interaction. The command line calls the importer, which calls `fetch_layer` for
each missing layer, joins its driver with a worker (`join_fetch`), and between
layers touches only the repository. Processes share the repository and the
deployments, and nothing else. The lock of the sysroot is taken by the two image
prunes and by `repair` only: imports, deployments, removals and the collection of
layers run without it.

The hazards these parts are exposed to are listed with their lines in
`PROJECT.json`; every property below is there because of one of them.

## 2. Modules

| Module | Contents |
|---|---|
| `ImageStore` | the repository, the registry's tags, the deployments, and any number of processes that run the operations of store, deployment and command line |
| `MCImageStore` | the small instances of `ImageStore` |
| `FetchContract` | what an import may assume of the fetch of one layer |
| `LayerFetch` | the fetch of one layer in detail; implements `FetchContract` |
| `TarFormat` | the objects of a commit and the entries of an archive |
| `TarExport` | `OstreeTarWriter` and what drives it |
| `TarImport` | the importer and the transactions around it |
| `TarStream` | exporter and importer together, with faults; `MCTarStream` is its instance |
| `Packing` | splitting a release into layers, over a history of builds; `MCPacking` is its instance |
| `ManifestLayout` | how the layers of an image say what they are: operators that write the layout and read it, used by `Packing` and `ImageLayout` |
| `ImageLayout` | one image from its encapsulation over builds on top, metadata updates, imports and exports; `MCImageLayout` is its instance |
| `TarFilter` | `filter_tar`, entry by entry; `MCTarFilter` is its instance |
| `ImageNames` | references, refs and origins as text; `MCImageNames` is its instance |
| `ImageRepair` | finding and flushing images damaged by truncated inode numbers; `MCImageRepair` is its instance |
| `ImageStoreProofs`, `OperationProofs` | theorems about `ImageStore` |
| `LayerFetchProofs`, `ImageRepairProofs`, `TarFilterProofs`, `TarStreamProofs`, `PackingProofs`, `ImageLayoutProofs` | theorems about the module each is named after |

### ImageStore

State: `tag` (what each reference means at the registry), `imageRef`,
`layerRef` and `branch` (refs), `layerObjs`, `mergeObjs` (objects), `cut` (layers whose
ref names the commit of an archive that was cut), `cached` (the update in the detached
metadata of a merge commit), `deployed`, `lock` (who holds the sysroot), and per process
`pc`, `req`, `loaded` (the deployments when it loaded the sysroot) and `work` (the locals
of the running operation). A manifest, a layer and an image reference are names; a merge
commit is the manifest and the derived layers whose filtered content it records. A layer
digest determines its content.

One action per transaction or other step that can be observed by another
process:

| Code | Actions |
|---|---|
| `prepare_internal`, `create_prepared_import`, `cache_pending` | `Prepare`, `CachePending` |
| `unencapsulate_base` and the derived loop of `import` | `ReuseLayer`, `FetchLayer`, `MissingObjects` |
| a fetch that fails or is dropped while its thread or child goes on | `FetchFails`, `LateCommit` (nothing, the whole layer or a cut one is stored under its ref) |
| merge transaction and final query of `import` | `Merge`, `Requery` |
| `gc_image_layers_impl` | `GcList`, `GcDeployments`, `GcResolve` (one image at a time), `GcFails`, `GcScan`, `GcSweep` (one ref at a time), `GcDone` |
| `unencapsulate`, and the branch of `container import --write-ref` | `UnencapsulateDone` |
| `deploy` and the warning that follows in `cli.rs` | `DeployTree`, `WriteDeployment`, `Cleanup` (skipped with `no_clean`), `StageDeploy`, `DeployFails`, `FilteredWarning` |
| `SysrootLock::new_from_sysroot` | `TryLock` |
| `remove_images`, `remove_undeployed_images`, `prune` | `ListUndeployed`, `RemoveImage`, `RemoveDone`, `Prune`, `PruneFails` |
| `copy` | `CopyLayer`, `CopyCommit`, `CopyRef` |
| a process that is killed, or whose future is dropped, between two transactions | `Abort` |
| the end of an operation, which drops its lock | `Reap` |
| callers, registry, `ostree admin undeploy` (external) | `Begin`, `Push`, `Undeploy` |

`LateCommit` is all that `FetchContract` lets a fetch do after it has failed. A cut
layer is not a layer that lacks its ref: the next import finds the ref and takes the
layer as present. For a derived layer nothing tells it from a whole one; under a base
commit it means missing objects, so that an import that needs them fails in its checkout
(`MissingObjects`) and a prune that must read them fails too (`PruneFails`).

`Serial = TRUE` is the discipline of callers that take turns, which the code
does not enforce; the properties that need it say so. A turn lasts until the late thread
of a failed fetch has ended. `Serial = FALSE` lets processes interleave freely.

External, modelled from how the code uses it: a prune with `REFS_ONLY` and depth
0 deletes exactly the objects that no ref reaches, and fails where a base commit with a
ref lacks its own layer; libostree keeps at most two deployments of a stateroot and a ref
for each of them, staged ones included; the repository that `copy` pulls from has whole
bases. The `baseimage` refs are left out: they only add refs. `Filtered` is empty in the
passing runs and not in `noref`, and `Unreadable` (manifests that `parse_manifest_layout`
refuses) is empty in the runs, where `deploy` and `unencapsulate` refuse images for
reasons of their own; the theorems hold for any value of both.

### LayerFetch

    proxy --pipe--> thread                                   base layer
    proxy --pipe--> thread --duplex--> copier --stdin--> ostree commit   derived

The proxy writes `Size` blocks and verifies the digest at the end; the tar
reader has seen its end marker after `Need` of them. The pipe and the duplex are
bounded. Each of proxy, thread, child and future takes its own steps; `DropFetch`
drops the future at any time. `worker`, `driver` and `result` are the two
arguments and the value of `join_fetch`; `fault` is a history variable that
records whether anything outside the fetch failed. `join_fetch` does not see why the
proxy failed, only a text, and tests whether that ends in "broken pipe": `ErrorTexts`
says which texts a failure may have. One that we caused by closing the pipe has that
text, one of the proxy's own may have it, a wrong digest has another (external).

External: skopeo (`Proxy*`) and `ostree commit` (`Child*`). Two facts about the
tar crate matter and are modelled: a stream that ends between two entries is a
normal end, and an archive writer that is dropped still writes the end marker.

`FetchContract` says what `ImageStore` relies on: a layer is stored at most
once, whole or cut short, possibly after the caller gave up, and success is
reported only with the whole layer stored.

### TarFormat, TarExport, TarImport, TarStream

The archive is the sequence of its entries. An entry has a type, the object it
holds or links to, and a path; names stand for checksums. Sizes, owners and modes
are left out, except that a file may be empty.

`TarExport` writes one archive of a *plan*: the whole commit (`export_commit`), or
chunks (`export_chunk`) and the final one (`export_final_chunk`). `todo` is the
call stack of `append_dirtree` and `wrote` holds the `wrote_*` sets of the
writer. `AppendDirtree`, `AppendSubdir`, `AppendFile`, `AppendStandardVar` and
`WriteChunkObject` are its steps; `Reinject` is `reinject_detached_metadata`.
The second path of a symbolic link in `export_commit` gets a header without
type and size; whether the tar crate reads that size as zero or as an error is a
choice of the model (`AppendRepeatedSymlink`).

`TarImport` reads an archive entry by entry: `ReadCommit`, `WriteCommit` (with
or without a remote that verifies), then `ImportMetadata`, `CacheXattrs`,
`ProcessXattrsLink`, `ImportContent`; what none of them takes is `RefuseEntry`.
`staged` is the open transaction. `import_tar` commits and then clears the mark
of a partial commit, `unencapsulate_base` clears it first; an object set has no
mark. `Interrupt` loses the transaction, `InterruptCommit` stops libostree
(external) in the middle of moving objects into the repository.

`TarStream` exports a plan archive by archive and imports each, again and again
if it likes; an archive may be cut between two entries, or one of another origin
may come. External: libostree compares the checksum of what it writes, which
covers the extended attributes.

### Packing

A *line* is a history of releases; each build takes the next one, packs its
components into `r` (the bins) and publishes an image. `Fresh`, `Again` and
`CommandLine` are the three ways to call it: with sizes and frequencies, with
the manifest of the last image as well, and as the command line does (all of one
size, one layer more than there are components). `PackByPrior`, `PackFew` and
`PackMany` are the branches of `basic_packing`, `MergeBins` one turn of its
`while` loop, `FinishBins` its end; `Publish` and `AssignFails` are
`process_mapping` and `export_chunked`. Every `assert!`, `expect`, `panic!` and
`unwrap` on the way ends in the phase "panic", every error in "refused" (`Unmapped`: an
object whose component is unknown). The
unsigned subtraction that may underflow is a panic or a wrapped value, as the
build profile decides. Statistics are compared exactly, by multiplying out the
medians, means and square roots; f64 rounding at equality, and f32 rounding of the
limit on bins for large components, are left out. Sorting and selecting are `Arranged` and
`Chosen` of `ManifestLayout`: the element at a place is the one with that many before it
in the order, ties in the order of the input, as a stable sort gives. `Places` are the
places of components in bins, so that a component that is packed twice counts twice.

What the model shows that a reader of the code may not expect (none of it is
excluded from the run; `GoodInput` says what avoids a panic):
* with few regular components besides many of maximal frequency, `expect`
  ("Partitioning components into sets") or the subtraction panics;
* two components of one name cannot be carried over to the next build: the count
  after "Verify all packages are included" may pass, the assertion on the
  remainder does not;
* a build after an image of an empty release, or with fewer bins than the prior
  image has layers, panics;
* the merged bin is inserted one place after the pair it replaces, so that bins
  do not keep the order of frequencies that the comment above the loop states,
  and the bin of small components may take others in;
* the command line asks for fewer than four layers, and so is refused, when
  there are one or two components.

### ManifestLayout, ImageLayout

A layer is its uncompressed content with an annotation; two layers are equal when
both agree, which is how the code compares descriptors. The image is its layers,
the diffids of its config and the label. `ExportChunked` is the writer,
`ParseManifestLayout` (with `LayerFromDiffid`) the reader.

`ImageLayout` follows one image: `Encapsulate` (`build_oci`), `Derive` (a
container build, external), `UpdateDetachedMetadata`, `Import` (what a host stores
of the image), `Export` (`export_to_oci`). `host` is what the last host stores,
`made` a history variable that says what the image was made from. `Export` keeps the
diffids and the label of the imported config and appends to them, as the code does,
and may lose a derived layer whose `ostree export` failed (`failed`), because the
code does not wait for that child.

### TarFilter

`layer` is what the archive contains so far, `changed` and `targets` are the two
tables of `filter_tar`, `tree` is what its output unpacks to (each path with the
path its content comes from), `filtered` its result. A path is a top level directory
and a name; an archive writes its paths in one of three styles (`usr/a`, `./usr/a`,
`/usr/a`), which decides what is recognised as the repository. One action per branch:
`CacheObject`, `MakeCanonical`, `Relink`, `UnhandledLink`, `Filter`, `Copy`, `Refuse`.
That `ostree commit` fails at a hardlink whose target it has not seen is external.

### ImageNames

A text is a sequence of characters, with known words as single ones. `text` is
typed character by character; `Deploy` and `Pull` parse it, store a ref and, for a
deployment, the origin; `PruneImages` lists, parses and removes. `EscapeForRef`,
`UnescapeForRef`, `TryOstreeImageReference`, `TryImageReference` and `Display` are
the functions of the code. External: what libostree accepts as a ref, and that a
ref cannot be a file and a directory at once.

### ImageRepair

`inode` numbers the objects (upper and lower 32 bits), `image` has for each stored
image its derived layer and its merge commit, which the old libostree may have
written with one object mistaken for another whose lower bits agree (external).
`Analyze`, `Verify`, `EndAnalysis`, `Flush` and `EndRepair` are the steps of the
command; `VerifyFails` is an image that cannot be queried or lacks a layer, which ends
the whole analysis with an error. `flushed` is a history variable: what was flushed, as
it was then. `PullOther` and `RemoveOther` come between any two of them,
as neither takes the sysroot lock. `CompareCommitTrees` swaps its two trees at every level,
as the code does.

## 3. Runs

| Run | Instance | Shows |
|---|---|---|
| `serial` | 1 process, 2 images, 2 manifests that share a base in two layers, one with a derived layer and bootable; every operation | over moving tags, interrupted anywhere, with fetches that fail and leave whole or cut layers: stored images are complete and have whole bases, what is deployed stays cached and stored, success means stored, collection is exact, and nothing fails but for a reason that can be named, a cut base among them |
| `race` | 2 processes, 1 image of one layer; imports with deployment and full prunes interleaved, with fairness | no image ref and no layer ref dangles; a prune that waits for the sysroot gets it unless others keep starting prunes, however the holder ends |
| `fetch` | 4 blocks, pipe of 2, duplex of 1, both kinds of layer, with and without progress | success is whole and verified, the proxy is blamed for nothing that we caused and its own failure is hidden only by its text, no failure is self-inflicted, the contract holds, the fetch ends and releases its thread, child and pipe |
| `stream` | a commit with shared content, attributes, trees and directory metadata, an empty file, a symbolic link with two paths; one archive, or a chunk and the final archive; one cut or one crash inside of a commit; any number of interrupted and repeated imports | in an export each hardlink comes after its object, and it is never refused; importing it restores every object; a partial commit keeps its mark; an object set lists its archive exactly; with a remote nothing unsigned leaves a trace |
| `packing` | every release of at most 7 components of 3 sizes and 3 frequencies, and histories of 3 releases with additions, removals, updates, doubled names, unowned objects and components without objects; 3, 4, 5 and 7 bins | when a build cannot panic; no object is lost; large components, small ones and those that always change are packed as documented; merging ends; layers stay stable from build to build |
| `layout` | 2 objects in 8 chunkings with up to 3 chunks (empty ones among them), 2 derived layers, 2 exports | the layout of every image is read back as it was made, with two exceptions (section 5); hosts store all of it; updating the metadata gives the image a rebuild would have given |
| `filter` | every archive of at most 4 entries over 9 paths, 3 styles, 4 configurations | a supported archive is committed exactly, and what is dropped is counted; in no archive at all does a path get content that is not its own |
| `names` | every name of at most 4 characters of 7 after 6 beginnings, beside two other images | refs stand for exactly the stored images through escaping, listing and parsing; origins are read back; commands fail only for a reason in the text |
| `repair` | 2 images, each absent, whole or damaged, with and without a derived layer, 4 ways to number 3 objects, one concurrent pull or removal | after a repair no image that stayed is damaged; where the analysis ends early, the only damage is among numbers above 32 bits; after an error nothing is flushed; what is flushed was damaged or had a derived layer when it was examined, or was pulled later under such a name |
| `noref`, `vartmp`, `emptied` | smallest instance with the behaviour | each refutes one sentence of the source (see `findings` in `PROJECT.json`) |

Bounds. In `serial` the interesting cases need two images that share layers of both
kinds, one of them refused by `deploy` and one by `unencapsulate`, tags that move, and two
references of which one is deployed; more images repeat them (2.5 million states). One
process is enough there, since processes share only the repository and `Reap` returns a
process to its initial state. In `race` two processes with one layer between them reach
every order of its steps (380 thousand states; the cost is the liveness property); that
more layers and processes change nothing for `RefsResolve` is proved. For
a layer, four blocks are more than the pipe and the duplex hold together, so
that every party blocks on every other. In `TarStream` the bound `MaxFaults` (1)
caps cut archives and crashes inside of a commit together: a second crash only
stores more of the same objects. In `packing`, 7 bins with one taken by
maximal frequency is the least that has two bins for large components and can
underflow, and 7 components are needed to get there; 3 bins are refused; 4 and 5
are the cases in which limits are 0 or 1. Three releases let a doubled name
appear and be carried over. `Done` is the end of a history. In `layout` two exports
are needed for diffids to pile up behind a label twice, and two derived layers for
annotations to be taken from the wrong place. In `filter` the longest story is an
object, two links to it and a bystander: `MaxEntries` is 4. In `names` a code of the
escaping has two digits, so `MaxTyped` of 4 characters contain every pair of
neighbours around one; in `repair`, `MaxChanges` caps what others do at one pull or
removal, as each image is looked at once when it is listed, verified and flushed, and
image references are symmetric (no action names one). `ImageStore`, `Packing`,
`ImageLayout` and `ImageNames` are checked for deadlock; a fetch, an archive and a
repair end, so `LayerFetch`, `TarStream`, `TarFilter` and `ImageRepair` are not.

Two conditions of the `stream` run are worth knowing. The top level `sysroot` has
the tree of another directory (in practice both are empty): its own tree object
is never exported. And `PartialHonest` leaves out the moment in which
`unencapsulate_base` has cleared the mark and not yet committed, and archives
that were cut: both leave an incomplete commit that looks complete.

Fairness. `ImageStore`: each step of a running operation is eventually taken
(the executor polls ready futures, blocking parts have their own threads), and so is its
end, with which the lock is released. A command that waits for the lock polls it every
three seconds; as that is no queue, only weak fairness of its step is assumed, and
`LockHandedOn` has the hypothesis that at some point no other process starts to prune.
Nothing is assumed of callers, tags or crashes. `LayerFetch`: proxy, thread,
child and executor each make progress; no failure and no drop is assumed.

## 4. Theorems

All theorems hold for every value of the constants that satisfies the
assumptions stated in the modules; TLC evaluates these on the instances.

**ImageStore.** Any number of processes, images, manifests and layers.

* `ImageStoreProofs!TypeCorrect`: `TypeInv` (`TypeOK` and `PhaseOK`). `PhaseOK`
  is needed: without knowing that a process at "fetch" has a manifest, or one at
  "deploy" a merge commit, the primed values have no type.
* `ImageStoreProofs!RefsNeverDangle`: in any interleaving, without `copy`, no image ref
  and no layer ref dangles (`RefsResolve`); a layer ref stands for a whole layer or for a
  cut one. These refs are set in the transaction that stores their target and `prune`
  keeps what has a ref; `copy` is excluded because it sets the image ref in a later step.
  Deployments and branches are not among the refs it speaks of: they, too, are written in
  a later step, without the lock, and a prune of another process in between makes them
  dangle.

The others are about callers that take turns (`Serial`):

* `ImageStoreProofs!SerialComplete`: every stored image has all its layer refs
  (`ImagesComplete`). The inductive invariant adds `Exclusive` (at most one
  process runs), `LoadedFresh` (the sysroot it has loaded is current) and `ProgressOK`: the layers an import counted as present and
  those it stored keep their refs, and a collection condemns nothing that is
  referenced. The step that matters is `GcSweep`: what was found and not marked is
  not referenced *now*.
* `ImageStoreProofs!SerialDeployments`: with no request with `no_imgref`, deployed
  images keep their layer refs (`DeploymentsCached`). Needs `MergedStored`: the
  image that is being deployed is still stored, so its layers are referenced when
  it becomes a deployment.
* `OperationProofs!SerialWhole`: `BasesWhole`, `DeploymentsStored`, and `RefsResolve` also
  with `copy`. Needs `AllKept`: what an import, a copy or a deployment has stored
  or checked out, and what no ref names yet, is not pruned meanwhile. That a stored image has a
  whole base although its import may take a cut chunk or a cut base as present rests on the
  checkout that precedes the merge. `RolesAssumption` is used here: a digest determines
  content, so a commit layer is neither a chunk nor a derived layer of any manifest.
* `OperationProofs!SerialKnows`: the inductive invariant `Knows` behind the next
  three. Each operation works in several steps with what it read in earlier ones;
  `Knows` says that this is still so. `WrittenAt`: from its merge to its end an
  import's target names the merge commit. `CollectAt`: the images a collection has listed
  are still there, what it has marked is in use, and all that is not is found.
  `RemovalAt`: who removes what.
* `SerialCollections` (`GcComplete`) and `SerialSuccess` (`SuccessIsStored`) follow from
  it. `TargetAssumption` is used: only `deploy` calls `set_target`.
* `SerialFailures` (`NoSpuriousFailure`): an operation fails only for a reason that can be
  named, and the only leftover among these reasons is a cut layer under a base
  (`MissingIsCut`: an import that finds objects missing has the refs of all layers it takes
  as present, so one of them was cut). It also assumes that no request has `no_imgref`:
  with it the collection at the end of an import deletes the layers of the image that was
  just merged (the run `noref`).

**LayerFetch.** Every size of blob, pipe and duplex.

* `FetchTypes`, `SuccessIsVerified` (`OkMeansVerified`), `FailureIsExternal`
  (`NoSelfInflictedFailure`) and `BlameIsRight` (`RightBlame`). The inductive
  invariant `FetchInv` (theorem `FetchInvariant`) says for each party what its state
  implies about the others: `ProxyFacts` (a verdict only after all blocks, a broken
  pipe only after we closed it), `ThreadFacts` (a thread ends well only after all it
  needs), `StoredFacts`, `ChildFacts` (the child commits only what ended), and
  `FutureFacts` (what a result says about worker and driver). `RightBlame` is weaker than
  one would like, and all that a decision by text can give: the proxy is blamed only for
  a failure of its own, and a wrong digest is always reported, but another failure of the
  proxy is hidden when the worker failed too and the text ends in "broken pipe".
* `KeepsContract`: `LayerFetch` implements `FetchContract`; each step maps to a step
  of it or to a stutter.

**ImageRepair.** Every base, every derived layers, every numbering of objects, any
number of images and of concurrent pulls and removals (`MaxChanges` is any number).

* `RepairIsExact` (`RepairExact`). `RepairInv` adds `ImagesMade` (each merge commit
  was written by the old libostree from its base and derived layer, with at most the
  confusion its numbers allow), `FlushExact` (what is flushed is the image that was
  examined, or one that was pulled under its name since) and `AnalysisExact` (what is flagged is what was
  found different when it was examined; what was flagged and handled is gone or has
  been pulled again since). The lemmas about `CompareCommitTrees` show that it finds
  every difference between whole trees although it swaps them at every level.
  `TreesAssumption`: paths have components, and no file is also a directory.

**TarFilter.** Every set of paths and archives of every length (`MaxEntries` is any
number); `PathsAssumption` says that a path is a top level directory and a name.

* `LinksAreRight` (`NeverMisled`) needs `ObjectsOK`: which objects have been cached,
  which have a canonical path, and that this path carries their data.
* `FilterIsExact` (`FilteredExact`) needs `KeptOK` and `CountsOK`, that is the
  property for the archive read so far; they are inductive because an entry is
  `Supported` by what precedes it alone. `OneOwner`: no two paths that are kept are
  moved to one place.

**TarStream.** Every commit (trees, files, shared objects and attributes), every plan,
every archive of another origin, any number of faults. `Names` is the set of path
components; it contains the names that the code itself writes or compares with.
`ForeignAssumption`: an archive of another origin is a sequence of entries of
the kinds that the importer tells apart.

* `StreamInvariant`: the inductive invariant `StreamInv`. `ExportInv` says what an
  archive of the exporter looks like at any time: `Announced` (a content object comes
  once, right after the link with its attributes, and these came before), `Headed`
  (where the commit and its detached metadata are; a chunk has neither), `Recorded`
  (the `wrote_*` sets agree with what was written). It is kept by every step of
  the writer and by `reinject_detached_metadata`, which takes one entry out and puts
  another in. `VerifiedInv` and `SetInv` say what the importer has verified and
  collected of what it read, `InStep` that it is in step with the exporter's archive:
  what it has cached is what the next entry needs.
* `StreamTypes` (`TypeOK`), `ExportsAreAccepted` (`NeverRefused`), `SetsAreExact`
  (`SetExact`) and `UnverifiedLeavesNoTrace` (the action property `VerifiedOnly`)
  follow from it. The last two hold for every archive, not only the exporter's.
* `HardlinksResolve` (`LinksResolve`) needs `LinkInv`: every hardlink written so far has
  its content object before it in the same archive (`Linked`), and what is in
  `wrote_content` is in the archive. It holds for every commit and plan; replacing the
  detached metadata moves neither.
* `RestoreInvariant` (`RestoreInv`), `ImportsRestore` (`ImportRestores`) and
  `PartialIsHonest` (`PartialHonest`) are about what an import ends up with, and have two
  hypotheses that `MCTarStream` assumes of its instance. `SysrootShared`: the trees that
  can be reached without the tree of the top level `sysroot` are all trees of the commit
  (the code never writes that one; section 3). `PlansComplete`: a plan is some chunks and
  one archive with the commit, which together have every file, as `build_oci` makes them.
  The argument needs no induction over trees: the trees of a commit are the least set that
  has the root and is closed under subdirectories, and when the walk ends, those written
  are such a set. `TreesAhead`, `MetasAhead`, `FilesAhead` and `ChunkAhead` say that
  whatever a written tree or a chunk mentions is written or still among the tasks, so that
  the finished archive is `Whole`. On the other side every object read is stored or staged
  (`ReadSoFar`), the chunks before are stored (`Earlier`), a staged commit is marked
  (`Marked`), and a stored one is marked or complete (`Honest`), after any number of cuts,
  crashes and repeated imports.

**Packing.** Every history of releases, any number of components and bins.
`MaxFreqAssumption`, `BinSizesAssumption`, `LinesAssumption`: counts are positive, and a
release is a sequence of components with names, versions, sizes and frequencies.

* `PackingInvariant`: the inductive invariant `BinInv`. Its core is `Tiles`: the bins
  hold each component in exactly one place. `Merging` has it for the regular components
  while bins are merged, with the large ones alone in front and the small ones together;
  `PackedBins` for all components at the end, and for a build with a prior image that the
  bins are what `PriorBins` reads from its annotations; `ImageOK` says what an annotation
  tells of a layer's content and that no name is in two layers, for the next build.
* `PackingTypes` (`TypeOK`), `PackingLosesNothing` (`NothingLost`), `PackingOwnBins`
  (`OwnBins`), `PackingMergingEnds` (`MergingEnds`) and `PackingStableLayers` (the action
  property `StableLayers`) follow from it. The lemmas show that cutting, selecting and
  sorting keep `List` and `Tiles`, from cardinalities and not by induction.
* `PackingNoPanic` (`NoPanic`): why `GoodInput` avoids every panic. For a new packing the
  question is whether the bins left for medium components get at least one each: small
  sizes are in the lower half, and where none is medium more than half are large, because
  the deviation is a median too (`FewLow`); so what is left after large and small
  components does not run out (`EnoughToPack`). For a build
  with a prior image, distinct names make the count exact.

**ImageLayout.** Every commit, every split into disjoint chunks (`ChunkingsAssumption`,
empty ones among them), any number of derived layers and exports.

* `LayoutInvariant`: the inductive invariant `LayoutInv`. The image at the registry and the
  one a host stores are `MadeFrom` their histories: `LayersOK` (which layer is where),
  `ConfigOK` (the diffids *begin* with those of the commit and the label is the last of
  these, whatever exports have appended behind them) and `FirstOK` (before the first
  export the image is what a rebuild gives).
* `LayoutReadBack` (`ReadBack`), `LayoutHostExact` (`HostExact`) and
  `LayoutUpdateIsRebuild` (`UpdateIsRebuild`) follow from it.

Only model-checked:

* liveness (`LockHandedOn`, `FetchEnds`, `ResourcesReleased`), which is out of the
  prover's reach;
* `ImageNames` (`RefsAreImages`, `OriginReadBack`): escaping and parsing are recursions
  over characters, whose result for every text is an induction over data.

## 5. What the models show that a reader may not expect

Besides the three runs that expect a violation (`/var/tmp` is exported twice, layers of a
deployment with `no_imgref` lose their refs, an image with two empty layers cannot be read):

* *Overlapping pulls.* The collection that ends one import deletes the refs of layers
  another running import has stored and not merged: that import still succeeds, and
  its image is stored without them. `ImagesComplete` is therefore checked and proved
  for callers that take turns; what holds in any interleaving is `RefsResolve`.
* *Prunes without a lock around the rest.* Between the checkout of a deployment and its
  write, between an `unencapsulate` and its branch, and between the last two steps of a
  copy, a prune of another process deletes the commit: what is then written names
  nothing. The next collection, and so the next import, fails at such a deployment. An
  image that becomes deployed after a prune has loaded the sysroot is removed, although
  `remove_undeployed_images` removes images "which are not the target of a deployment".
  The prune loads the sysroot before it waits for the lock.
* *Waiting for the lock.* The loop polls; while others keep starting prunes, a command
  may never get the lock.
* *Cached updates.* When a tag moves back to the image that is stored, the update cached
  before stays, because the image is already present; two references with one merge
  commit share its cached update.
* *Filtered content.* A derived layer that another image stored is reused without
  recording again what was filtered from it, so the new image has no warning.
* *Target reference.* A deployment with a target reference whose source is already
  stored never writes the target ref; the deployment is made, and the warning after it
  fails or is about an older image (`TargetSkipped`, an exception of
  `NoSpuriousFailure` and `SuccessIsStored`).
* *Dropped futures.* The drop guard of `spawn_blocking_cancellable` is inside of the
  closure: dropping the future does not trigger the cancellable, contrary to its
  comment (`tokio_util.rs:40`), and the thread may still commit the layer.
* *Unverified layers.* A layer is committed under its ref before the verdict of the
  proxy is known, and an archive that ends between two entries is committed as it is.
  The fetch fails, the ref stays, and the next import takes the layer as present
  (`LateCommit`). A cut derived layer is merged like any other; a cut chunk or commit layer
  makes every import of that base fail until its ref is collected.
* *Blame.* A failure of the proxy's own whose text ends in "broken pipe" is taken for one
  that we caused.
* *Equal layers.* Chunks that are empty are equal; if the last one is, the label
  leads to another layer and the image cannot be read (`Emptied` in `ReadBack`,
  the run `emptied`).
* *One layer and one on top.* Replacing the detached metadata of an image whose commit
  is one layer, after something was built on top, leaves the label on a diffid that is
  gone (`orphaned`).
* *Exports.* An exported image has the diffids of the imported one and then its own,
  more than it has layers; it can be read only because the label is found among the
  old ones. A derived layer gets the annotation of another layer, and is empty where
  `ostree export` failed.
* *Filter.* A hardlink to something moved to `usr/share/factory/var`, or to something
  dropped, makes the commit fail; a link to a modified object of the repository is
  recognised only in relative paths, and is written where the archive has it, not
  where its directory is moved to (`Supported` names what works). Children of an
  excluded directory are counted under their own name, not under the directory as
  `WriteTarResult` says.
* *Names.* `docker://` with an empty name is accepted, and displayed as a shorthand
  that is not. An image whose name continues the name of another after a slash cannot
  be stored beside it.
* *Repair.* Numbers above 32 bits that agree with each other, and with no smaller one,
  are not looked for. An image with a derived layer that replaces a file of the base,
  or shares a directory with the image but not all of its children, is taken for
  damaged and flushed. A flagged image that is gone stops the flush of the others, and an
  image that was pulled again under a flagged name is flushed though it is whole. One image
  that lacks a layer ends the analysis of all.

Hazards that the list in `PROJECT.json` leaves out, for lack of a property: the output
of `ostree commit` is read only after it exited (`tar/write.rs:453`); without a remote,
detached metadata is attached whatever commit it is named after
(`tar/import.rs:718`); the second path of a symbolic link in `export_commit` has a
header without type (`tar/export.rs:377`, modelled as `AppendRepeatedSymlink`).

## 6. Not modelled, and the plan

Next: an abstract catalogue (images as sets of layers, changed atomically) that
`ImageStore` with `Serial` implements.

Left out for good: reading configuration files, the environment and mounts, printing
and progress display (`ManifestDiff` and `diff.rs` among them), the skopeo process
itself, IMA signing and the generation of commits (`ima.rs`, `commit.rs`: walks over
one tree by one thread, around an external tool), the files that the merge adds to its
checkout, and the test support code (`fixture.rs`, `integrationtest.rs`): none of them
keeps state that an operation depends on.
