--------------------------- MODULE OperationProofs ---------------------------
(***************************************************************************)
(* What the operations achieve when callers run one at a time: no ref      *)
(* dangles, also where images are copied and deployed, and the base of     *)
(* every image is whole; imports leave what they report; collections are   *)
(* complete; nothing fails without a reason.                               *)
(***************************************************************************)
EXTENDS ImageStoreProofs

(***************************************************************************)
(* What is stored, whole or cut.                                           *)
(***************************************************************************)
Present == layerObjs \cup cut

(***************************************************************************)
(* What a process has found or stored stays stored while it has no ref of  *)
(* its own: the layers of an import, those of unencapsulate() included,    *)
(* the base and the commit of a copy, and the commit of a deployment whose *)
(* tree is checked out.                                                    *)
(***************************************************************************)
KeptAt(p) ==
    /\ pc[p] \in {"fetch", "late"} =>
          /\ work[p].have \subseteq Present
          /\ \A k \in 1..Len(FetchOrder(work[p].manifest)) :
                k < work[p].idx => FetchOrder(work[p].manifest)[k] \in Present
    /\ pc[p] = "copy" /\ work[p].idx > 1 => BaseLayers(work[p].manifest) \subseteq layerObjs
    /\ pc[p] = "copy" /\ work[p].merged # NoCommit => work[p].merged \in mergeObjs
    /\ pc[p] = "write" => work[p].merged \in mergeObjs
AllKept == \A p \in Procs : KeptAt(p)

(***************************************************************************)
(* From its merge to its end an import knows what its target names.        *)
(***************************************************************************)
AfterMerge == {"mark", "manifests", "resolve", "sweep", "requery", "deploy", "write", "cleanup",
               "warn", "done"}
WrittenAt(p) ==
    /\ At(p, "prepare") => work[p].manifest = NoManifest
    /\ pc[p] \in AfterMerge /\ Imports(req[p]) /\ ~req[p].noref /\ ~TargetSkipped(p) =>
          /\ work[p].merged \in Commits
          /\ imageRef[req[p].target] = work[p].merged
          /\ work[p].manifest # NoManifest => work[p].merged.manifest = work[p].manifest
TargetsWritten == \A p \in Procs : WrittenAt(p)

(***************************************************************************)
(* A collection knows the layers in use, and what is left to delete.       *)
(***************************************************************************)
CollectAt(p) ==
    /\ pc[p] \in {"manifests", "resolve"} => \A i \in work[p].todo : imageRef[i] # NoCommit
    /\ At(p, "resolve") => work[p].marked \subseteq ReferencedLayers
    /\ At(p, "sweep") => layerRef \subseteq ReferencedLayers \cup work[p].found
    /\ (At(p, "requery") /\ req[p].gc) \/ At(p, "prune") => layerRef \subseteq ReferencedLayers
    /\ At(p, "prune") => req[p].op = "prune_full"
    /\ At(p, "cleanup") => req[p].op = "deploy"
    /\ At(p, "deploy") \/ At(p, "write") => req[p].op = "deploy"
    /\ At(p, "warn") => Imports(req[p])
    /\ At(p, "done") /\ req[p].op = "prune_full" =>
          layerObjs \subseteq ReferencedLayers \cup BranchLayers /\ mergeObjs = RefCommits
CollectsAll == \A p \in Procs : CollectAt(p)

(***************************************************************************)
(* A removal knows who reports what is missing.                            *)
(***************************************************************************)
RemovalAt(p) ==
    /\ pc[p] \in {"lock", "list"} => req[p].op \in LockedOps /\ ~work[p].missing
    /\ At(p, "remove") => req[p].op \in LockedOps \cup {"remove"}
    /\ At(p, "remove") /\ work[p].missing => req[p].op = "remove"
RemovalsKnow == \A p \in Procs : RemovalAt(p)

-----------------------------------------------------------------------------
(***************************************************************************)
(* What a step sets for the process that takes it.                         *)
(***************************************************************************)
LEMMA Locals ==
    ASSUME TypeOK, NEW p \in Procs
    PROVE  /\ \A l : Go(p, l) => pc'[p] = l
           /\ \A w : Remember(p, w) => work'[p] = w
           /\ \A r : req' = [req EXCEPT ![p] = r] => req'[p] = r
BY DEF Go, Remember, TypeOK, ProcTypeOK

(***************************************************************************)
(* While one process steps, all others are idle.                           *)
(***************************************************************************)
LEMMA Alone ==
    ASSUME TypeOK, Exclusive, NEW p \in Procs, Step(p)
    PROVE  req' = req /\ \A q \in Procs \ {p} : pc[q] = "idle" /\ pc'[q] = "idle"
BY StepMoves DEF Exclusive, At

(***************************************************************************)
(* Whoever starts or ends does so alone.                                   *)
(***************************************************************************)
LEMMA AloneOutside ==
    ASSUME Serial, TypeOK, Exclusive
    PROVE  /\ \A p \in Procs, r \in Requests : Begin(p, r) => \A q \in Procs \ {p} : pc'[q] = "idle"
           /\ \A p \in Procs : Abort(p) \/ Reap(p) => \A q \in Procs : pc'[q] \in {"idle", "aborted"}
           /\ \A k \in 1..2 : Undeploy(k) => \A q \in Procs : pc'[q] = "idle"
<1>1. \A p \in Procs, r \in Requests : Begin(p, r) => \A q \in Procs \ {p} : pc'[q] = "idle"
  BY DEF Begin, At, Go, TypeOK, ProcTypeOK
<1>2. \A p \in Procs : Abort(p) \/ Reap(p) => \A q \in Procs : pc'[q] \in {"idle", "aborted"}
  BY DEF Abort, Reap, Running, Ended, Exclusive, At, Go, TypeOK, ProcTypeOK
<1>3. \A k \in 1..2 : Undeploy(k) => \A q \in Procs : pc'[q] = "idle"
  BY DEF Undeploy, At
<1>4. QED
  BY <1>1, <1>2, <1>3

-----------------------------------------------------------------------------
(***************************************************************************)
(* Where the layers of a manifest are in the order of an import.           *)
(***************************************************************************)
LEMMA FetchPlaces ==
    ASSUME NEW m \in Manifests
    PROVE  /\ Len(Layout[m].chunks) \in Nat
           /\ Len(FetchOrder(m)) \in Nat /\ Len(Layout[m].chunks) + 1 <= Len(FetchOrder(m))
           /\ \A k \in 1..Len(Layout[m].chunks) : FetchOrder(m)[k] = Layout[m].chunks[k]
           /\ FetchOrder(m)[Len(Layout[m].chunks) + 1] = Layout[m].base
<1> DEFINE b == Layout[m].base
           c == Layout[m].chunks
           d == Layout[m].derived
           bd == <<b>> \o d
<1>1. b \in Layers /\ c \in Seq(Layers) /\ d \in Seq(Layers)
  BY LayoutAssumption
<1> HIDE DEF b, c, d
<1>2. bd \in Seq(Layers) /\ Len(bd) = 1 + Len(d) /\ bd[1] = b
  BY <1>1
<1> HIDE DEF bd
<1>3. Len(c \o bd) = Len(c) + Len(bd) /\ \A k \in 1..Len(c) : (c \o bd)[k] = c[k]
  BY <1>1, <1>2
<1>4. (c \o bd)[Len(c) + 1] = b
  BY <1>1, <1>2
<1>5. FetchOrder(m) = c \o bd
  BY DEF FetchOrder, b, c, d, bd
<1>6. QED
  BY <1>1, <1>2, <1>3, <1>4, <1>5 DEF b, c

(***************************************************************************)
(* The layers of a manifest are those of its base and the derived ones.    *)
(***************************************************************************)
LEMMA LayersSplit ==
    ASSUME NEW m \in Manifests
    PROVE  LayersOf(m) = BaseLayers(m) \cup Elems(Layout[m].derived)
<1> DEFINE b == <<Layout[m].base>>
           c == Layout[m].chunks
           d == Layout[m].derived
           bd == b \o d
<1>1. b \in Seq(Layers) /\ c \in Seq(Layers) /\ d \in Seq(Layers) /\ Elems(b) = {Layout[m].base}
  BY LayoutAssumption DEF Elems
<1> HIDE DEF b, c, d
<1>2. bd \in Seq(Layers) /\ Elems(bd) = Elems(b) \cup Elems(d)
  BY <1>1, ElemsConcat
<1> HIDE DEF bd
<1>3. Elems(c \o bd) = Elems(c) \cup Elems(bd)
  BY <1>1, <1>2, ElemsConcat
<1>4. QED
  BY <1>1, <1>2, <1>3 DEF LayersOf, FetchOrder, BaseLayers, b, c, d, bd

(***************************************************************************)
(* A manifest has the base of another one only as its base, and then with  *)
(* the same chunks.                                                        *)
(***************************************************************************)
LEMMA OneRole ==
    ASSUME NEW m \in Manifests, NEW n \in Manifests, Layout[n].base \in LayersOf(m)
    PROVE  Layout[m].base = Layout[n].base /\ BaseLayers(m) = BaseLayers(n)
<1>1. Layout[n].base \notin Elems(Layout[m].chunks) /\ Layout[n].base \notin Elems(Layout[m].derived)
  BY RolesAssumption DEF Elems
<1>2. Layout[m].base = Layout[n].base
  BY <1>1, LayersSplit DEF BaseLayers
<1>3. Layout[m].chunks = Layout[n].chunks
  BY <1>2, LayoutAssumption
<1>4. QED
  BY <1>2, <1>3 DEF BaseLayers

(***************************************************************************)
(* An import has the refs of the base once it is past it, and of all       *)
(* layers at its end.                                                      *)
(***************************************************************************)
LEMMA ImportHas ==
    ASSUME TypeOK, PhaseOK, ProgressOK, NEW p \in Procs, At(p, "fetch"), WritesRef(p)
    PROVE  /\ IsDerived(p) => BaseLayers(work[p].manifest) \subseteq layerRef
           /\ ~MoreLayers(p) => LayersOf(work[p].manifest) \subseteq layerRef
<1> DEFINE m == work[p].manifest
<1>1. m \in Manifests /\ work[p].idx \in Nat \ {0}
  BY WorkFields DEF PhaseOK, PhaseOf, At
<1>2. \A k \in 1..Len(FetchOrder(m)) : k < work[p].idx => FetchOrder(m)[k] \in layerRef
  BY DEF ProgressOK, ProgressAt, At
<1>3. FetchOrder(m) \in Seq(Layers) /\ Layout[m].chunks \in Seq(Layers)
  BY <1>1, OrderTypes, LayoutAssumption
<1>4. ASSUME IsDerived(p) PROVE BaseLayers(m) \subseteq layerRef
  <2>1. Len(Layout[m].chunks) + 1 < work[p].idx
    BY <1>1, <1>4, FetchPlaces DEF IsDerived
  <2>2. Layout[m].base \in layerRef
    BY <1>1, <1>2, <2>1, FetchPlaces
  <2>3. ASSUME NEW k \in 1..Len(Layout[m].chunks) PROVE Layout[m].chunks[k] \in layerRef
    <3>1. k \in 1..Len(FetchOrder(m)) /\ k < work[p].idx
      BY <1>1, <2>1, <2>3, FetchPlaces
    <3>2. FetchOrder(m)[k] = Layout[m].chunks[k]
      BY <1>1, <2>3, FetchPlaces
    <3>3. QED
      BY <1>2, <3>1, <3>2
  <2>4. QED
    BY <1>3, <2>2, <2>3 DEF BaseLayers, Elems
<1>5. ASSUME ~MoreLayers(p) PROVE LayersOf(m) \subseteq layerRef
  BY <1>1, <1>2, <1>3, <1>5 DEF MoreLayers, LayersOf, Elems
<1>6. QED
  BY <1>4, <1>5

-----------------------------------------------------------------------------
(***************************************************************************)
(* Refs and bases                                                          *)
(***************************************************************************)
Whole == RefsResolve /\ BasesWhole /\ DeploymentsStored /\ AllKept

(***************************************************************************)
(* The bases stay whole while nothing stored is lost, no image is added    *)
(* and the only new ref or branch names a layer whose base, if it is one,  *)
(* is stored.                                                              *)
(***************************************************************************)
LEMMA BasesGrow ==
    ASSUME BasesWhole, NEW l, ImageCommits' \subseteq ImageCommits,
           layerRef' \cup branch' \subseteq layerRef \cup branch \cup {l},
           layerObjs \subseteq layerObjs', Present \subseteq Present',
           \A n \in Manifests : Layout[n].base = l => BaseLayers(n) \subseteq Present'
    PROVE  BasesWhole'
<1>1. \A c \in ImageCommits' : BaseReadable(c.manifest)'
  BY DEF BasesWhole, BaseReadable
<1>2. ASSUME NEW n \in RefBases' PROVE BaseLayers(n) \subseteq Present'
  BY <1>2 DEF BasesWhole, RefBases, Present
<1>3. QED
  BY <1>1, <1>2 DEF BasesWhole, Present

LEMMA BasesKept ==
    ASSUME BasesWhole, ImageCommits' \subseteq ImageCommits,
           layerRef' \cup branch' \subseteq layerRef \cup branch,
           layerObjs \subseteq layerObjs', cut' = cut
    PROVE  BasesWhole'
BY DEF BasesWhole, BaseReadable, RefBases

(***************************************************************************)
(* Prune keeps the base of every image, whose layers have refs, and all    *)
(* that a base with a ref or a branch still has.                           *)
(***************************************************************************)
LEMMA PruneBases ==
    ASSUME TypeOK, ImagesComplete, BasesWhole, NEW K, PruneObjects(K),
           UNCHANGED <<imageRef, layerRef, branch, cut>>
    PROVE  BasesWhole'
<1>1. ImageCommits' = ImageCommits /\ RefBases' = RefBases /\ layerObjs' = layerObjs \cap ReachableLayers
  BY DEF ImageCommits, RefBases, PruneObjects
<1>2. \A m \in RefBases : BaseLayers(m) \subseteq ReachableLayers
  BY DEF ReachableLayers
<1>3. ASSUME NEW c \in ImageCommits PROVE BaseReadable(c.manifest)'
  <2>1. c.manifest \in Manifests
    BY <1>3, ReferencedTypes DEF RefCommits, Commits
  <2>2. Layout[c.manifest].base \in LayersOf(c.manifest)
    BY <2>1, LayersSplit DEF BaseLayers
  <2>3. c.manifest \in RefBases
    BY <1>3, <2>1, <2>2 DEF ImagesComplete, RefBases
  <2>4. QED
    BY <1>1, <1>2, <1>3, <2>3 DEF BasesWhole, BaseReadable
<1>4. QED
  BY <1>1, <1>2, <1>3 DEF BasesWhole

(***************************************************************************)
(* While one process steps, the others have nothing to keep.               *)
(***************************************************************************)
LEMMA KeptAlone ==
    ASSUME TypeOK, Exclusive, NEW p \in Procs, Step(p), KeptAt(p)'
    PROVE  AllKept'
<1>1. \A q \in Procs \ {p} : KeptAt(q)'
  BY Alone DEF KeptAt
<1>2. QED
  BY <1>1 DEF AllKept

LEMMA NoneKept ==
    ASSUME NEW p \in Procs, pc'[p] \notin {"fetch", "late", "copy", "write"}
    PROVE  KeptAt(p)'
BY DEF KeptAt

(***************************************************************************)
(* Storing a layer loses nothing that was stored.                          *)
(***************************************************************************)
LEMMA StorePresent ==
    ASSUME NEW p, NEW l,
           StoreWhole(p, l) \/ StoreCut(p, l) \/ UNCHANGED <<layerRef, layerObjs, cut>>
    PROVE  /\ layerObjs \subseteq layerObjs' /\ Present \subseteq Present'
           /\ layerRef' \subseteq layerRef \cup {l}
           /\ layerRef' # layerRef => l \in Present'
           /\ StoreWhole(p, l) => l \in Present'
BY DEF StoreWhole, StoreCut, Present

(***************************************************************************)
(* An import has stored the chunks of a base before it stores the base.    *)
(***************************************************************************)
LEMMA StoreBases ==
    ASSUME TypeOK, PhaseOK, BasesWhole, NEW p \in Procs, KeptAt(p), pc[p] \in {"fetch", "late"},
           MoreLayers(p), UNCHANGED <<imageRef, branch>>,
           \/ StoreWhole(p, NextLayer(p)) \/ StoreCut(p, NextLayer(p))
           \/ UNCHANGED <<layerRef, layerObjs, cut>>
    PROVE  BasesWhole'
<1> DEFINE m == work[p].manifest
           l == NextLayer(p)
<1>a. /\ m \in Manifests /\ work[p].idx \in Nat \ {0}
      /\ FetchOrder(m) \in Seq(Layers) /\ Layout[m].chunks \in Seq(Layers)
  <2>1. m \in Manifests
    BY DEF PhaseOK, PhaseOf
  <2>2. QED
    BY <2>1, WorkFields, OrderTypes, LayoutAssumption
<1>b. /\ layerObjs \subseteq layerObjs' /\ Present \subseteq Present'
      /\ layerRef' \subseteq layerRef \cup {l}
      /\ layerRef' # layerRef => l \in Present'
  BY StorePresent
<1>c. ImageCommits' = ImageCommits
  BY DEF ImageCommits
<1>1. CASE layerRef' = layerRef
  BY <1>b, <1>c, <1>1 DEF BasesWhole, BaseReadable, RefBases, Present
<1>2. CASE layerRef' # layerRef
  <2>1. work[p].idx \in 1..Len(FetchOrder(m)) /\ l = FetchOrder(m)[work[p].idx]
    BY <1>a DEF MoreLayers, NextLayer
  <2>2. l \in LayersOf(m)
    BY <1>a, <2>1 DEF LayersOf, Elems
  <2>3. ASSUME NEW n \in Manifests, Layout[n].base = l PROVE BaseLayers(n) \subseteq Present'
    <3>1. Layout[m].base = l /\ BaseLayers(m) = BaseLayers(n)
      BY <1>a, <2>2, <2>3, OneRole
    <3>2. ~(work[p].idx <= Len(Layout[m].chunks))
      <4>1. \A k \in DOMAIN Layout[m].chunks : Layout[m].chunks[k] # l
        BY <1>a, <2>3, RolesAssumption
      <4>2. work[p].idx <= Len(Layout[m].chunks) => l = Layout[m].chunks[work[p].idx]
        BY <1>a, <2>1, FetchPlaces
      <4>3. QED
        BY <1>a, <4>1, <4>2
    <3>3. ASSUME NEW k \in 1..Len(Layout[m].chunks) PROVE Layout[m].chunks[k] \in Present
      <4>1. k \in 1..Len(FetchOrder(m)) /\ k < work[p].idx /\ FetchOrder(m)[k] = Layout[m].chunks[k]
        BY <1>a, <3>2, <3>3, FetchPlaces
      <4>2. QED
        BY <4>1 DEF KeptAt
    <3>4. Elems(Layout[m].chunks) \subseteq Present
      BY <1>a, <3>3 DEF Elems
    <3>5. l \in Present' /\ Present \subseteq Present'
      BY <1>b, <1>2
    <3>6. QED
      <4> HIDE DEF l, m
      <4> QED BY <3>1, <3>4, <3>5 DEF BaseLayers
  <2>4. QED
    <3> HIDE DEF l
    <3> QED BY <1>b, <1>c, <2>3, BasesGrow
<1>3. QED
  BY <1>1, <1>2

(***************************************************************************)
(* The steps of prepare and of import.                                     *)
(***************************************************************************)
LEMMA ImportWhole ==
    ASSUME TypeOK, PhaseOK, Exclusive, ProgressOK, Whole, NEW p \in Procs, ImportStep(p)
    PROVE  Whole'
<1> DEFINE m == work[p].manifest
<1>a. Step(p) /\ RefsResolve' /\ work[p] \in WorkType /\ KeptAt(p)
  BY ImportResolves, WorkFields DEF Step, Whole, AllKept
<1>b. DeploymentsStored'
  BY DEF ImportStep, Prepare, CachePending, ReuseLayer, FetchLayer, FetchFails, LateCommit,
         MissingObjects, Merge, UnencapsulateDone, Requery, repoVars, Whole, DeploymentsStored,
         DeployedCommits
<1>c. ASSUME BasesWhole', KeptAt(p)' PROVE Whole'
  BY <1>a, <1>b, <1>c, KeptAlone DEF Whole
<1>1. CASE Prepare(p) \/ MissingObjects(p) \/ Requery(p)
  <2>1. pc'[p] \notin {"fetch", "late", "copy", "write"}
    BY <1>1, Locals DEF Prepare, MissingObjects, Requery, AfterPresent
  <2>2. UNCHANGED <<imageRef, layerRef, layerObjs, cut, branch>>
    BY <1>1 DEF Prepare, MissingObjects, Requery, repoVars
  <2>3. QED
    BY <1>c, <2>1, <2>2, NoneKept, BasesKept DEF Whole, ImageCommits
<1>2. CASE CachePending(p)
  <2>1. /\ work'[p] = [work[p] EXCEPT !.have = PresentLayers(m), !.prev = NoCommit]
        /\ pc'[p] \in {"failed", "done", "fetch"} /\ pc[p] = "cache"
        /\ UNCHANGED <<imageRef, layerRef, layerObjs, cut, branch>>
    BY <1>2, Locals DEF CachePending, At
  <2>2. work'[p].have = PresentLayers(m) /\ work'[p].idx = 1
    BY <1>a, <2>1 DEF WorkType, ProgressOK, ProgressAt
  <2>3. PresentLayers(m) \subseteq Present'
    BY <2>1 DEF PresentLayers, Present, Whole, RefsResolve
  <2>4. KeptAt(p)'
    BY <2>1, <2>2, <2>3 DEF KeptAt
  <2>5. QED
    BY <1>c, <2>1, <2>4, BasesKept DEF Whole, ImageCommits
<1>3. CASE ReuseLayer(p) \/ FetchLayer(p)
  <2> DEFINE l == NextLayer(p)
  <2>1. pc[p] = "fetch" /\ pc'[p] = "fetch" /\ MoreLayers(p) /\ UNCHANGED <<imageRef, branch>>
    BY <1>3 DEF ReuseLayer, FetchLayer, CanFetch, At, repoVars
  <2>2. /\ work'[p].have = work[p].have /\ work'[p].manifest = m
        /\ work'[p].idx = work[p].idx + 1
    BY <1>3, <1>a DEF ReuseLayer, FetchLayer, Remember, TypeOK, ProcTypeOK, WorkType
  <2>3. StoreWhole(p, l) \/ UNCHANGED <<layerRef, layerObjs, cut>>
    BY <1>3 DEF ReuseLayer, FetchLayer, repoVars
  <2>4. Present \subseteq Present' /\ l \in Present'
    <3>1. CASE ReuseLayer(p)
      BY <1>a, <2>1, <3>1 DEF ReuseLayer, KeptAt, Present, repoVars
    <3>2. CASE FetchLayer(p)
      BY <3>2, StorePresent DEF FetchLayer
    <3>3. QED
      BY <1>3, <3>1, <3>2
  <2>5. \A k \in 1..Len(FetchOrder(m)) : k < work[p].idx + 1 => FetchOrder(m)[k] \in Present'
    <3>1. work[p].idx \in Nat /\ l = FetchOrder(m)[work[p].idx] /\ m \in Manifests
      BY <2>1, WorkFields DEF NextLayer, PhaseOK, PhaseOf
    <3>2. Len(FetchOrder(m)) \in Nat
      BY <3>1, FetchPlaces
    <3>3. \A k \in 1..Len(FetchOrder(m)) : k < work[p].idx => FetchOrder(m)[k] \in Present
      BY <1>a, <2>1 DEF KeptAt
    <3>4. QED
      BY <2>4, <3>1, <3>2, <3>3
  <2>6. KeptAt(p)'
    BY <1>a, <2>1, <2>2, <2>4, <2>5 DEF KeptAt
  <2>7. BasesWhole'
    BY <1>a, <2>1, <2>3, StoreBases DEF Whole
  <2>8. QED
    BY <1>c, <2>6, <2>7
<1>4. CASE FetchFails(p)
  <2>1. pc[p] = "fetch" /\ pc'[p] = "late" /\ UNCHANGED <<repoVars, work>>
    BY <1>4, Locals DEF FetchFails, CanFetch, At
  <2>2. KeptAt(p)'
    BY <1>a, <2>1 DEF KeptAt, Present, repoVars
  <2>3. QED
    BY <1>c, <2>1, <2>2, BasesKept DEF Whole, ImageCommits, repoVars
<1>5. CASE LateCommit(p)
  <2>1. pc[p] = "late" /\ pc'[p] = "aborted" /\ MoreLayers(p) /\ UNCHANGED <<imageRef, branch>>
    BY <1>5, Locals DEF LateCommit, At
  <2>2. BasesWhole'
    BY <1>5, <1>a, <2>1, StoreBases DEF LateCommit, Whole
  <2>3. QED
    BY <1>c, <2>1, <2>2, NoneKept
<1>6. CASE Merge(p)
  <2> DEFINE c == [manifest |-> m, filtered |-> work[p].filtered]
  <2>1. \A x \in ImageCommits' : x \in ImageCommits \/ x = c
    BY <1>6 DEF Merge, WrittenRef, ImageCommits, TypeOK, RepoTypeOK
  <2>2. BaseReadable(c.manifest) /\ UNCHANGED <<layerRef, layerObjs, cut, branch>>
    BY <1>6 DEF Merge
  <2>3. BasesWhole'
    BY <2>1, <2>2 DEF Whole, BasesWhole, BaseReadable, RefBases
  <2>4. pc'[p] \in {"mark", "requery"}
    BY <1>6, Locals DEF Merge
  <2>5. QED
    BY <1>c, <2>3, <2>4, NoneKept
<1>7. CASE UnencapsulateDone(p)
  <2> DEFINE l == Layout[m].base
  <2>1. /\ pc[p] = "fetch" /\ ~MoreLayers(p) /\ pc'[p] = "done"
        /\ branch' \subseteq branch \cup {l}
        /\ UNCHANGED <<imageRef, layerRef, layerObjs, cut>>
    BY <1>7, Locals DEF UnencapsulateDone, At
  <2>2. m \in Manifests /\ work[p].idx \in Nat /\ FetchOrder(m) \in Seq(Layers)
    BY <2>1, WorkFields, OrderTypes DEF PhaseOK, PhaseOf
  <2>3. LayersOf(m) \subseteq Present
    BY <1>a, <2>1, <2>2 DEF KeptAt, MoreLayers, LayersOf, Elems
  <2>4. BaseLayers(m) \subseteq Present /\ l \in LayersOf(m)
    BY <2>2, <2>3, LayersSplit DEF BaseLayers
  <2>5. \A n \in Manifests : Layout[n].base = l => BaseLayers(n) \subseteq Present'
    BY <2>1, <2>2, <2>4, OneRole DEF Present
  <2>6. BasesWhole'
    <3>1. ImageCommits' = ImageCommits /\ Present' = Present /\ layerObjs' = layerObjs
      BY <2>1 DEF ImageCommits, Present
    <3>2. layerRef' \cup branch' \subseteq layerRef \cup branch \cup {l}
      BY <2>1
    <3>3. QED
      <4> HIDE DEF l
      <4> QED BY <2>5, <3>1, <3>2, BasesGrow DEF Whole
  <2>7. QED
    BY <1>c, <2>1, <2>6, NoneKept
<1>8. QED
  BY <1>1, <1>2, <1>3, <1>4, <1>5, <1>6, <1>7 DEF ImportStep

(***************************************************************************)
(* A copy pulls a base with all of its objects, and keeps them and the     *)
(* commit until they have refs.                                            *)
(***************************************************************************)
LEMMA CopyWhole ==
    ASSUME TypeOK, PhaseOK, Exclusive, ProgressOK, Whole, NEW p \in Procs, CopyStep(p)
    PROVE  Whole'
<1> DEFINE m == work[p].manifest
<1>a. Step(p) /\ KeptAt(p)
  BY DEF Step, Whole, AllKept
<1>b. pc[p] = "copy" /\ m \in Manifests /\ CopyOrder(m) \in Seq(Layers) /\ work[p] \in WorkType
      /\ work[p].idx \in Nat \ {0}
  BY OrderTypes, WorkFields DEF CopyStep, CopyLayer, CopyCommit, CopyRef, At, PhaseOK, PhaseOf
<1>c. DeploymentsStored'
  BY DEF CopyStep, CopyLayer, CopyCommit, CopyRef, Whole, DeploymentsStored, DeployedCommits
<1>1. CASE CopyLayer(p)
  <2> DEFINE l == CopyOrder(m)[work[p].idx]
  <2>1. /\ work[p].idx \in 1..Len(CopyOrder(m))
        /\ layerRef' = layerRef \cup {l}
        /\ layerObjs' = layerObjs \cup {l} \cup (IF work[p].idx = 1 THEN BaseLayers(m) ELSE {})
        /\ cut' = cut \ {l}
        /\ UNCHANGED <<imageRef, mergeObjs, branch, pc>>
        /\ work'[p] = [work[p] EXCEPT !.idx = @ + 1]
    BY <1>1, <1>b, Locals DEF CopyLayer
  <2>2. l \in LayersOf(m)
    BY <1>b, <2>1, SameLayers DEF Elems
  <2>3. BaseLayers(m) \subseteq layerObjs'
    BY <1>a, <1>b, <2>1 DEF KeptAt
  <2>4. layerObjs \subseteq layerObjs' /\ Present \subseteq Present'
    <3> HIDE DEF l
    <3> QED BY <2>1 DEF Present
  <2>5. BasesWhole'
    <3>1. \A n \in Manifests : Layout[n].base = l => BaseLayers(n) \subseteq Present'
      BY <1>b, <2>2, <2>3, OneRole DEF Present
    <3>2. ImageCommits' = ImageCommits /\ layerRef' \cup branch' \subseteq layerRef \cup branch \cup {l}
      BY <2>1 DEF ImageCommits
    <3>3. QED
      <4> HIDE DEF l
      <4> QED BY <2>4, <3>1, <3>2, BasesGrow DEF Whole
  <2>6. RefsResolve'
    <3> HIDE DEF l
    <3> QED BY <2>1 DEF Whole, RefsResolve, ImageCommits
  <2>7. KeptAt(p)'
    <3>1. work'[p].merged = work[p].merged /\ work'[p].manifest = m
      BY <1>b, <2>1 DEF WorkType
    <3>2. QED
      BY <1>a, <1>b, <2>1, <2>3, <3>1 DEF KeptAt
  <2>8. QED
    BY <1>a, <1>c, <2>5, <2>6, <2>7, KeptAlone DEF Whole
<1>2. CASE CopyCommit(p)
  <2> DEFINE c == [manifest |-> m, filtered |-> Filtered \cap Elems(Layout[m].derived)]
  <2>1. /\ mergeObjs' = mergeObjs \cup {c}
        /\ UNCHANGED <<imageRef, layerRef, layerObjs, cut, branch, pc>>
        /\ work'[p] = [work[p] EXCEPT !.merged = c]
    BY <1>2, Locals DEF CopyCommit
  <2>2. work'[p].merged = c /\ work'[p].manifest = m /\ work'[p].idx = work[p].idx
    BY <1>b, <2>1 DEF WorkType
  <2>3. RefsResolve' /\ BasesWhole'
    BY <2>1, BasesKept DEF Whole, RefsResolve, ImageCommits
  <2>4. KeptAt(p)'
    <3> HIDE DEF c
    <3> QED BY <1>a, <1>b, <2>1, <2>2 DEF KeptAt
  <2>5. QED
    BY <1>a, <1>c, <2>3, <2>4, KeptAlone DEF Whole
<1>3. CASE CopyRef(p)
  <2> DEFINE c == work[p].merged
  <2>1. c # NoCommit /\ pc'[p] = "done" /\ UNCHANGED <<layerRef, layerObjs, cut, mergeObjs, branch>>
    BY <1>3, Locals DEF CopyRef
  <2>2. c \in mergeObjs /\ c.manifest = m /\ work[p].idx > Len(CopyOrder(m))
    BY <1>a, <1>b, <2>1 DEF KeptAt, ProgressOK, ProgressAt
  <2>3. BaseReadable(c.manifest)
    <3>1. Len(CopyOrder(m)) >= 1
      <4> DEFINE b == Layout[m].base
                 cd == Layout[m].chunks \o Layout[m].derived
      <4>1. b \in Layers /\ cd \in Seq(Layers)
        BY <1>b, LayoutAssumption
      <4>2. CopyOrder(m) = <<b>> \o cd
        BY DEF CopyOrder
      <4> HIDE DEF b, cd
      <4>3. Len(<<b>> \o cd) = 1 + Len(cd) /\ Len(cd) \in Nat
        BY <4>1
      <4>4. QED
        BY <4>2, <4>3
    <3>2. work[p].idx > 1
      BY <1>b, <2>2, <3>1
    <3>3. QED
      BY <1>a, <1>b, <2>2, <3>2 DEF KeptAt, BaseReadable
  <2>4. \A x \in ImageCommits' : x \in ImageCommits \/ x = c
    BY <1>3 DEF CopyRef, ImageCommits, TypeOK, RepoTypeOK
  <2>5. RefsResolve'
    BY <2>1, <2>2, <2>4 DEF Whole, RefsResolve
  <2>6. BasesWhole'
    BY <2>1, <2>3, <2>4 DEF Whole, BasesWhole, BaseReadable, RefBases
  <2>7. QED
    BY <1>a, <1>c, <2>1, <2>5, <2>6, NoneKept, KeptAlone DEF Whole
<1>4. QED
  BY <1>1, <1>2, <1>3 DEF CopyStep

(***************************************************************************)
(* Collections and removals delete refs, and objects that no ref reaches.  *)
(***************************************************************************)
LEMMA CleanupWhole ==
    ASSUME TypeOK, Exclusive, ImagesComplete, Whole, NEW p \in Procs, GcStep(p) \/ RemoveStep(p)
    PROVE  Whole'
<1>1. pc'[p] \notin {"fetch", "late", "copy", "write"}
  <2>1. CASE GcStep(p)
    BY <2>1, Locals DEF GcStep, GcList, GcDeployments, GcResolve, GcFails, GcScan, GcSweep, GcDone,
                        AfterGc, At
  <2>2. CASE RemoveStep(p)
    BY <2>2, Locals DEF RemoveStep, TryLock, ListUndeployed, RemoveImage, RemoveDone, Prune,
                        PruneFails, AfterRemove, At
  <2>3. QED
    BY <2>1, <2>2
<1>2. AllKept'
  BY <1>1, NoneKept, KeptAlone DEF Step
<1>3. RefsResolve'
  BY CleanupResolves DEF Whole
<1>4. CASE Prune(p)
  <2>1. /\ PruneObjects(RefCommits)
        /\ UNCHANGED <<imageRef, layerRef, branch, cut, deployed>>
    BY <1>4 DEF Prune
  <2>2. BasesWhole'
    BY <2>1, PruneBases DEF Whole
  <2>3. DeploymentsStored'
    BY <2>1 DEF PruneObjects, Whole, DeploymentsStored, DeployedCommits, RefCommits
  <2>4. QED
    BY <1>2, <1>3, <2>2, <2>3 DEF Whole
<1>5. CASE ~Prune(p)
  <2>1. /\ layerRef' \subseteq layerRef
        /\ UNCHANGED <<layerObjs, cut, mergeObjs, deployed, branch>>
    BY <1>5 DEF GcStep, GcList, GcDeployments, GcResolve, GcFails, GcScan, GcSweep, GcDone,
                RemoveStep, TryLock, ListUndeployed, RemoveImage, RemoveDone, PruneFails, repoVars
  <2>2. ImageCommits' \subseteq ImageCommits
    <3>1. CASE \E i \in Images : RemoveImage(p, i)
      BY <3>1 DEF RemoveImage, ImageCommits, TypeOK, RepoTypeOK
    <3>2. CASE ~\E i \in Images : RemoveImage(p, i)
      BY <1>5, <3>2 DEF GcStep, GcList, GcDeployments, GcResolve, GcFails, GcScan, GcSweep, GcDone,
                RemoveStep, TryLock, ListUndeployed, RemoveDone, PruneFails, repoVars, ImageCommits
    <3>3. QED
      BY <3>1, <3>2
  <2>3. BasesWhole'
    BY <2>1, <2>2, BasesKept DEF Whole
  <2>4. QED
    BY <1>2, <1>3, <2>1, <2>3 DEF Whole, DeploymentsStored, DeployedCommits
<1>6. QED
  BY <1>4, <1>5

(***************************************************************************)
(* A deployment names the commit that was checked out, and deployments     *)
(* that were there when the sysroot was loaded.                            *)
(***************************************************************************)
LEMMA DeployWhole ==
    ASSUME TypeOK, Exclusive, ImagesComplete, LoadedFresh, Whole, NEW p \in Procs, DeployStep(p)
    PROVE  Whole'
<1>a. Step(p) /\ RefsResolve' /\ KeptAt(p)
  BY DeployResolves DEF Step, Whole, AllKept
<1>1. CASE Cleanup(p)
  <2>1. /\ PruneObjects(RefCommits) /\ pc'[p] = "warn"
        /\ UNCHANGED <<imageRef, layerRef, branch, cut, deployed>>
    BY <1>1, Locals DEF Cleanup
  <2>2. BasesWhole'
    BY <2>1, PruneBases DEF Whole
  <2>3. DeploymentsStored'
    BY <2>1 DEF PruneObjects, Whole, DeploymentsStored, DeployedCommits, RefCommits
  <2>4. QED
    BY <1>a, <2>1, <2>2, <2>3, NoneKept, KeptAlone DEF Whole
<1>2. CASE WriteDeployment(p) \/ StageDeploy(p)
  <2>1. /\ pc[p] \in {"deploy", "write"} /\ deployed' = NewDeployments(p)
        /\ pc'[p] \in {"warn", "cleanup"}
        /\ UNCHANGED <<imageRef, layerRef, layerObjs, cut, mergeObjs, branch>>
    BY <1>2, Locals DEF WriteDeployment, StageDeploy, At
  <2>2. work[p].merged \in mergeObjs
    BY <1>2, <1>a DEF WriteDeployment, StageDeploy, At, KeptAt
  <2>3. loaded[p] \in {deployed, <<>>}
    BY <2>1 DEF LoadedFresh, Running, Ended
  <2>4. DeploymentsStored'
    BY <2>1, <2>2, <2>3, DeploymentCommits DEF Whole, DeploymentsStored
  <2>5. BasesWhole'
    BY <2>1, BasesKept DEF Whole, ImageCommits
  <2>6. QED
    BY <1>a, <2>1, <2>4, <2>5, NoneKept, KeptAlone DEF Whole
<1>3. CASE DeployTree(p) \/ DeployFails(p) \/ FilteredWarning(p)
  <2>1. UNCHANGED <<repoVars, work>>
    BY <1>3 DEF DeployTree, DeployFails, FilteredWarning
  <2>2. KeptAt(p)'
    <3>1. CASE DeployTree(p)
      BY <3>1, <2>1, Locals DEF DeployTree, KeptAt, repoVars
    <3>2. CASE DeployFails(p) \/ FilteredWarning(p)
      BY <3>2, Locals, NoneKept DEF DeployFails, FilteredWarning
    <3>3. QED
      BY <1>3, <3>1, <3>2
  <2>3. BasesWhole' /\ DeploymentsStored'
    BY <2>1, BasesKept DEF Whole, ImageCommits, DeploymentsStored, DeployedCommits, repoVars
  <2>4. QED
    BY <1>a, <2>2, <2>3, KeptAlone DEF Whole
<1>4. QED
  BY <1>1, <1>2, <1>3 DEF DeployStep

(***************************************************************************)
(* Starting, ending and interrupting an operation, and the world outside.  *)
(***************************************************************************)
LEMMA OutsideWhole ==
    ASSUME Serial, TypeOK, Exclusive, Whole,
           \/ \E p \in Procs : (\E r \in Requests : Begin(p, r)) \/ Abort(p) \/ Reap(p)
           \/ \E i \in Images, m \in Manifests : Push(i, m)
           \/ \E k \in 1..2 : Undeploy(k)
    PROVE  Whole'
<1>1. ImageCommits' = ImageCommits /\ UNCHANGED <<layerRef, layerObjs, cut, mergeObjs, branch>>
  BY DEF Begin, Abort, Reap, Push, Undeploy, repoVars, ImageCommits
<1>2. DeployedCommits' \subseteq DeployedCommits
  BY DeploymentCommits DEF Begin, Abort, Reap, Push, repoVars, DeployedCommits
<1>3. AllKept'
  <2>1. ASSUME NEW p \in Procs, NEW r \in Requests, Begin(p, r) PROVE AllKept'
    <3>1. work'[p].merged = NoCommit /\ work'[p].idx = 1
      BY <2>1 DEF Begin, Remember, NoWork, TypeOK, ProcTypeOK
    <3>2. pc'[p] \notin {"fetch", "late", "write"}
      BY <2>1, Locals, RequestTypes DEF Begin, FirstLabel, Ops, LockedOps
    <3>3. KeptAt(p)'
      BY <3>1, <3>2 DEF KeptAt
    <3>4. \A q \in Procs \ {p} : KeptAt(q)'
      BY <2>1, AloneOutside, NoneKept
    <3>5. QED
      BY <3>3, <3>4 DEF AllKept
  <2>2. ASSUME NEW p \in Procs, Abort(p) \/ Reap(p) PROVE AllKept'
    BY <2>2, AloneOutside, NoneKept DEF AllKept
  <2>3. CASE (\E i \in Images, m \in Manifests : Push(i, m)) \/ (\E k \in 1..2 : Undeploy(k))
    BY <2>3 DEF Push, Undeploy, Whole, AllKept, KeptAt, Present, repoVars
  <2>4. QED
    BY <2>1, <2>2, <2>3
<1>4. QED
  BY <1>1, <1>2, <1>3, BasesKept DEF Whole, RefsResolve, DeploymentsStored

(***************************************************************************)
(* Callers that run one operation at a time always find the base of every  *)
(* image whole, the commit of every deployment stored, and no ref that     *)
(* dangles, also where images are copied, and whatever cut layers failed   *)
(* fetches have left.                                                      *)
(***************************************************************************)
THEOREM SerialWhole ==
    ASSUME Serial
    PROVE  Spec => [](RefsResolve /\ BasesWhole /\ DeploymentsStored /\ AllKept)
<1> DEFINE Turns == TypeInv /\ ImagesComplete /\ ProgressOK /\ Exclusive /\ LoadedFresh
<1>1. Init => Whole
  BY DEF Init, Whole, RefsResolve, BasesWhole, DeploymentsStored, AllKept, KeptAt, ImageCommits,
         DeployedCommits, RefBases
<1>2. Turns /\ Whole /\ [Next]_vars => Whole'
  <2> SUFFICES ASSUME TypeOK, PhaseOK, Turns, Whole, [Next]_vars PROVE Whole'
    BY DEF TypeInv
  <2>1. CASE UNCHANGED vars
    BY <2>1 DEF vars, Whole, RefsResolve, BasesWhole, BaseReadable, DeploymentsStored, AllKept,
                KeptAt, ImageCommits, DeployedCommits, RefBases, Present
  <2>2. ASSUME NEW p \in Procs, Step(p) PROVE Whole'
    BY <2>2, ImportWhole, CopyWhole, CleanupWhole, DeployWhole DEF Step
  <2>3. CASE Next
    BY <2>2, <2>3, OutsideWhole DEF Next
  <2>4. QED
    BY <2>1, <2>3
<1>3. Spec => []Turns
  BY TypeCorrect, SerialComplete, PTL
<1>4. Spec => []Whole
  BY <1>1, <1>2, <1>3, PTL DEF Spec
<1>5. QED
  BY <1>4, PTL DEF Whole

-----------------------------------------------------------------------------
(***************************************************************************)
(* What each process knows, on top of what holds of the repository.        *)
(***************************************************************************)
Knows(p) == WrittenAt(p) /\ CollectAt(p) /\ RemovalAt(p)
Known == TypeInv /\ ImagesComplete /\ ProgressOK /\ Exclusive /\ Whole

(***************************************************************************)
(* Who is idle or interrupted has nothing to know.                         *)
(***************************************************************************)
LEMMA IdleKnows ==
    ASSUME NEW p \in Procs, pc'[p] \in {"idle", "aborted"}
    PROVE  Knows(p)'
BY DEF Knows, WrittenAt, AfterMerge, CollectAt, RemovalAt, At

(***************************************************************************)
(* Preparing remembers the stored image if it is the same.                 *)
(***************************************************************************)
LEMMA PrepareSets ==
    ASSUME TypeOK, NEW p \in Procs, Prepare(p)
    PROVE  \/ /\ pc'[p] = AfterPresent(req[p].op) /\ work'[p].manifest = work[p].manifest
              /\ work'[p].merged = TryQueryImage(req[p].img) /\ TryQueryImage(req[p].img) # NoCommit
           \/ pc'[p] = "cache"
<1> DEFINE prev == TryQueryImage(req[p].img)
           m == tag[req[p].img]
<1>a. work[p] \in WorkType
  BY WorkFields
<1>1. CASE AlreadyPresent(prev, m)
  <2>1. pc'[p] = AfterPresent(req[p].op) /\ work'[p] = [work[p] EXCEPT !.merged = prev]
    BY <1>1, Locals DEF Prepare
  <2>2. work'[p].manifest = work[p].manifest /\ work'[p].merged = prev
    BY <1>a, <2>1 DEF WorkType
  <2>3. QED
    BY <1>1, <2>1, <2>2 DEF AlreadyPresent
<1>2. CASE ~AlreadyPresent(prev, m)
  BY <1>2, Locals DEF Prepare
<1>3. QED
  BY <1>1, <1>2

(***************************************************************************)
(* Where the steps of an operation lead.                                   *)
(***************************************************************************)
LEMMA StepGoes ==
    ASSUME TypeOK, NEW p \in Procs, Step(p)
    PROVE  /\ pc'[p] \notin {"idle", "prepare", "lock"}
           /\ pc'[p] = "manifests" => GcList(p)
           /\ pc'[p] = "resolve" => GcDeployments(p) \/ \E i \in Images : GcResolve(p, i)
           /\ pc'[p] = "sweep" => GcScan(p) \/ \E l \in Layers : GcSweep(p, l)
           /\ pc'[p] = "prune" => GcDone(p)
           /\ pc'[p] = "requery" => GcDone(p) \/ Merge(p)
           /\ pc'[p] = "deploy" => Prepare(p) \/ Requery(p)
           /\ pc'[p] = "write" => DeployTree(p)
           /\ pc'[p] = "cleanup" => WriteDeployment(p)
           /\ pc'[p] = "warn" => Requery(p) \/ WriteDeployment(p) \/ Cleanup(p) \/ StageDeploy(p)
           /\ pc'[p] = "list" => TryLock(p)
           /\ pc'[p] = "remove" => ListUndeployed(p) \/ \E i \in Images : RemoveImage(p, i)
           /\ pc'[p] = "failed" => \/ Prepare(p) \/ CachePending(p) \/ MissingObjects(p)
                                   \/ Requery(p) \/ GcFails(p) \/ PruneFails(p)
                                   \/ DeployFails(p) \/ FilteredWarning(p) \/ RemoveDone(p)
<1>1. CASE ImportStep(p)
  BY <1>1, Locals DEF ImportStep, Prepare, CachePending, ReuseLayer, FetchLayer, FetchFails,
                      CanFetch, LateCommit, MissingObjects, Merge, UnencapsulateDone, Requery,
                      AfterPresent, At
<1>2. CASE GcStep(p)
  BY <1>2, Locals DEF GcStep, GcList, GcDeployments, GcResolve, GcFails, GcScan, GcDone, GcSweep,
                      AfterGc, At
<1>3. CASE DeployStep(p)
  BY <1>3, Locals DEF DeployStep, DeployTree, WriteDeployment, Cleanup, StageDeploy, DeployFails,
                      FilteredWarning
<1>4. CASE RemoveStep(p)
  BY <1>4, Locals DEF RemoveStep, TryLock, ListUndeployed, RemoveImage, RemoveDone, Prune,
                      PruneFails, AfterRemove, At
<1>5. CASE CopyStep(p)
  BY <1>5, Locals DEF CopyStep, CopyLayer, CopyCommit, CopyRef, At
<1>6. QED
  BY <1>1, <1>2, <1>3, <1>4, <1>5 DEF Step

(***************************************************************************)
(* An import writes its target and leaves it alone until it ends.          *)
(***************************************************************************)
LEMMA WrittenStep ==
    ASSUME TypeOK, PhaseOK, Exclusive, NEW p \in Procs, Step(p), CollectAt(p), WrittenAt(p)
    PROVE  WrittenAt(p)'
<1>a. /\ req' = req /\ work[p] \in WorkType /\ req[p] \in Requests
      /\ PhaseOf(pc[p], req[p], work[p]) /\ pc'[p] # "prepare"
  BY Alone, WorkFields, StepGoes DEF PhaseOK
<1>b. /\ req[p].target \in Images /\ req[p].img \in Images
      /\ req[p].op # "deploy" => req[p].target = req[p].img
  BY <1>a, RequestTypes, TargetAssumption
<1>1. CASE Prepare(p)
  <2>1. work[p].manifest = NoManifest /\ imageRef' = imageRef
    BY <1>1 DEF Prepare, WrittenAt, repoVars
  <2>2. CASE pc'[p] = "cache"
    BY <2>2 DEF WrittenAt, AfterMerge, At
  <2>3. CASE pc'[p] # "cache"
    <3>1. /\ work'[p].manifest = NoManifest
          /\ work'[p].merged = imageRef[req[p].img] /\ imageRef[req[p].img] # NoCommit
      BY <1>1, <2>1, <2>3, PrepareSets DEF TryQueryImage
    <3>2. imageRef[req[p].img] \in Commits
      BY <1>b, <3>1 DEF TypeOK, RepoTypeOK
    <3>3. QED
      BY <1>a, <1>b, <2>1, <3>1, <3>2 DEF WrittenAt, TargetSkipped
  <2>4. QED
    BY <2>2, <2>3
<1>2. CASE Merge(p)
  <2> DEFINE c == [manifest |-> work[p].manifest, filtered |-> work[p].filtered]
  <2>1. c \in Commits /\ c.manifest = work[p].manifest
    BY <1>2, <1>a, WorkFields DEF Merge, At, PhaseOf, Commits
  <2>2. work'[p] = [NoWork EXCEPT !.manifest = work[p].manifest, !.merged = c]
    BY <1>2, Locals DEF Merge
  <2>3. work'[p].manifest = work[p].manifest /\ work'[p].merged = c
    BY <2>2 DEF NoWork
  <2>4. ~req[p].noref => imageRef'[req[p].target] = c
    BY <1>2, <1>b DEF Merge, WrittenRef, TypeOK, RepoTypeOK
  <2>5. QED
    <3> HIDE DEF c
    <3> QED BY <1>a, <2>1, <2>3, <2>4 DEF WrittenAt, At
<1>3. CASE GcStep(p) \/ Requery(p) \/ DeployStep(p)
  <2>1. pc[p] \in AfterMerge /\ imageRef' = imageRef
    BY <1>3 DEF GcStep, GcList, GcDeployments, GcResolve, GcFails, GcScan, GcSweep, GcDone, Requery,
                DeployStep, DeployTree, WriteDeployment, Cleanup, StageDeploy, DeployFails,
                FilteredWarning, At, repoVars, AfterMerge
  <2>2. work'[p].merged = work[p].merged /\ work'[p].manifest = work[p].manifest
    <3>1. CASE GcList(p) \/ GcDeployments(p)
      BY <1>a, <3>1 DEF GcList, GcDeployments, Remember, TypeOK, ProcTypeOK, WorkType
    <3>2. CASE GcScan(p)
      BY <1>a, <3>2 DEF GcScan, Remember, TypeOK, ProcTypeOK, WorkType
    <3>3. ASSUME NEW l \in Layers, GcSweep(p, l)
          PROVE  work'[p].merged = work[p].merged /\ work'[p].manifest = work[p].manifest
      BY <1>a, <3>3 DEF GcSweep, Remember, TypeOK, ProcTypeOK, WorkType
    <3>4. CASE GcDone(p) \/ GcFails(p) \/ Requery(p) \/ DeployStep(p)
      BY <3>4 DEF GcDone, GcFails, Requery, DeployStep, DeployTree, WriteDeployment, Cleanup,
                  StageDeploy, DeployFails, FilteredWarning
    <3>5. ASSUME NEW i \in Images, GcResolve(p, i)
          PROVE  work'[p].merged = work[p].merged /\ work'[p].manifest = work[p].manifest
      BY <1>a, <3>5 DEF GcResolve, Remember, TypeOK, ProcTypeOK, WorkType
    <3>6. QED
      BY <1>3, <3>1, <3>2, <3>3, <3>4, <3>5 DEF GcStep
  <2>3. QED
    BY <1>a, <2>1, <2>2 DEF WrittenAt, TargetSkipped, At
<1>4. CASE CachePending(p) \/ ReuseLayer(p) \/ FetchLayer(p) \/ FetchFails(p) \/ LateCommit(p)
           \/ MissingObjects(p) \/ UnencapsulateDone(p)
  <2>1. pc'[p] \in AfterMerge => ~Imports(req[p])
    BY <1>4, Locals DEF CachePending, ReuseLayer, FetchLayer, FetchFails, LateCommit, CanFetch,
                        MissingObjects, UnencapsulateDone, WritesRef, At, AfterMerge, Imports
  <2>2. QED
    BY <1>a, <2>1 DEF WrittenAt, At
<1>5. CASE (RemoveStep(p) /\ ~PruneFails(p)) \/ CopyStep(p)
  <2>1. pc[p] \in {"lock", "list", "remove", "prune", "copy"}
    BY <1>5 DEF RemoveStep, TryLock, ListUndeployed, RemoveImage, RemoveDone, Prune, CopyStep,
                CopyLayer, CopyCommit, CopyRef, At
  <2>2. ~Imports(req[p])
    BY <1>a, <2>1 DEF PhaseOf, CollectAt, Imports, At
  <2>3. QED
    BY <1>a, <2>2 DEF WrittenAt, At
<1>6. CASE PruneFails(p)
  <2>1. pc'[p] = "failed"
    BY <1>6, Locals DEF PruneFails
  <2>2. QED
    BY <2>1 DEF WrittenAt, AfterMerge, At
<1>7. QED
  BY <1>1, <1>2, <1>3, <1>4, <1>5, <1>6 DEF Step, ImportStep

(***************************************************************************)
(* What only referenced layers and branches reach is referenced or on a    *)
(* branch.                                                                 *)
(***************************************************************************)
LEMMA ReachReferenced ==
    ASSUME TypeOK, layerRef \subseteq ReferencedLayers
    PROVE  ReachableLayers \subseteq ReferencedLayers \cup BranchLayers
<1>1. ASSUME NEW n \in Manifests, Layout[n].base \in layerRef
      PROVE  BaseLayers(n) \subseteq ReferencedLayers
  <2>1. PICK c \in RefCommits : Layout[n].base \in LayersOf(c.manifest)
    BY <1>1 DEF ReferencedLayers
  <2>2. c.manifest \in Manifests
    BY ReferencedTypes DEF Commits
  <2>3. BaseLayers(n) \subseteq LayersOf(c.manifest)
    BY <1>1, <2>1, <2>2, OneRole, LayersSplit
  <2>4. QED
    BY <2>3 DEF ReferencedLayers
<1>2. ASSUME NEW n \in Manifests, Layout[n].base \in branch
      PROVE  BaseLayers(n) \subseteq BranchLayers
  BY <1>2 DEF BranchLayers
<1>3. QED
  BY <1>1, <1>2 DEF ReachableLayers, RefBases

(***************************************************************************)
(* A collection sweeps every layer that it did not mark.                   *)
(***************************************************************************)
LEMMA CollectStep ==
    ASSUME TypeOK, PhaseOK, Exclusive, RefsResolve, DeploymentsStored,
           NEW p \in Procs, Step(p), CollectAt(p)
    PROVE  CollectAt(p)'
<1>a. req' = req /\ work[p] \in WorkType /\ req[p] \in Requests /\ PhaseOf(pc[p], req[p], work[p])
  BY Alone, WorkFields DEF PhaseOK
<1>1. CASE GcStep(p)
  <2>1. ReferencedLayers' = ReferencedLayers /\ imageRef' = imageRef
    BY <1>1 DEF GcStep, GcList, GcDeployments, GcResolve, GcFails, GcScan, GcSweep, GcDone,
                repoVars, ReferencedLayers, RefCommits, ImageCommits, DeployedCommits
  <2>2. CASE GcList(p)
    <3>1. /\ pc'[p] = "manifests"
          /\ work'[p] = [work[p] EXCEPT !.todo = {i \in Images : imageRef[i] # NoCommit}]
      BY <2>2, Locals DEF GcList
    <3>2. work'[p].todo = {i \in Images : imageRef[i] # NoCommit}
      BY <1>a, <3>1 DEF WorkType
    <3>3. QED
      BY <2>1, <3>1, <3>2 DEF CollectAt, At
  <2>3. CASE GcDeployments(p)
    <3>1. /\ pc[p] = "manifests" /\ pc'[p] = "resolve"
          /\ work'[p] = [work[p] EXCEPT !.marked = DeployedLayers]
      BY <2>3, Locals DEF GcDeployments, At
    <3>2. work'[p].marked = DeployedLayers /\ work'[p].todo = work[p].todo
      BY <1>a, <3>1 DEF WorkType
    <3>3. DeployedLayers \subseteq ReferencedLayers
      BY DEF DeployedLayers, ReferencedLayers, RefCommits
    <3>4. QED
      BY <2>1, <3>1, <3>2, <3>3 DEF CollectAt, At
  <2>4. ASSUME NEW i \in Images, GcResolve(p, i) PROVE CollectAt(p)'
    <3>1. /\ pc[p] = "resolve" /\ pc'[p] = "resolve" /\ i \in work[p].todo
          /\ work'[p] = [work[p] EXCEPT !.todo = @ \ {i},
                                        !.marked = @ \cup LayersOf(imageRef[i].manifest)]
      BY <2>4, Locals DEF GcResolve, At
    <3>2. /\ work'[p].marked = work[p].marked \cup LayersOf(imageRef[i].manifest)
          /\ work'[p].todo = work[p].todo \ {i}
      BY <1>a, <3>1 DEF WorkType
    <3>3. LayersOf(imageRef[i].manifest) \subseteq ReferencedLayers
      BY <3>1 DEF CollectAt, At, ReferencedLayers, RefCommits, ImageCommits
    <3>4. QED
      BY <2>1, <3>1, <3>2, <3>3 DEF CollectAt, At
  <2>5. CASE GcScan(p)
    <3>1. /\ pc'[p] = "sweep" /\ layerRef' = layerRef
          /\ work'[p] = [work[p] EXCEPT !.found = layerRef \ work[p].marked, !.marked = {}]
      BY <2>5, Locals DEF GcScan, repoVars
    <3>2. work'[p].found = layerRef \ work[p].marked
      BY <1>a, <3>1 DEF WorkType
    <3>3. work[p].marked \subseteq ReferencedLayers
      BY <2>5 DEF GcScan, CollectAt
    <3>4. QED
      BY <2>1, <3>1, <3>2, <3>3 DEF CollectAt, At
  <2>6. ASSUME NEW l \in Layers, GcSweep(p, l) PROVE CollectAt(p)'
    <3>1. /\ pc[p] = "sweep" /\ pc'[p] = "sweep" /\ layerRef' = layerRef \ {l}
          /\ work'[p] = [work[p] EXCEPT !.found = @ \ {l}]
      BY <2>6, Locals DEF GcSweep, At
    <3>2. work'[p].found = work[p].found \ {l}
      BY <1>a, <3>1 DEF WorkType
    <3>3. layerRef \subseteq ReferencedLayers \cup work[p].found
      BY <3>1 DEF CollectAt, At
    <3>4. QED
      BY <2>1, <3>1, <3>2, <3>3 DEF CollectAt, At
  <2>7. CASE GcDone(p)
    <3>1. layerRef \subseteq ReferencedLayers /\ layerRef' = layerRef /\ pc'[p] = AfterGc(req[p].op)
      BY <2>7, Locals DEF GcDone, CollectAt, repoVars
    <3>2. pc'[p] \in {"requery", "prune", "done"} /\ (pc'[p] = "prune" <=> req[p].op = "prune_full")
      BY <3>1 DEF AfterGc
    <3>3. QED
      BY <1>a, <2>1, <3>1, <3>2 DEF CollectAt, At
  <2>8. CASE GcFails(p)
    <3>1. pc'[p] = "failed"
      BY <2>8, Locals DEF GcFails
    <3>2. QED
      BY <3>1 DEF CollectAt, At
  <2>9. QED
    BY <1>1, <2>2, <2>3, <2>4, <2>5, <2>6, <2>7, <2>8 DEF GcStep
<1>2. CASE Prune(p)
  <2>1. /\ layerObjs' = layerObjs \cap ReachableLayers /\ mergeObjs' = mergeObjs \cap RefCommits
        /\ UNCHANGED <<imageRef, deployed, branch>> /\ pc'[p] = "done"
        /\ layerRef \subseteq ReferencedLayers
    BY <1>2, Locals DEF Prune, PruneObjects, CollectAt
  <2>2. /\ RefCommits' = RefCommits /\ ReferencedLayers' = ReferencedLayers
        /\ BranchLayers' = BranchLayers
    BY <2>1 DEF ReferencedLayers, RefCommits, ImageCommits, DeployedCommits, BranchLayers
  <2>3. layerObjs' \subseteq ReferencedLayers \cup BranchLayers /\ mergeObjs' = RefCommits
    BY <2>1, ReachReferenced DEF RefsResolve, DeploymentsStored, RefCommits
  <2>4. QED
    BY <2>1, <2>2, <2>3 DEF CollectAt, At
<1>3. CASE ~GcStep(p) /\ ~Prune(p)
  <2>1. pc'[p] \notin {"manifests", "resolve", "sweep", "prune"}
    BY <1>3, StepGoes DEF GcStep
  <2>2. pc'[p] = "requery" => ~req[p].gc
    BY <1>3, Locals, StepGoes DEF GcStep, Merge
  <2>3. pc'[p] \in {"deploy", "write", "cleanup"} => req[p].op = "deploy"
    <3>1. CASE pc'[p] = "deploy"
      BY <3>1, Locals, StepGoes, PrepareSets DEF Requery, AfterPresent
    <3>2. CASE pc'[p] \in {"write", "cleanup"}
      BY <3>2, StepGoes DEF DeployTree, WriteDeployment, CollectAt
    <3>3. QED
      BY <3>1, <3>2
  <2>4. pc'[p] = "warn" => Imports(req[p])
    BY <1>a, StepGoes DEF Requery, WriteDeployment, Cleanup, StageDeploy, At, PhaseOf, CollectAt, Imports
  <2>5. pc'[p] = "done" => req[p].op # "prune_full"
    <3>1. CASE RemoveStep(p)
      BY <1>3, <3>1, Locals DEF RemoveStep, TryLock, ListUndeployed, RemoveImage, RemoveDone,
                                PruneFails, AfterRemove, At
    <3>2. CASE DeployStep(p)
      BY <3>2, Locals DEF DeployStep, DeployTree, WriteDeployment, Cleanup, StageDeploy,
                          DeployFails, FilteredWarning, CollectAt, Imports
    <3>3. CASE CopyStep(p)
      <4>1. pc[p] = "copy"
        BY <3>3 DEF CopyStep, CopyLayer, CopyCommit, CopyRef, At
      <4>2. QED
        BY <1>a, <4>1 DEF PhaseOf
    <3>4. CASE ImportStep(p)
      <4>1. pc[p] \in {"prepare", "cache", "fetch", "late", "requery"}
        BY <3>4 DEF ImportStep, Prepare, CachePending, ReuseLayer, FetchLayer, FetchFails, CanFetch,
                    LateCommit, MissingObjects, Merge, UnencapsulateDone, Requery, At
      <4>2. QED
        BY <1>a, <4>1 DEF PhaseOf, Imports
    <3>5. QED
      BY <1>3, <3>1, <3>2, <3>3, <3>4 DEF Step
  <2>6. QED
    BY <1>a, <2>1, <2>2, <2>3, <2>4, <2>5 DEF CollectAt, At
<1>4. QED
  BY <1>1, <1>2, <1>3

(***************************************************************************)
(* Pruning removes the images that it listed, and reports none of them.    *)
(***************************************************************************)
LEMMA RemovalStep ==
    ASSUME TypeOK, Exclusive, NEW p \in Procs, Step(p), RemovalAt(p)
    PROVE  RemovalAt(p)'
<1>a. req' = req /\ work[p] \in WorkType
  BY Alone, WorkFields
<1>1. CASE TryLock(p)
  <2>1. pc[p] = "lock" /\ pc'[p] = "list" /\ work' = work
    BY <1>1, Locals DEF TryLock, At
  <2>2. QED
    BY <1>a, <2>1 DEF RemovalAt, At
<1>2. CASE ListUndeployed(p)
  <2>1. /\ pc[p] = "list" /\ pc'[p] = "remove"
        /\ work'[p] = [work[p] EXCEPT !.todo = UndeployedImages(p)]
    BY <1>2, Locals DEF ListUndeployed, At
  <2>2. work'[p].missing = work[p].missing
    BY <1>a, <2>1 DEF WorkType
  <2>3. QED
    BY <1>a, <2>1, <2>2 DEF RemovalAt, At
<1>3. ASSUME NEW i \in Images, RemoveImage(p, i) PROVE RemovalAt(p)'
  <2> DEFINE b == req[p].op = "remove" /\ imageRef[i] = NoCommit
  <2>1. /\ pc[p] = "remove" /\ pc'[p] = "remove"
        /\ work'[p] = [work[p] EXCEPT !.todo = @ \ {i}, !.removed = @ \cup {i}, !.missing = @ \/ b]
    BY <1>3, Locals DEF RemoveImage, At
  <2>2. work'[p].missing = (work[p].missing \/ b)
    <3> HIDE DEF b
    <3> QED BY <1>a, <2>1 DEF WorkType
  <2>3. QED
    BY <1>a, <2>1, <2>2 DEF RemovalAt, At
<1>4. CASE ~TryLock(p) /\ ~ListUndeployed(p) /\ ~\E i \in Images : RemoveImage(p, i)
  BY <1>4, StepGoes DEF RemovalAt, At
<1>5. QED
  BY <1>1, <1>2, <1>3, <1>4

(***************************************************************************)
(* Every step of the system keeps what each process knows.                 *)
(***************************************************************************)
LEMMA KnowsStep ==
    ASSUME Serial, Known, \A p \in Procs : Knows(p), Next
    PROVE  \A p \in Procs : Knows(p)'
<1>a. TypeOK /\ PhaseOK /\ Exclusive /\ RefsResolve /\ DeploymentsStored
  BY DEF Known, TypeInv, Whole
<1>1. ASSUME NEW p \in Procs, Step(p), NEW q \in Procs PROVE Knows(q)'
  <2>1. CASE q = p
    BY <1>1, <1>a, <2>1, WrittenStep, CollectStep, RemovalStep DEF Knows
  <2>2. CASE q # p
    BY <1>1, <1>a, <2>2, Alone, IdleKnows
  <2>3. QED
    BY <2>1, <2>2
<1>2. ASSUME NEW p \in Procs, NEW r \in Requests, Begin(p, r), NEW q \in Procs PROVE Knows(q)'
  <2>1. CASE q # p
    BY <1>2, <1>a, <2>1, AloneOutside, IdleKnows
  <2>2. CASE q = p
    <3>1. pc'[p] = FirstLabel(r.op) /\ req'[p] = r
      BY <1>2, <1>a, Locals DEF Begin
    <3>2. /\ r.op # "copy" => work'[p].manifest = NoManifest
          /\ work'[p].missing = FALSE
      BY <1>2, <1>a DEF Begin, Remember, NoWork, TypeOK, ProcTypeOK
    <3>3. /\ FirstLabel(r.op) \in {"prepare", "copy", "remove", "mark", "lock"}
          /\ FirstLabel(r.op) = "prepare" => r.op # "copy"
          /\ FirstLabel(r.op) = "remove" => r.op = "remove"
          /\ FirstLabel(r.op) = "lock" => r.op \in LockedOps
          /\ FirstLabel(r.op) = "mark" => ~Imports(r)
      BY <1>2, RequestTypes DEF FirstLabel, LockedOps, Ops, Imports
    <3>4. CollectAt(p)'
      BY <3>1, <3>2, <3>3 DEF CollectAt, At
    <3>5. WrittenAt(p)'
      BY <3>1, <3>2, <3>3 DEF WrittenAt, AfterMerge, At
    <3>6. RemovalAt(p)'
      BY <3>1, <3>2, <3>3 DEF RemovalAt, At
    <3>7. QED
      BY <2>2, <3>4, <3>5, <3>6 DEF Knows
  <2>3. QED
    BY <2>1, <2>2
<1>3. ASSUME NEW p \in Procs, Abort(p) \/ Reap(p), NEW q \in Procs PROVE Knows(q)'
  BY <1>3, <1>a, AloneOutside, IdleKnows
<1>4. ASSUME NEW k \in 1..2, Undeploy(k), NEW q \in Procs PROVE Knows(q)'
  BY <1>4, <1>a, AloneOutside, IdleKnows
<1>5. ASSUME NEW i \in Images, NEW m \in Manifests, Push(i, m), NEW q \in Procs PROVE Knows(q)'
  BY <1>5 DEF Push, repoVars, Knows, WrittenAt, CollectAt, RemovalAt, At, TargetSkipped,
              ReferencedLayers, BranchLayers, RefCommits, ImageCommits, DeployedCommits
<1>6. QED
  BY <1>1, <1>2, <1>3, <1>4, <1>5 DEF Next

(***************************************************************************)
(* Callers that run one operation at a time find in each step what they    *)
(* learned in the steps before.                                            *)
(***************************************************************************)
THEOREM SerialKnows ==
    ASSUME Serial
    PROVE  Spec => [](Known /\ TargetsWritten /\ CollectsAll /\ RemovalsKnow)
<1> DEFINE All == \A p \in Procs : Knows(p)
<1>1. Init => All
  BY DEF Init, Knows, WrittenAt, AfterMerge, CollectAt, RemovalAt, At
<1>2. Known /\ All /\ [Next]_vars => All'
  <2> SUFFICES ASSUME Known, All, [Next]_vars PROVE All'
    OBVIOUS
  <2>1. CASE UNCHANGED vars
    BY <2>1 DEF vars, Knows, WrittenAt, CollectAt, RemovalAt, At, TargetSkipped, ReferencedLayers,
                BranchLayers, RefCommits, ImageCommits, DeployedCommits
  <2>2. QED
    BY <2>1, KnowsStep
<1>3. Spec => []Known
  BY TypeCorrect, SerialComplete, SerialWhole, PTL DEF Known, Whole
<1>4. All => TargetsWritten /\ CollectsAll /\ RemovalsKnow
  BY DEF Knows, TargetsWritten, CollectsAll, RemovalsKnow
<1>5. QED
  BY <1>1, <1>2, <1>3, <1>4, PTL DEF Spec

-----------------------------------------------------------------------------
(***************************************************************************)
(* What the operations achieve                                             *)
(***************************************************************************)

(***************************************************************************)
(* A collection (gc_image_layers_impl) leaves only the layers in use, and  *)
(* a full prune stores nothing that no ref reaches.                        *)
(***************************************************************************)
THEOREM SerialCollections ==
    ASSUME Serial
    PROVE  Spec => []GcComplete
<1>1. CollectsAll => GcComplete
  BY DEF CollectsAll, CollectAt, GcComplete
<1>2. QED
  BY <1>1, SerialKnows, PTL

(***************************************************************************)
(* A stored image can be queried.                                          *)
(***************************************************************************)
LEMMA StoredQueries ==
    ASSUME TypeOK, ImagesComplete, RefsResolve, NEW c \in ImageCommits
    PROVE  QueryOk(c)
<1>1. c.manifest \in Manifests /\ c \in mergeObjs
  BY ReferencedTypes DEF RefsResolve, RefCommits, Commits
<1>2. Layout[c.manifest].base \in LayersOf(c.manifest)
  BY <1>1, LayersSplit DEF BaseLayers
<1>3. QED
  BY <1>1, <1>2 DEF QueryOk, ImagesComplete

(***************************************************************************)
(* A pull or a deployment that reports success has stored the image that   *)
(* it fetched under the reference it was asked to write, and that image    *)
(* can be queried.                                                         *)
(***************************************************************************)
THEOREM SerialSuccess ==
    ASSUME Serial
    PROVE  Spec => []SuccessIsStored
<1>1. Known /\ TargetsWritten => SuccessIsStored
  <2> SUFFICES ASSUME Known, TargetsWritten, NEW p \in Procs, At(p, "done"), Imports(req[p]),
                      ~req[p].noref, ~TargetSkipped(p)
               PROVE  LET c == TryQueryImage(req[p].target)
                      IN  c # NoCommit /\ ImageId[c.manifest] = ImageId[Fetched(p)]
    BY DEF SuccessIsStored, Imports
  <2> DEFINE c == work[p].merged
  <2>1. /\ c \in Commits /\ imageRef[req[p].target] = c
        /\ work[p].manifest # NoManifest => c.manifest = work[p].manifest
    BY DEF TargetsWritten, WrittenAt, AfterMerge, At
  <2>2. c # NoCommit /\ req[p].target \in Images
    BY <2>1, NullAssumption, WorkFields, RequestTypes DEF Known, TypeInv
  <2>3. QueryOk(c)
    BY <2>1, <2>2, StoredQueries DEF Known, TypeInv, Whole, ImageCommits
  <2>4. TryQueryImage(req[p].target) = c
    BY <2>1, <2>2, <2>3 DEF TryQueryImage
  <2>5. QED
    BY <2>1, <2>2, <2>4 DEF Fetched
<1>2. QED
  BY <1>1, SerialKnows, PTL

-----------------------------------------------------------------------------
(***************************************************************************)
(* Failures                                                                *)
(***************************************************************************)

(***************************************************************************)
(* An import that finds objects missing needs a base with a cut layer: it  *)
(* has the refs of all layers it takes as present, and no such ref         *)
(* dangles.                                                                *)
(***************************************************************************)
LEMMA MissingIsCut ==
    ASSUME Known, NEW p \in Procs, MissingObjects(p)
    PROVE  work[p].manifest # NoManifest /\ BaseLayers(work[p].manifest) \cap cut # {}
<1> DEFINE m == work[p].manifest
<1>a. TypeOK /\ PhaseOK /\ ProgressOK /\ layerRef \subseteq layerObjs \cup cut
  BY DEF Known, TypeInv, Whole, RefsResolve
<1>b. At(p, "fetch") /\ WritesRef(p)
  BY DEF MissingObjects
<1>c. m \in Manifests /\ m # NoManifest
  BY <1>a, <1>b, NullAssumption DEF PhaseOK, PhaseOf, At
<1>1. ~MoreLayers(p) => LayersOf(m) \subseteq layerRef
  BY <1>a, <1>b, ImportHas
<1>2. ~MoreLayers(p) => DerivedStored(m) /\ BaseLayers(m) \subseteq layerRef
  <2>1. LayersOf(m) = BaseLayers(m) \cup Elems(Layout[m].derived)
    BY <1>c, LayersSplit
  <2>2. QED
    BY <1>a, <1>1, <2>1 DEF DerivedStored
<1>3. BaseLayers(m) \subseteq layerRef /\ ~BaseReadable(m)
  <2>1. CASE MoreLayers(p)
    BY <1>a, <1>b, <2>1, ImportHas DEF MissingObjects
  <2>2. CASE ~MoreLayers(p)
    BY <1>2, <2>2 DEF MissingObjects
  <2>3. QED
    BY <2>1, <2>2
<1>4. QED
  BY <1>a, <1>c, <1>3 DEF BaseReadable

(***************************************************************************)
(* A step that fails has a reason that can be named.                       *)
(***************************************************************************)
LEMMA FailureStep ==
    ASSUME Known, \A q \in Procs : Knows(q), MergedStored, \A r \in Requests : ~r.noref,
           NEW p \in Procs, Step(p), pc'[p] = "failed"
    PROVE  OwnFault(p)'
<1>a. TypeOK /\ PhaseOK /\ Exclusive /\ RefsResolve /\ ImagesComplete /\ DeploymentsStored
  BY DEF Known, TypeInv, Whole
<1>b. req' = req /\ work[p] \in WorkType /\ req[p] \in Requests /\ ~req[p].noref
      /\ PhaseOf(pc[p], req[p], work[p])
  BY <1>a, Alone, WorkFields DEF PhaseOK
<1>c. ImageCommits \subseteq mergeObjs
  BY <1>a DEF RefsResolve
<1>1. CASE Prepare(p)
  <2>1. work'[p].merged # NoCommit /\ req[p].op = "unencapsulate"
    BY <1>1, <1>a, PrepareSets DEF AfterPresent
  <2>2. QED
    BY <1>b, <2>1 DEF OwnFault
<1>2. CASE CachePending(p)
  <2> DEFINE m == work[p].manifest
  <2>1. Refused(req[p].op, m) /\ m \in Manifests
    BY <1>2, <1>a, <1>b, Locals DEF CachePending, At, PhaseOf
  <2>2. work'[p] = [work[p] EXCEPT !.have = PresentLayers(m), !.prev = NoCommit]
    BY <1>2, <1>a, Locals DEF CachePending
  <2>3. work'[p].manifest = m /\ m # NoManifest
    BY <1>b, <2>1, <2>2, NullAssumption DEF WorkType
  <2>4. QED
    BY <1>b, <2>1, <2>3 DEF OwnFault, Refused
<1>3. CASE MissingObjects(p)
  <2>1. UNCHANGED <<work, cut>>
    BY <1>3 DEF MissingObjects, repoVars
  <2>2. QED
    BY <1>3, <2>1, MissingIsCut DEF OwnFault, CutBase
<1>4. CASE Requery(p) \/ DeployFails(p)
  <2>1. work[p].merged \in ImageCommits
    BY <1>4, <1>b DEF Requery, DeployFails, At, PhaseOf, MergedStored, MergedLabels
  <2>2. work[p].merged \in mergeObjs /\ QueryOk(work[p].merged)
    BY <1>a, <1>c, <2>1, StoredQueries
  <2>3. QED
    BY <1>4, <1>a, <2>2, Locals DEF Requery, DeployFails
<1>5. CASE FilteredWarning(p)
  <2>1. /\ imageRef[req[p].target] \notin mergeObjs /\ work' = work
        /\ pc[p] = "warn" /\ req[p].target \in Images
    BY <1>5, <1>a, <1>b, Locals, RequestTypes DEF FilteredWarning, At
  <2>2. imageRef[req[p].target] = NoCommit
    BY <1>c, <2>1 DEF ImageCommits
  <2>3. ~WrittenAt(p) \/ TargetSkipped(p)
    <3>1. Imports(req[p])
      BY <2>1 DEF Knows, CollectAt, At
    <3>2. QED
      BY <1>b, <2>1, <2>2, <3>1, NullAssumption DEF WrittenAt, AfterMerge
  <2>4. QED
    BY <1>b, <2>1, <2>3 DEF Knows, OwnFault, TargetSkipped
<1>6. CASE RemoveDone(p)
  <2>1. work' = work /\ pc[p] = "remove" /\ AfterRemove(req[p], work[p]) = "failed"
    BY <1>6, <1>a, Locals DEF RemoveDone, At
  <2>2. work[p].missing
    BY <2>1 DEF AfterRemove
  <2>3. req[p].op = "remove"
    BY <2>1, <2>2 DEF Knows, RemovalAt, At
  <2>4. QED
    BY <1>b, <2>1, <2>2, <2>3 DEF OwnFault
<1>7. CASE GcFails(p)
  <2>1. \/ ~(DeployedCommits \subseteq mergeObjs)
        \/ pc[p] = "resolve" /\ \E i \in work[p].todo : imageRef[i] \notin mergeObjs
    BY <1>7 DEF GcFails, At
  <2>2. \A i \in work[p].todo : pc[p] = "resolve" => imageRef[i] \in ImageCommits
    BY <1>a, WorkFields DEF Knows, CollectAt, ImageCommits
  <2>3. QED
    BY <1>a, <1>c, <2>1, <2>2 DEF DeploymentsStored
<1>8. CASE PruneFails(p)
  <2>1. BrokenBases' # {}
    BY <1>8 DEF PruneFails, BrokenBases, RefBases, repoVars
  <2>2. req[p].op \in {"deploy", "prune_full"}
    BY <1>8 DEF PruneFails, Knows, CollectAt
  <2>3. QED
    BY <1>b, <2>1, <2>2 DEF OwnFault, CutBase
<1>9. QED
  BY <1>a, <1>1, <1>2, <1>3, <1>4, <1>5, <1>6, <1>7, <1>8, StepGoes

(***************************************************************************)
(* Callers that run one operation at a time, and write an image ref for    *)
(* what they import, see an operation fail only for a reason that can be   *)
(* named: an image it must refuse, an image to remove that is not there, a *)
(* target that was skipped, or a cut layer that a failed fetch left under  *)
(* a base.  No other leftover makes a later operation fail.  With          *)
(* no_imgref it is false: the collection deletes the layers of the image   *)
(* that was merged.                                                        *)
(***************************************************************************)
THEOREM SerialFailures ==
    ASSUME Serial, \A r \in Requests : ~r.noref
    PROVE  Spec => []NoSpuriousFailure
<1> DEFINE All == \A p \in Procs : Knows(p)
<1>1. Init => NoSpuriousFailure
  BY DEF Init, NoSpuriousFailure, At
<1>2. Known /\ All /\ MergedStored /\ NoSpuriousFailure /\ [Next]_vars => NoSpuriousFailure'
  <2> SUFFICES ASSUME Known, All, MergedStored, NoSpuriousFailure, [Next]_vars
               PROVE  NoSpuriousFailure'
    OBVIOUS
  <2> USE DEF NoSpuriousFailure, At
  <2>a. TypeOK /\ Exclusive
    BY DEF Known, TypeInv
  <2>1. CASE UNCHANGED vars
    BY <2>1 DEF vars, OwnFault, TargetSkipped, Refused, CutBase, BrokenBases, RefBases
  <2>2. ASSUME NEW p \in Procs, Step(p) PROVE NoSpuriousFailure'
    BY <2>2, <2>a, FailureStep, Alone
  <2>3. ASSUME NEW p \in Procs, NEW r \in Requests, Begin(p, r) PROVE NoSpuriousFailure'
    <3>1. pc'[p] # "failed"
      BY <2>3, <2>a, Locals, RequestTypes DEF Begin, FirstLabel, Ops, LockedOps
    <3>2. QED
      BY <2>3, <2>a, <3>1, AloneOutside
  <2>4. ASSUME NEW p \in Procs, Abort(p) \/ Reap(p) PROVE NoSpuriousFailure'
    BY <2>4, <2>a, AloneOutside
  <2>5. ASSUME NEW k \in 1..2, Undeploy(k) PROVE NoSpuriousFailure'
    BY <2>5, <2>a, AloneOutside
  <2>6. ASSUME NEW i \in Images, NEW m \in Manifests, Push(i, m) PROVE NoSpuriousFailure'
    BY <2>6 DEF Push, repoVars, OwnFault, TargetSkipped, Refused, CutBase, BrokenBases, RefBases
  <2>7. QED
    BY <2>1, <2>2, <2>3, <2>4, <2>5, <2>6 DEF Next
<1>3. TargetsWritten /\ CollectsAll /\ RemovalsKnow => All
  BY DEF Knows, TargetsWritten, CollectsAll, RemovalsKnow
<1>4. QED
  BY <1>1, <1>2, <1>3, SerialKnows, SerialDeployments, PTL DEF Spec
=============================================================================
