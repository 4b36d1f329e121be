-------------------------- MODULE ImageStoreProofs --------------------------
(***************************************************************************)
(* Theorems about ImageStore, for every set of processes, images,          *)
(* manifests, layers and requests.                                         *)
(***************************************************************************)
EXTENDS ImageStore, TLAPS

(***************************************************************************)
(* The layers of a manifest are layers, in both orders.                    *)
(***************************************************************************)
LEMMA OrderTypes ==
    ASSUME NEW m \in Manifests
    PROVE  /\ FetchOrder(m) \in Seq(Layers)
           /\ CopyOrder(m) \in Seq(Layers)
           /\ LayersOf(m) \subseteq Layers
           /\ BaseLayers(m) \subseteq Layers
<1> DEFINE b == <<Layout[m].base>>
           c == Layout[m].chunks
           d == Layout[m].derived
<1>1. b \in Seq(Layers) /\ c \in Seq(Layers) /\ d \in Seq(Layers)
  BY LayoutAssumption
<1>2. FetchOrder(m) \in Seq(Layers) /\ CopyOrder(m) \in Seq(Layers)
  <2> HIDE DEF b, c, d
  <2>1. c \o (b \o d) \in Seq(Layers) /\ b \o (c \o d) \in Seq(Layers)
    BY <1>1
  <2>2. QED
    BY <2>1 DEF FetchOrder, CopyOrder, b, c, d
<1>3. \A s \in Seq(Layers) : Elems(s) \subseteq Layers
  BY DEF Elems
<1>4. BaseLayers(m) \subseteq Layers
  BY <1>1, <1>3 DEF BaseLayers
<1>5. QED
  BY <1>2, <1>3, <1>4 DEF LayersOf

(***************************************************************************)
(* The layers that a collection marks and those that a prune keeps are     *)
(* layers.                                                                 *)
(***************************************************************************)
LEMMA ReferencedTypes ==
    ASSUME TypeOK
    PROVE  /\ RefCommits \subseteq Commits
           /\ ReferencedLayers \subseteq Layers /\ DeployedLayers \subseteq Layers
<1>1. RefCommits \subseteq Commits
  <2>1. ImageCommits \subseteq Commits
    BY DEF TypeOK, RepoTypeOK, ImageCommits
  <2>2. \A k \in DOMAIN deployed : deployed[k] \in DeploymentType
    BY DEF TypeOK, RepoTypeOK
  <2>3. \A k \in DOMAIN deployed : deployed[k].commit \in Commits
    BY <2>2 DEF DeploymentType
  <2>4. QED
    BY <2>1, <2>3 DEF RefCommits, DeployedCommits
<1>2. \A c \in Commits : c.manifest \in Manifests
  BY DEF Commits
<1>3. \A c \in RefCommits : LayersOf(c.manifest) \subseteq Layers
  BY <1>1, <1>2, OrderTypes
<1>4. QED
  BY <1>1, <1>3 DEF ReferencedLayers, DeployedLayers, RefCommits

(***************************************************************************)
(* A request that may be made has the fields of a request.                 *)
(***************************************************************************)
LEMMA RequestTypes ==
    /\ NoRequest \in Requests
    /\ \A r \in Requests : /\ r.op \in Ops /\ r.img \in Images /\ r.target \in Images
                           /\ r.imgs \in SUBSET Images
                           /\ r.noref \in BOOLEAN /\ r.gc \in BOOLEAN
                           /\ r.noclean \in BOOLEAN /\ r.writeref \in BOOLEAN
BY RequestsAssumption DEF RequestType, NoRequest

(***************************************************************************)
(* A process that starts, or forgets what it did, has a well-typed work    *)
(* record.                                                                 *)
(***************************************************************************)
LEMMA NoWorkType == NoWork \in WorkType
BY DEF NoWork, WorkType

(***************************************************************************)
(* What the provers need of types: the fields of a work record.            *)
(***************************************************************************)
LEMMA WorkFields ==
    ASSUME TypeOK, NEW p \in Procs
    PROVE  /\ work[p] \in WorkType
           /\ work[p].manifest \in Manifests \cup {NoManifest}
           /\ work[p].prev \in Commits \cup {NoCommit}
           /\ work[p].have \subseteq Layers
           /\ work[p].idx \in Nat \ {0}
           /\ work[p].filtered \subseteq Filtered
           /\ work[p].merged \in Commits \cup {NoCommit}
           /\ work[p].marked \subseteq Layers
           /\ work[p].found \subseteq Layers
           /\ work[p].todo \subseteq Images
           /\ work[p].removed \subseteq Images
           /\ work[p].missing \in BOOLEAN
           /\ req[p] \in Requests
           /\ pc[p] \in PCs
BY DEF TypeOK, ProcTypeOK, WorkType

-----------------------------------------------------------------------------
(***************************************************************************)
(* The label an action goes to is a label.                                 *)
(***************************************************************************)
LEMMA LabelTypes ==
    /\ \A op \in Ops : FirstLabel(op) \in PCs /\ AfterPresent(op) \in PCs /\ AfterGc(op) \in PCs
    /\ \A r, w : AfterRemove(r, w) \in PCs
<1>1. \A op \in Ops : FirstLabel(op) \in PCs
  BY DEF FirstLabel, Ops, PCs, Ended, LockedOps
<1>2. \A op \in Ops : AfterPresent(op) \in PCs /\ AfterGc(op) \in PCs
  BY DEF AfterPresent, AfterGc, Ops, PCs, Ended
<1>3. \A r, w : AfterRemove(r, w) \in PCs
  BY DEF AfterRemove, PCs, Ended
<1>4. QED
  BY <1>1, <1>2, <1>3

(***************************************************************************)
(* Where a process may be next in its list of layers.                      *)
(***************************************************************************)
LEMMA NextLayerType ==
    ASSUME TypeOK, NEW p \in Procs, work[p].manifest \in Manifests
    PROVE  MoreLayers(p) => NextLayer(p) \in Layers
BY OrderTypes, WorkFields DEF MoreLayers, NextLayer

(***************************************************************************)
(* The specification keeps every variable in its type.                     *)
(***************************************************************************)
LEMMA InitType == Init => TypeOK
BY NoWorkType, RequestTypes, NullAssumption DEF Init, TypeOK, RepoTypeOK, ProcTypeOK, PCs

(***************************************************************************)
(* Setting fields of a work record.                                        *)
(***************************************************************************)
LEMMA SetFields ==
    ASSUME NEW w \in WorkType
    PROVE  /\ \A c \in Commits \cup {NoCommit} : [w EXCEPT !.merged = c] \in WorkType
           /\ \A m \in Manifests, c \in Commits \cup {NoCommit} :
                 [w EXCEPT !.manifest = m, !.prev = c] \in WorkType
           /\ \A H \in SUBSET Layers : [w EXCEPT !.have = H, !.prev = NoCommit] \in WorkType
           /\ [w EXCEPT !.idx = @ + 1] \in WorkType
           /\ \A F \in SUBSET Filtered : [w EXCEPT !.idx = @ + 1, !.filtered = @ \cup F] \in WorkType
           /\ \A L \in SUBSET Layers : [w EXCEPT !.marked = L] \in WorkType
           /\ \A i \in Images, L \in SUBSET Layers :
                 [w EXCEPT !.todo = @ \ {i}, !.marked = @ \cup L] \in WorkType
           /\ \A L \in SUBSET Layers : [w EXCEPT !.found = L, !.marked = {}] \in WorkType
           /\ \A l : [w EXCEPT !.found = @ \ {l}] \in WorkType
           /\ \A I \in SUBSET Images : [w EXCEPT !.todo = I] \in WorkType
           /\ \A i \in Images, b \in BOOLEAN :
                 [w EXCEPT !.todo = @ \ {i}, !.removed = @ \cup {i}, !.missing = @ \/ b] \in WorkType
           /\ \A m \in Manifests \cup {NoManifest}, I \in SUBSET Images :
                 [w EXCEPT !.todo = I, !.manifest = m] \in WorkType
           /\ \A m \in Manifests \cup {NoManifest}, c \in Commits :
                 [w EXCEPT !.manifest = m, !.merged = c] \in WorkType
<1>1. \A c \in Commits \cup {NoCommit} : [w EXCEPT !.merged = c] \in WorkType
  BY DEF WorkType
<1>2. \A m \in Manifests, c \in Commits \cup {NoCommit} :
         [w EXCEPT !.manifest = m, !.prev = c] \in WorkType
  BY DEF WorkType
<1>3. \A H \in SUBSET Layers : [w EXCEPT !.have = H, !.prev = NoCommit] \in WorkType
  BY DEF WorkType
<1>4. [w EXCEPT !.idx = @ + 1] \in WorkType
  BY DEF WorkType
<1>5. \A F \in SUBSET Filtered : [w EXCEPT !.idx = @ + 1, !.filtered = @ \cup F] \in WorkType
  <2>1. \A n \in Nat \ {0}, G \in SUBSET Filtered : [w EXCEPT !.idx = n, !.filtered = G] \in WorkType
    BY DEF WorkType
  <2>2. w.idx + 1 \in Nat \ {0} /\ \A F \in SUBSET Filtered : w.filtered \cup F \in SUBSET Filtered
    BY DEF WorkType
  <2>3. QED
    BY <2>1, <2>2
<1>6. \A L \in SUBSET Layers : [w EXCEPT !.marked = L] \in WorkType
  BY DEF WorkType
<1>7. \A L \in SUBSET Layers : [w EXCEPT !.found = L, !.marked = {}] \in WorkType
  BY DEF WorkType
<1>8. \A l : [w EXCEPT !.found = @ \ {l}] \in WorkType
  BY DEF WorkType
<1>9. \A I \in SUBSET Images : [w EXCEPT !.todo = I] \in WorkType
  BY DEF WorkType
<1>10. \A i \in Images, b \in BOOLEAN :
         [w EXCEPT !.todo = @ \ {i}, !.removed = @ \cup {i}, !.missing = @ \/ b] \in WorkType
  BY DEF WorkType
<1>11. \A m \in Manifests \cup {NoManifest}, I \in SUBSET Images :
         [w EXCEPT !.todo = I, !.manifest = m] \in WorkType
  BY DEF WorkType
<1>12. \A m \in Manifests \cup {NoManifest}, c \in Commits :
         [w EXCEPT !.manifest = m, !.merged = c] \in WorkType
  BY DEF WorkType
<1>13. \A i \in Images, L \in SUBSET Layers :
         [w EXCEPT !.todo = @ \ {i}, !.marked = @ \cup L] \in WorkType
  BY DEF WorkType
<1>14. QED
  BY <1>1, <1>2, <1>3, <1>4, <1>5, <1>6, <1>7, <1>8, <1>9, <1>10, <1>11, <1>12, <1>13

(***************************************************************************)
(* A step of one process: it suffices to look at what that process         *)
(* becomes.                                                                *)
(***************************************************************************)
LEMMA LocalStep ==
    ASSUME TypeOK, PhaseOK, NEW p \in Procs,
           NEW l \in PCs, NEW r \in Requests, NEW w \in WorkType,
           pc' = [pc EXCEPT ![p] = l], req' = [req EXCEPT ![p] = r], work' = [work EXCEPT ![p] = w],
           PhaseOf(l, r, w)
    PROVE  ProcTypeOK' /\ PhaseOK'
<1>1. ProcTypeOK'
  BY DEF TypeOK, ProcTypeOK
<1>2. PhaseOf(pc'[p], req'[p], work'[p])
  BY DEF TypeOK, ProcTypeOK
<1>3. \A q \in Procs \ {p} : pc'[q] = pc[q] /\ req'[q] = req[q] /\ work'[q] = work[q]
  BY DEF TypeOK, ProcTypeOK
<1>4. \A q \in Procs \ {p} : PhaseOf(pc'[q], req'[q], work'[q])
  BY <1>3 DEF PhaseOK
<1>5. QED
  BY <1>1, <1>2, <1>4 DEF PhaseOK

(***************************************************************************)
(* What a step leaves alone it sets to what it was.                        *)
(***************************************************************************)
LEMMA Unchanged ==
    ASSUME TypeOK, NEW p \in Procs
    PROVE  /\ pc' = pc => pc' = [pc EXCEPT ![p] = pc[p]]
           /\ req' = req => req' = [req EXCEPT ![p] = req[p]]
           /\ work' = work => work' = [work EXCEPT ![p] = work[p]]
BY DEF TypeOK, ProcTypeOK

(***************************************************************************)
(* The steps of prepare and of import keep the types and the phases.       *)
(***************************************************************************)
LEMMA ImportType ==
    ASSUME TypeOK, PhaseOK, NEW p \in Procs, ImportStep(p)
    PROVE  TypeOK' /\ PhaseOK'
<1>a. PhaseOf(pc[p], req[p], work[p]) /\ req[p] \in Requests /\ req[p].op \in Ops /\ work[p] \in WorkType
  BY WorkFields, RequestTypes DEF PhaseOK
<1>b. req' = [req EXCEPT ![p] = req[p]]
  BY Unchanged DEF ImportStep, Prepare, CachePending, ReuseLayer, FetchLayer, FetchFails,
                   LateCommit, MissingObjects, Merge, UnencapsulateDone, Requery
<1>1. CASE Prepare(p)
  <2> DEFINE m == tag[req[p].img]
             prev == TryQueryImage(req[p].img)
  <2>1. m \in Manifests /\ prev \in Commits \cup {NoCommit}
    BY <1>a, RequestTypes DEF TypeOK, RepoTypeOK, TryQueryImage
  <2>2. RepoTypeOK'
    BY <1>1 DEF Prepare, TypeOK, RepoTypeOK, repoVars
  <2>3. CASE AlreadyPresent(prev, m)
    <3> DEFINE w == [work[p] EXCEPT !.merged = prev]
               l == AfterPresent(req[p].op)
    <3>1. w \in WorkType /\ l \in PCs
      BY <1>a, <2>1, SetFields, LabelTypes
    <3>2. pc' = [pc EXCEPT ![p] = l] /\ work' = [work EXCEPT ![p] = w]
      BY <1>1, <2>3 DEF Prepare, Go, Remember
    <3>3. w.merged \in Commits
      BY <1>a, <2>1, <2>3 DEF AlreadyPresent, WorkType
    <3>4. PhaseOf(l, req[p], w)
      BY <3>3 DEF PhaseOf, AfterPresent, Imports
    <3>5. ProcTypeOK' /\ PhaseOK'
      <4> HIDE DEF w, l
      <4> QED BY <1>a, <1>b, <3>1, <3>2, <3>4, LocalStep
    <3>6. QED
      BY <2>2, <3>5 DEF TypeOK
  <2>4. CASE ~AlreadyPresent(prev, m)
    <3> DEFINE w == [work[p] EXCEPT !.manifest = m, !.prev = prev]
    <3>1. w \in WorkType /\ "cache" \in PCs
      BY <1>a, <2>1, SetFields DEF PCs
    <3>2. pc' = [pc EXCEPT ![p] = "cache"] /\ work' = [work EXCEPT ![p] = w]
      BY <1>1, <2>4 DEF Prepare, Go, Remember
    <3>3. PhaseOf("cache", req[p], w)
      BY <1>1, <1>a, <2>1 DEF Prepare, At, PhaseOf, WorkType
    <3>4. ProcTypeOK' /\ PhaseOK'
      <4> HIDE DEF w
      <4> QED BY <1>a, <1>b, <3>1, <3>2, <3>3, LocalStep
    <3>5. QED
      BY <2>2, <3>4 DEF TypeOK
  <2>5. QED
    BY <2>3, <2>4
<1>2. CASE CachePending(p)
  <2> DEFINE m == work[p].manifest
             w == [work[p] EXCEPT !.have = PresentLayers(m), !.prev = NoCommit]
             l == IF Refused(req[p].op, m) THEN "failed"
                  ELSE IF req[p].op = "check" THEN "done" ELSE "fetch"
  <2>1. m \in Manifests
    BY <1>2, <1>a DEF CachePending, At, PhaseOf
  <2>2. w \in WorkType /\ l \in PCs /\ w.manifest = m
    <3>1. PresentLayers(m) \in SUBSET Layers
      BY DEF PresentLayers, TypeOK, RepoTypeOK
    <3>2. w \in WorkType
      BY <1>a, <3>1, SetFields
    <3>3. w.manifest = m /\ l \in PCs
      BY <1>a DEF PCs, Ended, WorkType
    <3>4. QED
      BY <3>2, <3>3
  <2>3. pc' = [pc EXCEPT ![p] = l] /\ work' = [work EXCEPT ![p] = w]
    BY <1>2 DEF CachePending, Go, Remember
  <2>4. PhaseOf(l, req[p], w)
    BY <1>2, <1>a, <2>1, <2>2 DEF CachePending, At, PhaseOf
  <2>5. ProcTypeOK' /\ PhaseOK'
    <3> HIDE DEF w, l
    <3> QED BY <1>a, <1>b, <2>2, <2>3, <2>4, LocalStep
  <2>6. RepoTypeOK'
    BY <1>2, <2>1, WorkFields DEF CachePending, CachedUpdate, TypeOK, RepoTypeOK
  <2>7. QED
    BY <2>5, <2>6 DEF TypeOK
<1>3. CASE ReuseLayer(p)
  <2> DEFINE w == [work[p] EXCEPT !.idx = @ + 1]
  <2>1. w \in WorkType /\ w.manifest = work[p].manifest
    <3>1. w \in WorkType
      BY <1>a, SetFields
    <3>2. QED
      BY <1>a, <3>1 DEF WorkType
  <2>2. pc' = [pc EXCEPT ![p] = pc[p]] /\ work' = [work EXCEPT ![p] = w]
    BY <1>3, Unchanged DEF ReuseLayer, Remember
  <2>3. pc[p] \in PCs /\ PhaseOf(pc[p], req[p], w)
    BY <1>3, <1>a, <2>1, WorkFields DEF ReuseLayer, At, PhaseOf
  <2>4. ProcTypeOK' /\ PhaseOK'
    <3> HIDE DEF w
    <3> QED BY <1>a, <1>b, <2>1, <2>2, <2>3, LocalStep
  <2>5. QED
    BY <1>3, <2>4 DEF ReuseLayer, TypeOK, RepoTypeOK, repoVars
<1>4. CASE FetchLayer(p)
  <2> DEFINE w == [work[p] EXCEPT !.idx = @ + 1, !.filtered = @ \cup NewlyFiltered(p)]
  <2>1. work[p].manifest \in Manifests
    BY <1>4, <1>a DEF FetchLayer, CanFetch, At, PhaseOf
  <2>2. NextLayer(p) \in Layers /\ NewlyFiltered(p) \in SUBSET Filtered
    BY <1>4, <2>1, NextLayerType DEF FetchLayer, CanFetch, NewlyFiltered
  <2>3. w \in WorkType
    BY <1>a, <2>2, SetFields
  <2>4. w.manifest = work[p].manifest
    BY <1>a DEF WorkType
  <2>5. pc' = [pc EXCEPT ![p] = pc[p]] /\ work' = [work EXCEPT ![p] = w]
    BY <1>4, Unchanged DEF FetchLayer, Remember
  <2>6. pc[p] \in PCs /\ PhaseOf(pc[p], req[p], w)
    BY <1>4, <1>a, <2>4, WorkFields DEF FetchLayer, CanFetch, At, PhaseOf
  <2>7. ProcTypeOK' /\ PhaseOK'
    <3> HIDE DEF w
    <3> QED BY <1>a, <1>b, <2>3, <2>5, <2>6, LocalStep
  <2>8. RepoTypeOK'
    BY <1>4, <2>2 DEF FetchLayer, StoreWhole, TypeOK, RepoTypeOK
  <2>9. QED
    BY <2>7, <2>8 DEF TypeOK
<1>5. CASE Merge(p)
  <2> DEFINE c == [manifest |-> work[p].manifest, filtered |-> work[p].filtered]
             w == [NoWork EXCEPT !.manifest = work[p].manifest, !.merged = c]
             l == IF req[p].gc THEN "mark" ELSE "requery"
  <2>1. c \in Commits
    BY <1>5, <1>a, WorkFields DEF Merge, At, PhaseOf, Commits
  <2>2. w \in WorkType /\ l \in PCs
    BY <2>1, WorkFields, NoWorkType, SetFields DEF PCs
  <2>3. w.merged = c
    BY DEF NoWork
  <2>4. pc' = [pc EXCEPT ![p] = l] /\ work' = [work EXCEPT ![p] = w]
    BY <1>5 DEF Merge, Go, Remember
  <2>5. PhaseOf(l, req[p], w)
    BY <1>5, <1>a, <2>1, <2>3 DEF Merge, WritesRef, At, PhaseOf
  <2>6. ProcTypeOK' /\ PhaseOK'
    <3> HIDE DEF w, l
    <3> QED BY <1>a, <1>b, <2>2, <2>4, <2>5, LocalStep
  <2>7. RepoTypeOK'
    BY <1>5, <1>a, <2>1, RequestTypes DEF Merge, WrittenRef, TypeOK, RepoTypeOK
  <2>8. QED
    BY <2>6, <2>7 DEF TypeOK
<1>6. CASE MissingObjects(p) \/ UnencapsulateDone(p) \/ Requery(p)
  <2>1. RepoTypeOK' /\ work' = work
    <3>1. CASE MissingObjects(p) \/ Requery(p)
      BY <3>1 DEF MissingObjects, Requery, TypeOK, RepoTypeOK, repoVars
    <3>2. CASE UnencapsulateDone(p)
      <4>1. work[p].manifest \in Manifests
        BY <3>2, <1>a DEF UnencapsulateDone, At, PhaseOf
      <4>2. Layout[work[p].manifest].base \in Layers
        BY <4>1, LayoutAssumption
      <4>3. branch' \subseteq Layers
        BY <3>2, <4>2 DEF UnencapsulateDone, TypeOK, RepoTypeOK
      <4>4. QED
        BY <3>2, <4>3 DEF UnencapsulateDone, TypeOK, RepoTypeOK
    <3>3. QED
      BY <1>6, <3>1, <3>2
  <2>2. PICK l \in {"failed", "done", "deploy", "warn"} :
           pc' = [pc EXCEPT ![p] = l] /\ (l = "deploy" => At(p, "requery"))
    BY <1>6 DEF MissingObjects, UnencapsulateDone, Requery, Go
  <2>3. l \in PCs /\ PhaseOf(l, req[p], work[p])
    BY <1>a, <2>2 DEF PCs, Ended, PhaseOf, At
  <2>4. ProcTypeOK' /\ PhaseOK'
    BY <1>a, <1>b, <2>1, <2>2, <2>3, LocalStep, Unchanged
  <2>5. QED
    BY <2>1, <2>4 DEF TypeOK
<1>7. CASE FetchFails(p)
  <2>1. RepoTypeOK' /\ work' = [work EXCEPT ![p] = work[p]] /\ pc' = [pc EXCEPT ![p] = "late"]
    BY <1>7, Unchanged DEF FetchFails, Go, TypeOK, RepoTypeOK, repoVars
  <2>2. "late" \in PCs /\ PhaseOf("late", req[p], work[p])
    BY <1>7, <1>a DEF FetchFails, CanFetch, At, PhaseOf, PCs
  <2>3. ProcTypeOK' /\ PhaseOK'
    BY <1>a, <1>b, <2>1, <2>2, LocalStep
  <2>4. QED
    BY <2>1, <2>3 DEF TypeOK
<1>8. CASE LateCommit(p)
  <2>1. NextLayer(p) \in Layers
    BY <1>8, <1>a, NextLayerType DEF LateCommit, At, PhaseOf
  <2>2. RepoTypeOK'
    BY <1>8, <2>1 DEF LateCommit, StoreWhole, StoreCut, TypeOK, RepoTypeOK
  <2>3. pc' = [pc EXCEPT ![p] = "aborted"] /\ work' = [work EXCEPT ![p] = NoWork]
    BY <1>8 DEF LateCommit, Go, Remember
  <2>4. "aborted" \in PCs /\ PhaseOf("aborted", req[p], NoWork)
    BY DEF PhaseOf, PCs, Ended
  <2>5. ProcTypeOK' /\ PhaseOK'
    BY <1>a, <1>b, <2>3, <2>4, NoWorkType, LocalStep
  <2>6. QED
    BY <2>2, <2>5 DEF TypeOK
<1>9. QED
  BY <1>1, <1>2, <1>3, <1>4, <1>5, <1>6, <1>7, <1>8 DEF ImportStep

(***************************************************************************)
(* The steps of a collection keep the types and the phases.                *)
(***************************************************************************)
LEMMA GcType ==
    ASSUME TypeOK, PhaseOK, NEW p \in Procs, GcStep(p)
    PROVE  TypeOK' /\ PhaseOK'
<1>a. PhaseOf(pc[p], req[p], work[p]) /\ req[p] \in Requests /\ req[p].op \in Ops /\ work[p] \in WorkType
  BY WorkFields, RequestTypes DEF PhaseOK
<1>b. req' = [req EXCEPT ![p] = req[p]]
  BY Unchanged DEF GcStep, GcList, GcDeployments, GcResolve, GcFails, GcScan, GcDone, GcSweep
<1>1. RepoTypeOK'
  BY DEF GcStep, GcList, GcDeployments, GcResolve, GcFails, GcScan, GcDone, GcSweep,
         TypeOK, RepoTypeOK, repoVars
<1>2. CASE GcList(p)
  <2> DEFINE w == [work[p] EXCEPT !.todo = {i \in Images : imageRef[i] # NoCommit}]
  <2>1. w \in WorkType
    BY <1>a, SetFields
  <2>2. w.merged = work[p].merged
    BY <1>a DEF WorkType
  <2>3. PhaseOf("manifests", req[p], w) /\ "manifests" \in PCs
    BY <1>2, <1>a, <2>2 DEF GcList, At, PhaseOf, PCs
  <2>4. pc' = [pc EXCEPT ![p] = "manifests"] /\ work' = [work EXCEPT ![p] = w]
    BY <1>2 DEF GcList, Go, Remember
  <2>5. ProcTypeOK' /\ PhaseOK'
    <3> HIDE DEF w
    <3> QED BY <1>a, <1>b, <2>1, <2>3, <2>4, LocalStep
  <2>6. QED
    BY <1>1, <2>5 DEF TypeOK
<1>6. CASE GcDeployments(p)
  <2> DEFINE w == [work[p] EXCEPT !.marked = DeployedLayers]
  <2>1. w \in WorkType
    BY <1>a, SetFields, ReferencedTypes
  <2>2. w.merged = work[p].merged
    BY <1>a DEF WorkType
  <2>3. PhaseOf("resolve", req[p], w) /\ "resolve" \in PCs
    BY <1>6, <1>a, <2>2 DEF GcDeployments, At, PhaseOf, PCs
  <2>4. pc' = [pc EXCEPT ![p] = "resolve"] /\ work' = [work EXCEPT ![p] = w]
    BY <1>6 DEF GcDeployments, Go, Remember
  <2>5. ProcTypeOK' /\ PhaseOK'
    <3> HIDE DEF w
    <3> QED BY <1>a, <1>b, <2>1, <2>3, <2>4, LocalStep
  <2>6. QED
    BY <1>1, <2>5 DEF TypeOK
<1>7. ASSUME NEW i \in Images, GcResolve(p, i) PROVE TypeOK' /\ PhaseOK'
  <2> DEFINE L == LayersOf(imageRef[i].manifest)
             w == [work[p] EXCEPT !.todo = @ \ {i}, !.marked = @ \cup L]
  <2>1. imageRef[i] \in Commits
    BY <1>7 DEF GcResolve, TypeOK, RepoTypeOK
  <2>2. L \in SUBSET Layers
    BY <2>1, OrderTypes DEF Commits
  <2>3. w \in WorkType
    <3> HIDE DEF L
    <3> QED BY <1>a, <2>2, SetFields
  <2>4. w.merged = work[p].merged
    BY <1>a DEF WorkType
  <2>5. PhaseOf(pc[p], req[p], w) /\ pc[p] \in PCs
    BY <1>7, <1>a, <2>4, WorkFields DEF GcResolve, At, PhaseOf
  <2>6. pc' = [pc EXCEPT ![p] = pc[p]] /\ work' = [work EXCEPT ![p] = w]
    BY <1>7, Unchanged DEF GcResolve, Remember
  <2>7. ProcTypeOK' /\ PhaseOK'
    <3> HIDE DEF w
    <3> QED BY <1>a, <1>b, <2>3, <2>5, <2>6, LocalStep
  <2>8. QED
    BY <1>1, <2>7 DEF TypeOK
<1>8. CASE GcFails(p)
  <2>1. pc' = [pc EXCEPT ![p] = "failed"] /\ work' = [work EXCEPT ![p] = work[p]]
    BY <1>8, Unchanged DEF GcFails, Go
  <2>2. PhaseOf("failed", req[p], work[p]) /\ "failed" \in PCs
    BY DEF PhaseOf, PCs, Ended
  <2>3. ProcTypeOK' /\ PhaseOK'
    BY <1>a, <1>b, <2>1, <2>2, LocalStep
  <2>4. QED
    BY <1>1, <2>3 DEF TypeOK
<1>3. CASE GcScan(p)
  <2> DEFINE w == [work[p] EXCEPT !.found = layerRef \ work[p].marked, !.marked = {}]
  <2>1. layerRef \ work[p].marked \in SUBSET Layers
    BY DEF TypeOK, RepoTypeOK
  <2>2. w \in WorkType
    BY <1>a, <2>1, SetFields
  <2>3. w.merged = work[p].merged
    BY <1>a DEF WorkType
  <2>4. PhaseOf("sweep", req[p], w) /\ "sweep" \in PCs
    BY <1>3, <1>a, <2>3 DEF GcScan, At, PhaseOf, PCs
  <2>5. pc' = [pc EXCEPT ![p] = "sweep"] /\ work' = [work EXCEPT ![p] = w]
    BY <1>3 DEF GcScan, Go, Remember
  <2>6. ProcTypeOK' /\ PhaseOK'
    <3> HIDE DEF w
    <3> QED BY <1>a, <1>b, <2>2, <2>4, <2>5, LocalStep
  <2>7. QED
    BY <1>1, <2>6 DEF TypeOK
<1>4. ASSUME NEW x \in Layers, GcSweep(p, x) PROVE TypeOK' /\ PhaseOK'
  <2> DEFINE w == [work[p] EXCEPT !.found = @ \ {x}]
  <2>1. w \in WorkType
    BY <1>a, SetFields
  <2>2. w.merged = work[p].merged
    BY <1>a DEF WorkType
  <2>3. PhaseOf(pc[p], req[p], w) /\ pc[p] \in PCs
    BY <1>4, <1>a, <2>2, WorkFields DEF GcSweep, At, PhaseOf
  <2>4. pc' = [pc EXCEPT ![p] = pc[p]] /\ work' = [work EXCEPT ![p] = w]
    BY <1>4, Unchanged DEF GcSweep, Remember
  <2>5. ProcTypeOK' /\ PhaseOK'
    <3> HIDE DEF w
    <3> QED BY <1>a, <1>b, <2>1, <2>3, <2>4, LocalStep
  <2>6. QED
    BY <1>1, <2>5 DEF TypeOK
<1>5. CASE GcDone(p)
  <2> DEFINE l == AfterGc(req[p].op)
  <2>1. l \in PCs /\ PhaseOf(l, req[p], work[p])
    BY <1>5, <1>a, LabelTypes DEF GcDone, At, PhaseOf, AfterGc, Imports
  <2>2. pc' = [pc EXCEPT ![p] = l] /\ work' = [work EXCEPT ![p] = work[p]]
    BY <1>5, Unchanged DEF GcDone, Go
  <2>3. ProcTypeOK' /\ PhaseOK'
    <3> HIDE DEF l
    <3> QED BY <1>a, <1>b, <2>1, <2>2, LocalStep
  <2>4. QED
    BY <1>1, <2>3 DEF TypeOK
<1>9. QED
  BY <1>2, <1>3, <1>4, <1>5, <1>6, <1>7, <1>8 DEF GcStep

(***************************************************************************)
(* Pruning objects and writing a deployment keep the types.                *)
(***************************************************************************)
LEMMA PruneType ==
    ASSUME TypeOK, NEW K, PruneObjects(K)
    PROVE  /\ layerObjs' \subseteq Layers
           /\ mergeObjs' \subseteq Commits
           /\ cached' \in [Commits -> Manifests \cup {NoManifest}]
BY DEF TypeOK, RepoTypeOK, PruneObjects

LEMMA DeploymentTypes ==
    ASSUME TypeOK, NEW p \in Procs, work[p].merged \in Commits
    PROVE  NewDeployments(p) \in Seq(DeploymentType) /\ Len(NewDeployments(p)) <= 2
<1> DEFINE d == [commit |-> work[p].merged, origin |-> req[p].target]
           s == SubSeq(loaded[p], 1, IF loaded[p] = <<>> THEN 0 ELSE 1)
<1>1. d \in DeploymentType
  BY WorkFields, RequestTypes DEF DeploymentType
<1>2. s \in Seq(DeploymentType) /\ Len(s) <= 1
  <2>1. loaded[p] \in Seq(DeploymentType)
    BY DEF TypeOK, RepoTypeOK
  <2>2. CASE loaded[p] = <<>>
    BY <2>1, <2>2
  <2>3. CASE loaded[p] # <<>>
    <3>1. Len(loaded[p]) \in Nat \ {0}
      BY <2>1, <2>3
    <3>2. QED
      BY <2>1, <2>3, <3>1
  <2>4. QED
    BY <2>2, <2>3
<1>3. NewDeployments(p) = <<d>> \o s
  BY DEF NewDeployments
<1>4. QED
  <2> HIDE DEF d, s
  <2> QED BY <1>1, <1>2, <1>3

(***************************************************************************)
(* A new deployment adds its own commit to those that were loaded, and no  *)
(* other; `undeploy` adds none.                                            *)
(***************************************************************************)
LEMMA DeploymentCommits ==
    ASSUME TypeOK
    PROVE  /\ \A p \in Procs :
                 loaded[p] \in {deployed, <<>>} /\ deployed' = NewDeployments(p) =>
                    DeployedCommits' \subseteq DeployedCommits \cup {work[p].merged}
           /\ \A k \in 1..2 : Undeploy(k) => DeployedCommits' \subseteq DeployedCommits
<1>1. deployed \in Seq(DeploymentType) /\ Len(deployed) \in Nat /\ Len(deployed) <= 2
  BY DEF TypeOK, RepoTypeOK
<1>2. ASSUME NEW p \in Procs, loaded[p] \in {deployed, <<>>}, deployed' = NewDeployments(p),
             NEW k \in DOMAIN deployed'
      PROVE  deployed'[k].commit \in DeployedCommits \cup {work[p].merged}
  <2> DEFINE d == [commit |-> work[p].merged, origin |-> req[p].target]
             s == SubSeq(loaded[p], 1, IF loaded[p] = <<>> THEN 0 ELSE 1)
  <2>1. deployed' = <<d>> \o s
    BY <1>2 DEF NewDeployments
  <2>2. /\ s \in Seq(DeploymentType)
        /\ \A j \in 1..Len(s) : j \in 1..Len(deployed) /\ s[j] = deployed[j]
    <3>1. CASE loaded[p] = <<>>
      BY <3>1
    <3>2. CASE loaded[p] # <<>>
      <4>1. loaded[p] = deployed /\ Len(deployed) \in Nat \ {0}
        BY <1>1, <1>2, <3>2
      <4>2. QED
        BY <1>1, <3>2, <4>1
    <3>3. QED
      BY <3>1, <3>2
  <2>3. \A j \in 1..Len(s) : s[j].commit \in DeployedCommits
    <3> HIDE DEF d, s
    <3> QED BY <1>1, <2>2 DEF DeployedCommits
  <2>4. k = 1 => deployed'[k] = d
    <3> HIDE DEF d, s
    <3> QED BY <2>1, <2>2
  <2>5. k # 1 => k - 1 \in 1..Len(s) /\ deployed'[k] = s[k - 1]
    <3> HIDE DEF d, s
    <3> QED BY <1>2, <2>1, <2>2
  <2>6. QED
    BY <2>3, <2>4, <2>5
<1>3. ASSUME NEW k \in 1..2, Undeploy(k), NEW j \in DOMAIN deployed'
      PROVE  deployed'[j].commit \in DeployedCommits
  <2>1. k \in 1..Len(deployed)
    BY <1>1, <1>3 DEF Undeploy
  <2>2. CASE k = 1
    <3>1. deployed' = Tail(deployed) /\ deployed # <<>>
      BY <1>1, <1>3, <2>1, <2>2 DEF Undeploy
    <3>2. j + 1 \in 1..Len(deployed) /\ deployed'[j] = deployed[j + 1]
      BY <1>1, <1>3, <3>1
    <3>3. QED
      BY <1>1, <3>2 DEF DeployedCommits
  <2>3. CASE k = 2
    <3>1. deployed' = SubSeq(deployed, 1, 1) /\ 1 \in 1..Len(deployed)
      BY <1>1, <1>3, <2>1, <2>3 DEF Undeploy
    <3>2. j = 1 /\ deployed'[j] = deployed[1]
      BY <1>1, <1>3, <3>1
    <3>3. QED
      BY <1>1, <3>1, <3>2 DEF DeployedCommits
  <2>4. QED
    BY <2>2, <2>3
<1>4. QED
  BY <1>2, <1>3 DEF DeployedCommits

(***************************************************************************)
(* The steps of a deployment keep the types and the phases.                *)
(***************************************************************************)
LEMMA DeployType ==
    ASSUME TypeOK, PhaseOK, NEW p \in Procs, DeployStep(p)
    PROVE  TypeOK' /\ PhaseOK'
<1>a. PhaseOf(pc[p], req[p], work[p]) /\ req[p] \in Requests /\ work[p] \in WorkType
  BY WorkFields DEF PhaseOK
<1>b. req' = [req EXCEPT ![p] = req[p]] /\ work' = [work EXCEPT ![p] = work[p]]
  BY Unchanged DEF DeployStep, DeployTree, WriteDeployment, Cleanup, StageDeploy, DeployFails,
                   FilteredWarning
<1>1. RepoTypeOK'
  <2>1. CASE WriteDeployment(p) \/ StageDeploy(p)
    <3>1. work[p].merged \in Commits
      BY <1>a, <2>1 DEF WriteDeployment, StageDeploy, At, PhaseOf
    <3>2. QED
      BY <2>1, <3>1, DeploymentTypes DEF WriteDeployment, StageDeploy, TypeOK, RepoTypeOK
  <2>2. CASE Cleanup(p)
    BY <2>2, PruneType DEF Cleanup, TypeOK, RepoTypeOK
  <2>3. CASE DeployTree(p) \/ DeployFails(p) \/ FilteredWarning(p)
    BY <2>3 DEF DeployTree, DeployFails, FilteredWarning, TypeOK, RepoTypeOK, repoVars
  <2>4. QED
    BY <2>1, <2>2, <2>3 DEF DeployStep
<1>2. PICK l \in {"write", "cleanup", "warn", "done", "failed"} :
         pc' = [pc EXCEPT ![p] = l] /\ (l = "write" => At(p, "deploy"))
  BY DEF DeployStep, DeployTree, WriteDeployment, Cleanup, StageDeploy, DeployFails,
         FilteredWarning, Go
<1>3. l \in PCs /\ PhaseOf(l, req[p], work[p])
  BY <1>a, <1>2 DEF PCs, Ended, PhaseOf, At
<1>4. ProcTypeOK' /\ PhaseOK'
  BY <1>a, <1>b, <1>2, <1>3, LocalStep
<1>5. QED
  BY <1>1, <1>4 DEF TypeOK

(***************************************************************************)
(* The steps of a removal keep the types and the phases.                   *)
(***************************************************************************)
LEMMA RemoveType ==
    ASSUME TypeOK, PhaseOK, NEW p \in Procs, RemoveStep(p)
    PROVE  TypeOK' /\ PhaseOK'
<1>a. PhaseOf(pc[p], req[p], work[p]) /\ req[p] \in Requests /\ work[p] \in WorkType
  BY WorkFields DEF PhaseOK
<1>b. req' = [req EXCEPT ![p] = req[p]]
  BY Unchanged DEF RemoveStep, TryLock, ListUndeployed, RemoveImage, RemoveDone, Prune, PruneFails
<1>1. CASE ListUndeployed(p)
  <2> DEFINE w == [work[p] EXCEPT !.todo = UndeployedImages(p)]
  <2>1. w \in WorkType
    BY <1>a, SetFields DEF UndeployedImages
  <2>2. "remove" \in PCs /\ PhaseOf("remove", req[p], w)
    BY <1>1, <1>a DEF ListUndeployed, At, PhaseOf, PCs
  <2>3. pc' = [pc EXCEPT ![p] = "remove"] /\ work' = [work EXCEPT ![p] = w]
    BY <1>1 DEF ListUndeployed, Go, Remember
  <2>4. ProcTypeOK' /\ PhaseOK'
    <3> HIDE DEF w
    <3> QED BY <1>a, <1>b, <2>1, <2>2, <2>3, LocalStep
  <2>5. QED
    BY <1>1, <2>4 DEF ListUndeployed, TypeOK, RepoTypeOK, repoVars
<1>2. ASSUME NEW i \in Images, RemoveImage(p, i) PROVE TypeOK' /\ PhaseOK'
  <2> DEFINE b == req[p].op = "remove" /\ imageRef[i] = NoCommit
             w == [work[p] EXCEPT !.todo = @ \ {i}, !.removed = @ \cup {i}, !.missing = @ \/ b]
  <2>1. b \in BOOLEAN
    OBVIOUS
  <2>2. w \in WorkType
    <3> HIDE DEF b
    <3> QED BY <1>a, <2>1, SetFields
  <2>3. pc[p] \in PCs /\ PhaseOf(pc[p], req[p], w)
    BY <1>2, <1>a, WorkFields DEF RemoveImage, At, PhaseOf
  <2>4. pc' = [pc EXCEPT ![p] = pc[p]] /\ work' = [work EXCEPT ![p] = w]
    BY <1>2, Unchanged DEF RemoveImage, Remember
  <2>5. ProcTypeOK' /\ PhaseOK'
    <3> HIDE DEF w
    <3> QED BY <1>a, <1>b, <2>2, <2>3, <2>4, LocalStep
  <2>6. RepoTypeOK'
    BY <1>2 DEF RemoveImage, TypeOK, RepoTypeOK
  <2>7. QED
    BY <2>5, <2>6 DEF TypeOK
<1>3. CASE RemoveDone(p)
  <2> DEFINE l == AfterRemove(req[p], work[p])
  <2>1. l \in PCs
    BY LabelTypes
  <2>2. PhaseOf(l, req[p], work[p])
    BY <1>3, <1>a DEF RemoveDone, At, PhaseOf, AfterRemove
  <2>3. pc' = [pc EXCEPT ![p] = l] /\ work' = [work EXCEPT ![p] = work[p]]
    BY <1>3, Unchanged DEF RemoveDone, Go
  <2>4. ProcTypeOK' /\ PhaseOK'
    <3> HIDE DEF l
    <3> QED BY <1>a, <1>b, <2>1, <2>2, <2>3, LocalStep
  <2>5. QED
    BY <1>3, <2>4 DEF RemoveDone, TypeOK, RepoTypeOK, repoVars
<1>4. CASE Prune(p)
  <2>1. RepoTypeOK'
    BY <1>4, PruneType DEF Prune, TypeOK, RepoTypeOK
  <2>2. "done" \in PCs /\ PhaseOf("done", req[p], work[p])
    BY DEF PCs, Ended, PhaseOf
  <2>3. pc' = [pc EXCEPT ![p] = "done"] /\ work' = [work EXCEPT ![p] = work[p]]
    BY <1>4, Unchanged DEF Prune, Go
  <2>4. ProcTypeOK' /\ PhaseOK'
    BY <1>a, <1>b, <2>2, <2>3, LocalStep
  <2>5. QED
    BY <2>1, <2>4 DEF TypeOK
<1>5. CASE TryLock(p) \/ PruneFails(p)
  <2>1. RepoTypeOK' /\ work' = [work EXCEPT ![p] = work[p]]
    BY <1>5, Unchanged DEF TryLock, PruneFails, TypeOK, RepoTypeOK, repoVars
  <2>2. PICK l \in {"list", "failed"} : pc' = [pc EXCEPT ![p] = l] /\ (l = "list" => At(p, "lock"))
    BY <1>5 DEF TryLock, PruneFails, Go
  <2>3. l \in PCs /\ PhaseOf(l, req[p], work[p])
    BY <1>a, <2>2 DEF PCs, Ended, PhaseOf, At
  <2>4. ProcTypeOK' /\ PhaseOK'
    BY <1>a, <1>b, <2>1, <2>2, <2>3, LocalStep
  <2>5. QED
    BY <2>1, <2>4 DEF TypeOK
<1>6. QED
  BY <1>1, <1>2, <1>3, <1>4, <1>5 DEF RemoveStep

(***************************************************************************)
(* The steps of a copy keep the types and the phases.                      *)
(***************************************************************************)
LEMMA CopyType ==
    ASSUME TypeOK, PhaseOK, NEW p \in Procs, CopyStep(p)
    PROVE  TypeOK' /\ PhaseOK'
<1>a. PhaseOf(pc[p], req[p], work[p]) /\ req[p] \in Requests /\ work[p] \in WorkType
  BY WorkFields DEF PhaseOK
<1>b. req' = [req EXCEPT ![p] = req[p]]
  BY Unchanged DEF CopyStep, CopyLayer, CopyCommit, CopyRef
<1>c. work[p].manifest \in Manifests /\ work[p].idx \in Nat \ {0}
  BY <1>a DEF CopyStep, CopyLayer, CopyCommit, CopyRef, At, PhaseOf, WorkType
<1>1. CASE CopyLayer(p)
  <2> DEFINE l == CopyOrder(work[p].manifest)[work[p].idx]
             w == [work[p] EXCEPT !.idx = @ + 1]
  <2>1. l \in Layers /\ BaseLayers(work[p].manifest) \subseteq Layers
    BY <1>1, <1>c, OrderTypes DEF CopyLayer
  <2>2. w \in WorkType
    BY <1>a, SetFields
  <2>3. w.manifest = work[p].manifest
    BY <1>a DEF WorkType
  <2>4. pc' = [pc EXCEPT ![p] = pc[p]] /\ work' = [work EXCEPT ![p] = w]
    BY <1>1, Unchanged DEF CopyLayer, Remember
  <2>5. pc[p] \in PCs /\ PhaseOf(pc[p], req[p], w)
    BY <1>1, <1>a, <2>3, WorkFields DEF CopyLayer, At, PhaseOf
  <2>6. ProcTypeOK' /\ PhaseOK'
    <3> HIDE DEF w
    <3> QED BY <1>a, <1>b, <2>2, <2>4, <2>5, LocalStep
  <2>7. RepoTypeOK'
    BY <1>1, <2>1 DEF CopyLayer, TypeOK, RepoTypeOK
  <2>8. QED
    BY <2>6, <2>7 DEF TypeOK
<1>2. CASE CopyCommit(p)
  <2> DEFINE m == work[p].manifest
             c == [manifest |-> m, filtered |-> Filtered \cap Elems(Layout[m].derived)]
             w == [work[p] EXCEPT !.merged = c]
  <2>1. c \in Commits
    BY <1>c DEF Commits
  <2>2. w \in WorkType
    BY <1>a, <2>1, SetFields
  <2>3. w.manifest = m
    BY <1>a DEF WorkType
  <2>4. pc' = [pc EXCEPT ![p] = pc[p]] /\ work' = [work EXCEPT ![p] = w]
    BY <1>2, Unchanged DEF CopyCommit, Remember
  <2>5. pc[p] \in PCs /\ PhaseOf(pc[p], req[p], w)
    BY <1>2, <1>a, <2>3, WorkFields DEF CopyCommit, At, PhaseOf
  <2>6. ProcTypeOK' /\ PhaseOK'
    <3> HIDE DEF w
    <3> QED BY <1>a, <1>b, <2>2, <2>4, <2>5, LocalStep
  <2>7. RepoTypeOK'
    BY <1>2, <2>1 DEF CopyCommit, TypeOK, RepoTypeOK
  <2>8. QED
    BY <2>6, <2>7 DEF TypeOK
<1>3. CASE CopyRef(p)
  <2>1. RepoTypeOK'
    BY <1>3, WorkFields, RequestTypes DEF CopyRef, TypeOK, RepoTypeOK
  <2>2. "done" \in PCs /\ PhaseOf("done", req[p], work[p])
    BY DEF PCs, Ended, PhaseOf
  <2>3. pc' = [pc EXCEPT ![p] = "done"] /\ work' = [work EXCEPT ![p] = work[p]]
    BY <1>3, Unchanged DEF CopyRef, Go
  <2>4. ProcTypeOK' /\ PhaseOK'
    BY <1>a, <1>b, <2>2, <2>3, LocalStep
  <2>5. QED
    BY <2>1, <2>4 DEF TypeOK
<1>4. QED
  BY <1>1, <1>2, <1>3 DEF CopyStep

(***************************************************************************)
(* Starting and ending an operation keeps the types and the phases.        *)
(***************************************************************************)
LEMMA BeginType ==
    ASSUME TypeOK, PhaseOK, NEW p \in Procs, NEW r \in Requests, Begin(p, r)
    PROVE  TypeOK' /\ PhaseOK'
<1> DEFINE l == FirstLabel(r.op)
<1>1. PICK m \in (IF r.op = "copy" THEN Manifests \ Unreadable ELSE {NoManifest}) :
         work' = [work EXCEPT ![p] = [NoWork EXCEPT !.todo = r.imgs, !.manifest = m]]
  BY DEF Begin, Remember
<1> DEFINE w == [NoWork EXCEPT !.todo = r.imgs, !.manifest = m]
<1>2. w \in WorkType /\ l \in PCs
  BY NoWorkType, SetFields, LabelTypes, RequestTypes
<1>3. w.manifest = m
  BY DEF NoWork
<1>4. PhaseOf(l, r, w)
  BY <1>3, RequestTypes DEF PhaseOf, FirstLabel, Ops, LockedOps, Imports
<1>5. pc' = [pc EXCEPT ![p] = l] /\ req' = [req EXCEPT ![p] = r] /\ work' = [work EXCEPT ![p] = w]
  BY <1>1 DEF Begin, Go
<1>6. ProcTypeOK' /\ PhaseOK'
  <2> HIDE DEF w, l
  <2> QED BY <1>2, <1>4, <1>5, LocalStep
<1>7. loaded' \in [Procs -> Seq(DeploymentType)]
  BY DEF Begin, TypeOK, RepoTypeOK
<1>8. QED
  BY <1>6, <1>7 DEF Begin, TypeOK, RepoTypeOK, repoVars

LEMMA EndType ==
    ASSUME TypeOK, PhaseOK, NEW p \in Procs, Abort(p) \/ Reap(p)
    PROVE  TypeOK' /\ PhaseOK'
<1>1. PICK r \in Requests : req' = [req EXCEPT ![p] = r]
  BY WorkFields, RequestTypes, Unchanged DEF Abort, Reap
<1>2. PICK l \in {"idle", "aborted"} : pc' = [pc EXCEPT ![p] = l]
  BY DEF Abort, Reap, Go
<1>3. l \in PCs /\ PhaseOf(l, r, NoWork) /\ NoWork \in WorkType
  BY NoWorkType DEF PCs, Ended, PhaseOf
<1>4. work' = [work EXCEPT ![p] = NoWork]
  BY DEF Abort, Reap, Remember
<1>5. ProcTypeOK' /\ PhaseOK'
  BY <1>1, <1>2, <1>3, <1>4, LocalStep
<1>6. loaded' \in [Procs -> Seq(DeploymentType)] /\ lock' \subseteq Procs
  <2>1. <<>> \in Seq(DeploymentType)
    OBVIOUS
  <2>2. CASE Abort(p)
    BY <2>2 DEF Abort, TypeOK, RepoTypeOK
  <2>3. CASE Reap(p)
    BY <2>1, <2>3 DEF Reap, TypeOK, RepoTypeOK
  <2>4. QED
    BY <2>2, <2>3
<1>7. QED
  BY <1>5, <1>6 DEF Abort, Reap, TypeOK, RepoTypeOK, repoVars

(***************************************************************************)
(* The world outside keeps the types.                                      *)
(***************************************************************************)
LEMMA OutsideType ==
    ASSUME TypeOK, PhaseOK,
           (\E i \in Images, m \in Manifests : Push(i, m)) \/ (\E k \in 1..2 : Undeploy(k))
    PROVE  TypeOK' /\ PhaseOK'
<1>1. ProcTypeOK' /\ PhaseOK'
  BY DEF Push, Undeploy, TypeOK, ProcTypeOK, PhaseOK
<1>2. ASSUME NEW i \in Images, NEW m \in Manifests, Push(i, m) PROVE RepoTypeOK'
  BY <1>2 DEF Push, TypeOK, RepoTypeOK, repoVars
<1>3. ASSUME NEW k \in 1..2, Undeploy(k) PROVE RepoTypeOK'
  <2>1. deployed \in Seq(DeploymentType) /\ Len(deployed) \in Nat /\ Len(deployed) <= 2
    BY DEF TypeOK, RepoTypeOK
  <2>2. k \in 1..Len(deployed)
    BY <1>3, <2>1 DEF Undeploy
  <2>3. CASE k = 1
    <3>1. deployed' = Tail(deployed) /\ deployed # <<>>
      BY <1>3, <2>1, <2>2, <2>3 DEF Undeploy
    <3>2. deployed' \in Seq(DeploymentType) /\ Len(deployed') <= 2
      BY <2>1, <3>1
    <3>3. QED
      BY <1>3, <3>2 DEF Undeploy, TypeOK, RepoTypeOK
  <2>4. CASE k = 2
    <3>1. deployed' = SubSeq(deployed, 1, 1) /\ 1 \in 1..Len(deployed)
      BY <1>3, <2>1, <2>2, <2>4 DEF Undeploy
    <3>2. deployed' \in Seq(DeploymentType) /\ Len(deployed') <= 2
      BY <2>1, <3>1
    <3>3. QED
      BY <1>3, <3>2 DEF Undeploy, TypeOK, RepoTypeOK
  <2>5. QED
    BY <2>3, <2>4
<1>4. QED
  BY <1>1, <1>2, <1>3 DEF TypeOK

(***************************************************************************)
(* Every variable always has its type, and every process always has what   *)
(* the step it is at needs.  The types alone are not inductive: a fetch    *)
(* reads the layers of the manifest that the process remembers.            *)
(***************************************************************************)
THEOREM TypeCorrect == Spec => []TypeInv
<1>1. Init => TypeInv
  BY InitType DEF Init, PhaseOK, PhaseOf, TypeInv
<1>2. TypeInv /\ [Next]_vars => TypeInv'
  <2> SUFFICES ASSUME TypeOK, PhaseOK, [Next]_vars PROVE TypeOK' /\ PhaseOK'
    BY DEF TypeInv
  <2>1. CASE UNCHANGED vars
    BY <2>1 DEF vars, TypeOK, RepoTypeOK, ProcTypeOK, PhaseOK
  <2>2. ASSUME NEW p \in Procs, Step(p) PROVE TypeOK' /\ PhaseOK'
    BY <2>2, ImportType, GcType, DeployType, RemoveType, CopyType DEF Step
  <2>3. QED
    BY <2>1, <2>2, BeginType, EndType, OutsideType DEF Next
<1>3. QED
  BY <1>1, <1>2, PTL DEF Spec

-----------------------------------------------------------------------------
(***************************************************************************)
(* What holds however operations overlap: no image ref and no layer ref    *)
(* dangles.                                                                *)
(***************************************************************************)

(***************************************************************************)
(* Pruning keeps what the refs name.                                       *)
(***************************************************************************)
LEMMA PruneKeeps ==
    ASSUME RefsResolve, NEW K, PruneObjects(K), ImageCommits \subseteq K
    PROVE  ImageCommits \subseteq mergeObjs' /\ layerRef \subseteq layerObjs' \cup cut
BY DEF RefsResolve, PruneObjects, ReachableLayers

(***************************************************************************)
(* Storing a layer, whole or cut, sets its ref together with its objects.  *)
(***************************************************************************)
LEMMA StoreKeeps ==
    ASSUME NEW p, NEW l, StoreWhole(p, l) \/ StoreCut(p, l), layerRef \subseteq layerObjs \cup cut
    PROVE  layerRef' \subseteq layerObjs' \cup cut'
BY DEF StoreWhole, StoreCut

(***************************************************************************)
(* A deployment sets no ref of these kinds.                                *)
(***************************************************************************)
LEMMA DeployResolves ==
    ASSUME TypeOK, RefsResolve, NEW p \in Procs, DeployStep(p)
    PROVE  RefsResolve'
<1>1. CASE Cleanup(p)
  <2>1. PruneObjects(RefCommits) /\ ImageCommits' = ImageCommits /\ layerRef' = layerRef /\ cut' = cut
    BY <1>1 DEF Cleanup, ImageCommits
  <2>2. QED
    BY <2>1, PruneKeeps DEF RefsResolve, RefCommits
<1>2. CASE ~Cleanup(p)
  BY <1>2 DEF DeployStep, DeployTree, WriteDeployment, StageDeploy, DeployFails, FilteredWarning,
              repoVars, RefsResolve, ImageCommits
<1>3. QED
  BY <1>1, <1>2

(***************************************************************************)
(* An import sets the ref of a layer, and of an image, in the transaction  *)
(* that stores what it names.                                              *)
(***************************************************************************)
LEMMA ImportResolves ==
    ASSUME TypeOK, RefsResolve, NEW p \in Procs, ImportStep(p)
    PROVE  RefsResolve'
<1>1. CASE FetchLayer(p) \/ LateCommit(p)
  <2>1. ImageCommits' = ImageCommits /\ mergeObjs' = mergeObjs
    BY <1>1 DEF FetchLayer, LateCommit, ImageCommits
  <2>2. \/ StoreWhole(p, NextLayer(p)) \/ StoreCut(p, NextLayer(p))
        \/ UNCHANGED <<layerRef, layerObjs, cut>>
    BY <1>1 DEF FetchLayer, LateCommit
  <2>3. layerRef' \subseteq layerObjs' \cup cut'
    BY <2>2, StoreKeeps DEF RefsResolve
  <2>4. QED
    BY <2>1, <2>3 DEF RefsResolve
<1>2. CASE Merge(p)
  <2> DEFINE c == [manifest |-> work[p].manifest, filtered |-> work[p].filtered]
  <2>1. \A x \in ImageCommits' : x \in ImageCommits \/ x = c
    BY <1>2 DEF Merge, WrittenRef, ImageCommits, TypeOK, RepoTypeOK
  <2>2. QED
    BY <1>2, <2>1 DEF Merge, RefsResolve
<1>3. CASE Prepare(p) \/ CachePending(p) \/ ReuseLayer(p) \/ FetchFails(p) \/ MissingObjects(p)
           \/ UnencapsulateDone(p) \/ Requery(p)
  BY <1>3 DEF Prepare, CachePending, ReuseLayer, FetchFails, MissingObjects, UnencapsulateDone,
              Requery, repoVars, RefsResolve, ImageCommits
<1>4. QED
  BY <1>1, <1>2, <1>3 DEF ImportStep

(***************************************************************************)
(* Collections and removals only delete refs, and prune keeps the rest.    *)
(***************************************************************************)
LEMMA CleanupResolves ==
    ASSUME TypeOK, RefsResolve, NEW p \in Procs, GcStep(p) \/ RemoveStep(p)
    PROVE  RefsResolve'
<1>1. CASE GcStep(p)
  <2>1. /\ imageRef' = imageRef /\ layerRef' \subseteq layerRef
        /\ layerObjs' = layerObjs /\ mergeObjs' = mergeObjs /\ cut' = cut
    BY <1>1 DEF GcStep, GcList, GcDeployments, GcResolve, GcFails, GcScan, GcSweep, GcDone, repoVars
  <2>2. QED
    BY <2>1 DEF RefsResolve, ImageCommits
<1>2. CASE Prune(p)
  <2>1. PruneObjects(RefCommits) /\ ImageCommits' = ImageCommits /\ layerRef' = layerRef /\ cut' = cut
    BY <1>2 DEF Prune, ImageCommits
  <2>2. QED
    BY <2>1, PruneKeeps DEF RefsResolve, RefCommits
<1>3. ASSUME NEW i \in Images, RemoveImage(p, i) PROVE RefsResolve'
  <2>1. ImageCommits' \subseteq ImageCommits
    BY <1>3 DEF RemoveImage, ImageCommits, TypeOK, RepoTypeOK
  <2>2. QED
    BY <1>3, <2>1 DEF RemoveImage, RefsResolve
<1>4. CASE TryLock(p) \/ ListUndeployed(p) \/ RemoveDone(p) \/ PruneFails(p)
  BY <1>4 DEF TryLock, ListUndeployed, RemoveDone, PruneFails, repoVars, RefsResolve, ImageCommits
<1>5. QED
  BY <1>1, <1>2, <1>3, <1>4 DEF RemoveStep

(***************************************************************************)
(* Whatever processes run, are interrupted and overlap, no image ref and   *)
(* no layer ref dangles, as long as no image is copied into the            *)
(* repository: copy() sets the image ref after the transaction that pulled *)
(* the commit, and a prune in between deletes it.  Nothing is said of what *)
(* deploy() and --write-ref name, which a prune can delete the same way.   *)
(***************************************************************************)
THEOREM RefsNeverDangle ==
    ASSUME \A r \in Requests : r.op # "copy"
    PROVE  Spec => []RefsResolve
<1>1. Init => RefsResolve
  BY DEF Init, RefsResolve, ImageCommits
<1>2. TypeInv /\ RefsResolve /\ [Next]_vars => RefsResolve'
  <2> SUFFICES ASSUME TypeOK, PhaseOK, RefsResolve, [Next]_vars PROVE RefsResolve'
    BY DEF TypeInv
  <2> USE DEF RefsResolve, ImageCommits
  <2>1. CASE UNCHANGED vars
    BY <2>1 DEF vars
  <2>2. ASSUME NEW p \in Procs, CopyStep(p) PROVE FALSE
    <3>1. pc[p] = "copy"
      BY <2>2 DEF CopyStep, CopyLayer, CopyCommit, CopyRef, At
    <3>2. req[p].op = "copy" /\ req[p] \in Requests
      BY <3>1, WorkFields DEF PhaseOK, PhaseOf
    <3>3. QED
      BY <3>2
  <2>3. ASSUME NEW p \in Procs, Step(p) PROVE RefsResolve'
    BY <2>2, <2>3, ImportResolves, CleanupResolves, DeployResolves DEF Step
  <2>4. ASSUME NEW p \in Procs, (\E r \in Requests : Begin(p, r)) \/ Abort(p) \/ Reap(p)
        PROVE  RefsResolve'
    BY <2>4 DEF Begin, Abort, Reap, repoVars
  <2>5. ASSUME NEW i \in Images, NEW m \in Manifests, Push(i, m) PROVE RefsResolve'
    BY <2>5 DEF Push, repoVars
  <2>6. ASSUME NEW k \in 1..2, Undeploy(k) PROVE RefsResolve'
    BY <2>6 DEF Undeploy
  <2>7. QED
    BY <2>1, <2>3, <2>4, <2>5, <2>6 DEF Next
<1>3. QED
  BY <1>1, <1>2, TypeCorrect, PTL DEF Spec

-----------------------------------------------------------------------------
(***************************************************************************)
(* What holds when callers run one operation at a time: the refs of the    *)
(* layers of every stored image, and of every deployed one, survive every  *)
(* import, removal, collection, prune and crash.                           *)
(***************************************************************************)

(***************************************************************************)
(* The elements of a concatenation.                                        *)
(***************************************************************************)
LEMMA ElemsConcat ==
    ASSUME NEW s \in Seq(Layers), NEW t \in Seq(Layers)
    PROVE  Elems(s \o t) = Elems(s) \cup Elems(t)
<1>1. Elems(s \o t) \subseteq Elems(s) \cup Elems(t)
  BY DEF Elems
<1>2. Elems(s) \subseteq Elems(s \o t)
  BY DEF Elems
<1>3. Elems(t) \subseteq Elems(s \o t)
  <2> SUFFICES ASSUME NEW k \in 1..Len(t) PROVE t[k] \in Elems(s \o t)
    BY DEF Elems
  <2>1. k + Len(s) \in DOMAIN (s \o t) /\ (s \o t)[k + Len(s)] = t[k]
    OBVIOUS
  <2>2. QED
    BY <2>1 DEF Elems
<1>4. QED
  BY <1>1, <1>2, <1>3

(***************************************************************************)
(* import and copy go through the same layers.                             *)
(***************************************************************************)
LEMMA SameLayers ==
    ASSUME NEW m \in Manifests
    PROVE  Elems(CopyOrder(m)) = LayersOf(m)
<1> DEFINE b == <<Layout[m].base>>
           c == Layout[m].chunks
           d == Layout[m].derived
           cd == c \o d
           bd == b \o d
<1>1. b \in Seq(Layers) /\ c \in Seq(Layers) /\ d \in Seq(Layers)
  BY LayoutAssumption
<1> HIDE DEF b, c, d
<1>2. cd \in Seq(Layers) /\ bd \in Seq(Layers)
  BY <1>1
<1>3. Elems(cd) = Elems(c) \cup Elems(d) /\ Elems(bd) = Elems(b) \cup Elems(d)
  BY <1>1, ElemsConcat
<1> HIDE DEF cd, bd
<1>4. Elems(b \o cd) = Elems(b) \cup Elems(cd) /\ Elems(c \o bd) = Elems(c) \cup Elems(bd)
  BY <1>1, <1>2, ElemsConcat
<1>5. Elems(b \o cd) = Elems(c \o bd)
  BY <1>3, <1>4
<1>6. QED
  BY <1>5 DEF CopyOrder, FetchOrder, LayersOf, b, c, d, cd, bd

(***************************************************************************)
(* A process that steps is not idle, and the others do not move.           *)
(***************************************************************************)
LEMMA StepMoves ==
    ASSUME TypeOK, NEW p \in Procs, Step(p)
    PROVE  /\ pc[p] # "idle"
           /\ req' = req /\ loaded' = loaded
           /\ \A q \in Procs \ {p} : pc'[q] = pc[q] /\ work'[q] = work[q]
<1> USE DEF TypeOK, ProcTypeOK, At, Go, Remember
<1>1. CASE ImportStep(p)
  BY <1>1 DEF ImportStep, Prepare, CachePending, ReuseLayer, FetchLayer, FetchFails, LateCommit,
              CanFetch, MissingObjects, Merge, UnencapsulateDone, Requery
<1>2. CASE GcStep(p)
  BY <1>2 DEF GcStep, GcList, GcDeployments, GcResolve, GcFails, GcScan, GcDone, GcSweep
<1>3. CASE DeployStep(p)
  BY <1>3 DEF DeployStep, DeployTree, WriteDeployment, Cleanup, StageDeploy, DeployFails,
              FilteredWarning
<1>4. CASE RemoveStep(p)
  BY <1>4 DEF RemoveStep, TryLock, ListUndeployed, RemoveImage, RemoveDone, Prune, PruneFails
<1>5. CASE CopyStep(p)
  BY <1>5 DEF CopyStep, CopyLayer, CopyCommit, CopyRef
<1>6. QED
  BY <1>1, <1>2, <1>3, <1>4, <1>5 DEF Step

(***************************************************************************)
(* Callers that take turns leave at most one process that is not idle.     *)
(***************************************************************************)
LEMMA TakeTurns ==
    ASSUME Serial, TypeOK, Exclusive, Next
    PROVE  Exclusive'
<1>1. ASSUME NEW p \in Procs, Step(p) PROVE Exclusive'
  BY <1>1, StepMoves DEF Exclusive, At
<1>2. ASSUME NEW p \in Procs, NEW r \in Requests, Begin(p, r) PROVE Exclusive'
  BY <1>2 DEF Begin, Exclusive, At, Go, TypeOK, ProcTypeOK
<1>3. ASSUME NEW p \in Procs, Abort(p) \/ Reap(p) PROVE Exclusive'
  BY <1>3 DEF Abort, Reap, Running, Ended, Exclusive, At, Go, TypeOK, ProcTypeOK
<1>4. CASE (\E i \in Images, m \in Manifests : Push(i, m)) \/ (\E k \in 1..2 : Undeploy(k))
  BY <1>4 DEF Push, Undeploy, Exclusive, At
<1>5. QED
  BY <1>1, <1>2, <1>3, <1>4 DEF Next

(***************************************************************************)
(* Then it suffices to look at the process that steps, and an idle process *)
(* has made no progress that could be lost.                                *)
(***************************************************************************)
LEMMA ProgressAlone ==
    ASSUME TypeOK, Exclusive, NEW p \in Procs, Step(p), ProgressAt(p)'
    PROVE  ProgressOK'
<1>1. \A q \in Procs \ {p} : pc'[q] = "idle"
  BY StepMoves DEF Exclusive, At
<1>2. \A q \in Procs \ {p} : ProgressAt(q)'
  BY <1>1 DEF ProgressAt
<1>3. QED
  BY <1>2 DEF ProgressOK

LEMMA NoProgress ==
    ASSUME NEW p \in Procs,
           pc'[p] \notin {"prepare", "cache", "fetch", "copy", "manifests", "resolve", "sweep"}
    PROVE  ProgressAt(p)'
BY DEF ProgressAt

(***************************************************************************)
(* An import keeps every image complete: the layers it skips and the       *)
(* layers it stores have refs by the time it sets the image ref.           *)
(***************************************************************************)
LEMMA ImportProgress ==
    ASSUME TypeOK, PhaseOK, Exclusive, ProgressOK, ImagesComplete,
           NEW p \in Procs, ImportStep(p)
    PROVE  ProgressOK' /\ ImagesComplete'
<1>a. ProgressAt(p) /\ work[p] \in WorkType /\ work[p].idx \in Nat \ {0}
  BY WorkFields DEF ProgressOK
<1>b. Step(p)
  BY DEF Step
<1>c. PhaseOf(pc[p], req[p], work[p])
  BY DEF PhaseOK
<1>1. CASE Prepare(p)
  <2>1. pc'[p] = "cache" => work'[p].idx = work[p].idx
    <3> DEFINE m == tag[req[p].img]
               prev == TryQueryImage(req[p].img)
    <3>1. CASE AlreadyPresent(prev, m)
      BY <1>1, <3>1 DEF Prepare, Go, AfterPresent, TypeOK, ProcTypeOK
    <3>2. CASE ~AlreadyPresent(prev, m)
      <4>1. work'[p] = [work[p] EXCEPT !.manifest = m, !.prev = prev]
        BY <1>1, <3>2 DEF Prepare, Remember, TypeOK, ProcTypeOK
      <4>2. QED
        BY <1>a, <4>1 DEF WorkType
    <3>3. QED
      BY <3>1, <3>2
  <2>2. pc'[p] \in {"cache", "deploy", "failed", "done"}
    BY <1>1 DEF Prepare, Go, AfterPresent, TypeOK, ProcTypeOK
  <2>3. ProgressAt(p)'
    BY <1>1, <1>a, <2>1, <2>2 DEF Prepare, At, ProgressAt
  <2>4. QED
    BY <1>1, <1>b, <2>3, ProgressAlone DEF Prepare, repoVars, ImagesComplete, ImageCommits
<1>2. CASE CachePending(p)
  <2>1. pc'[p] \in {"fetch", "failed", "done"}
    BY <1>2 DEF CachePending, Go, TypeOK, ProcTypeOK
  <2>2. work'[p].have \subseteq layerRef /\ work'[p].idx = 1
    BY <1>2, <1>a DEF CachePending, PresentLayers, At, Remember, ProgressAt, TypeOK, ProcTypeOK,
                      WorkType
  <2>3. layerRef' = layerRef
    BY <1>2 DEF CachePending
  <2>4. ProgressAt(p)'
    BY <2>1, <2>2, <2>3 DEF ProgressAt
  <2>5. QED
    BY <1>2, <1>b, <2>4, ProgressAlone DEF CachePending, ImagesComplete, ImageCommits
<1>3. CASE ReuseLayer(p) \/ FetchLayer(p)
  <2> DEFINE m == work[p].manifest
             l == NextLayer(p)
  <2>1. /\ pc[p] = "fetch" /\ pc'[p] = "fetch"
        /\ work'[p].manifest = m /\ work'[p].have = work[p].have
        /\ work'[p].idx = work[p].idx + 1
        /\ req' = req
    <3>1. pc[p] = "fetch" /\ pc' = pc /\ req' = req
      BY <1>3 DEF ReuseLayer, FetchLayer, CanFetch, At
    <3>2. CASE ReuseLayer(p)
      <4>1. work'[p] = [work[p] EXCEPT !.idx = @ + 1]
        BY <3>2 DEF ReuseLayer, Remember, TypeOK, ProcTypeOK
      <4>2. QED
        BY <1>a, <3>1, <4>1 DEF WorkType
    <3>3. CASE FetchLayer(p)
      <4>1. work'[p] = [work[p] EXCEPT !.idx = @ + 1, !.filtered = @ \cup NewlyFiltered(p)]
        BY <3>3 DEF FetchLayer, Remember, TypeOK, ProcTypeOK
      <4>2. QED
        BY <1>a, <3>1, <4>1 DEF WorkType
    <3>4. QED
      BY <1>3, <3>2, <3>3
  <2>2. imageRef' = imageRef /\ layerRef \subseteq layerRef'
    BY <1>3 DEF ReuseLayer, FetchLayer, StoreWhole, repoVars
  <2>3. WritesRef(p) => l \in layerRef'
    BY <1>3, <1>a, <2>1 DEF ReuseLayer, FetchLayer, StoreWhole, ProgressAt, repoVars
  <2>4. ASSUME WritesRef(p), NEW k \in 1..Len(FetchOrder(m)), k < work[p].idx + 1
        PROVE  FetchOrder(m)[k] \in layerRef'
    <3>1. CASE k < work[p].idx
      BY <1>a, <2>1, <2>2, <2>4, <3>1 DEF ProgressAt
    <3>2. CASE k = work[p].idx
      BY <2>3, <2>4, <3>2 DEF NextLayer
    <3>3. m \in Manifests
      BY <1>c, <2>1 DEF PhaseOf
    <3>4. QED
      BY <1>a, <2>4, <3>1, <3>2, <3>3, OrderTypes
  <2>5. ProgressAt(p)'
    BY <1>a, <2>1, <2>2, <2>4 DEF ProgressAt, WritesRef
  <2>6. QED
    BY <1>b, <2>2, <2>5, ProgressAlone DEF ImagesComplete, ImageCommits
<1>4. CASE Merge(p)
  <2> DEFINE m == work[p].manifest
             c == [manifest |-> m, filtered |-> work[p].filtered]
  <2>1. m \in Manifests /\ pc[p] = "fetch" /\ WritesRef(p)
    BY <1>4, <1>c DEF Merge, At, PhaseOf
  <2>2. LayersOf(m) \subseteq layerRef
    <3>1. FetchOrder(m) \in Seq(Layers) /\ ~(work[p].idx <= Len(FetchOrder(m)))
      BY <1>4, <2>1, OrderTypes DEF Merge, MoreLayers
    <3>2. \A k \in 1..Len(FetchOrder(m)) : FetchOrder(m)[k] \in layerRef
      BY <1>a, <2>1, <3>1 DEF ProgressAt
    <3>3. QED
      BY <3>1, <3>2 DEF LayersOf, Elems
  <2>3. \A x \in ImageCommits' : x \in ImageCommits \/ x = c
    BY <1>4, RequestTypes, WorkFields DEF Merge, WrittenRef, ImageCommits, TypeOK, RepoTypeOK
  <2>4. ImagesComplete'
    BY <1>4, <2>2, <2>3 DEF Merge, ImagesComplete
  <2>5. pc'[p] \in {"mark", "requery"}
    BY <1>4 DEF Merge, Go, TypeOK, ProcTypeOK
  <2>6. QED
    BY <1>b, <2>4, <2>5, NoProgress, ProgressAlone
<1>5. CASE MissingObjects(p) \/ UnencapsulateDone(p) \/ Requery(p)
  <2>1. pc'[p] \in {"failed", "done", "deploy", "warn"}
    BY <1>5 DEF MissingObjects, UnencapsulateDone, Requery, Go, TypeOK, ProcTypeOK
  <2>2. imageRef' = imageRef /\ layerRef' = layerRef
    BY <1>5 DEF MissingObjects, UnencapsulateDone, Requery, repoVars
  <2>3. QED
    BY <1>b, <2>1, <2>2, NoProgress, ProgressAlone DEF ImagesComplete, ImageCommits
<1>6. CASE FetchFails(p) \/ LateCommit(p)
  <2>1. pc'[p] \in {"late", "aborted"}
    BY <1>6 DEF FetchFails, LateCommit, Go, TypeOK, ProcTypeOK
  <2>2. imageRef' = imageRef /\ layerRef \subseteq layerRef'
    BY <1>6 DEF FetchFails, LateCommit, StoreWhole, StoreCut, repoVars
  <2>3. QED
    BY <1>b, <2>1, <2>2, NoProgress, ProgressAlone DEF ImagesComplete, ImageCommits
<1>7. QED
  BY <1>1, <1>2, <1>3, <1>4, <1>5, <1>6 DEF ImportStep

(***************************************************************************)
(* A collection deletes no ref of a layer that an image or a deployment    *)
(* uses: nothing changes between marking and sweeping.                     *)
(***************************************************************************)
LEMMA GcProgress ==
    ASSUME TypeOK, Exclusive, ProgressOK, ImagesComplete, NEW p \in Procs, GcStep(p)
    PROVE  ProgressOK' /\ ImagesComplete'
<1>a. ProgressAt(p) /\ work[p] \in WorkType
  BY WorkFields DEF ProgressOK
<1>b. Step(p)
  BY DEF Step
<1>c. imageRef' = imageRef /\ deployed' = deployed
  BY DEF GcStep, GcList, GcDeployments, GcResolve, GcFails, GcScan, GcSweep, GcDone, repoVars
<1>d. /\ ReferencedLayers' = ReferencedLayers /\ ImageCommits' = ImageCommits
      /\ DeployedLayers' = DeployedLayers
  BY <1>c DEF ReferencedLayers, RefCommits, ImageCommits, DeployedCommits, DeployedLayers
<1>1. CASE GcList(p)
  <2>1. pc'[p] = "manifests" /\ work'[p].todo = {i \in Images : imageRef[i] # NoCommit}
    BY <1>1, <1>a DEF GcList, Go, Remember, TypeOK, ProcTypeOK, WorkType
  <2>2. ProgressAt(p)'
    BY <1>c, <2>1 DEF ProgressAt
  <2>3. QED
    BY <1>1, <1>b, <1>d, <2>2, ProgressAlone DEF GcList, repoVars, ImagesComplete
<1>5. CASE GcDeployments(p)
  <2>1. /\ pc[p] = "manifests" /\ pc'[p] = "resolve"
        /\ work'[p].todo = work[p].todo /\ work'[p].marked = DeployedLayers
    BY <1>5, <1>a DEF GcDeployments, At, Go, Remember, TypeOK, ProcTypeOK, WorkType
  <2>2. ProgressAt(p)'
    BY <1>a, <1>c, <1>d, <2>1 DEF ProgressAt
  <2>3. QED
    BY <1>5, <1>b, <1>d, <2>2, ProgressAlone DEF GcDeployments, repoVars, ImagesComplete
<1>6. ASSUME NEW i \in Images, GcResolve(p, i) PROVE ProgressOK' /\ ImagesComplete'
  <2>1. /\ pc[p] = "resolve" /\ pc'[p] = "resolve"
        /\ work'[p].todo = work[p].todo \ {i}
        /\ work'[p].marked = work[p].marked \cup LayersOf(imageRef[i].manifest)
    BY <1>6, <1>a DEF GcResolve, At, Remember, TypeOK, ProcTypeOK, WorkType
  <2>2. ProgressAt(p)'
    BY <1>a, <1>c, <1>d, <2>1 DEF ProgressAt
  <2>3. QED
    BY <1>6, <1>b, <1>d, <2>2, ProgressAlone DEF GcResolve, repoVars, ImagesComplete
<1>7. CASE GcFails(p)
  <2>1. pc'[p] = "failed"
    BY <1>7 DEF GcFails, Go, TypeOK, ProcTypeOK
  <2>2. QED
    BY <1>7, <1>b, <1>d, <2>1, NoProgress, ProgressAlone DEF GcFails, repoVars, ImagesComplete
<1>2. CASE GcScan(p)
  <2>1. pc'[p] = "sweep" /\ work'[p].found = layerRef \ work[p].marked
    BY <1>2, <1>a DEF GcScan, Go, Remember, TypeOK, ProcTypeOK, WorkType
  <2>2. ReferencedLayers \subseteq work[p].marked
    <3>1. /\ DeployedLayers \subseteq work[p].marked
          /\ \A c \in ImageCommits : LayersOf(c.manifest) \subseteq work[p].marked
      BY <1>2, <1>a DEF GcScan, At, ProgressAt, ImageCommits
    <3>2. QED
      BY <3>1 DEF ReferencedLayers, DeployedLayers, RefCommits
  <2>3. ProgressAt(p)'
    BY <1>d, <2>1, <2>2 DEF ProgressAt
  <2>4. QED
    BY <1>2, <1>b, <1>d, <2>3, ProgressAlone DEF GcScan, repoVars, ImagesComplete
<1>3. ASSUME NEW l \in Layers, GcSweep(p, l) PROVE ProgressOK' /\ ImagesComplete'
  <2>1. pc'[p] = "sweep" /\ work'[p].found = work[p].found \ {l} /\ layerRef' = layerRef \ {l}
    BY <1>3, <1>a DEF GcSweep, At, Remember, TypeOK, ProcTypeOK, WorkType
  <2>2. work[p].found \cap ReferencedLayers = {} /\ l \in work[p].found
    BY <1>3, <1>a DEF GcSweep, At, ProgressAt
  <2>3. ProgressAt(p)'
    BY <1>d, <2>1, <2>2 DEF ProgressAt
  <2>4. \A c \in ImageCommits : LayersOf(c.manifest) \subseteq ReferencedLayers
    BY DEF ReferencedLayers, RefCommits
  <2>5. QED
    BY <1>b, <1>d, <2>1, <2>2, <2>3, <2>4, ProgressAlone DEF ImagesComplete
<1>4. CASE GcDone(p)
  <2>1. pc'[p] \in {"requery", "prune", "done"}
    BY <1>4 DEF GcDone, Go, AfterGc, TypeOK, ProcTypeOK
  <2>2. QED
    BY <1>4, <1>b, <1>d, <2>1, NoProgress, ProgressAlone DEF GcDone, repoVars, ImagesComplete
<1>8. QED
  BY <1>1, <1>2, <1>3, <1>4, <1>5, <1>6, <1>7 DEF GcStep

(***************************************************************************)
(* Deploying and removing images deletes no ref of a layer.                *)
(***************************************************************************)
LEMMA DeployRemoveProgress ==
    ASSUME TypeOK, Exclusive, ProgressOK, ImagesComplete,
           NEW p \in Procs, DeployStep(p) \/ RemoveStep(p)
    PROVE  ProgressOK' /\ ImagesComplete'
<1>1. layerRef' = layerRef /\ ImageCommits' \subseteq ImageCommits
  BY DEF DeployStep, DeployTree, WriteDeployment, Cleanup, StageDeploy, DeployFails,
         FilteredWarning, RemoveStep, TryLock, ListUndeployed, RemoveImage, RemoveDone, Prune,
         PruneFails, repoVars, ImageCommits, TypeOK, RepoTypeOK
<1>2. pc'[p] \in {"write", "cleanup", "warn", "done", "failed", "list", "remove", "mark"}
  <2>1. CASE DeployStep(p)
    BY <2>1 DEF DeployStep, DeployTree, WriteDeployment, Cleanup, StageDeploy, DeployFails,
                FilteredWarning, Go, TypeOK, ProcTypeOK
  <2>2. CASE RemoveStep(p)
    BY <2>2 DEF RemoveStep, TryLock, ListUndeployed, RemoveImage, RemoveDone, Prune, PruneFails,
                AfterRemove, At, Go, TypeOK, ProcTypeOK
  <2>3. QED
    BY <2>1, <2>2
<1>3. QED
  BY <1>1, <1>2, NoProgress, ProgressAlone DEF Step, ImagesComplete

(***************************************************************************)
(* A copy sets its image ref when every layer has one.                     *)
(***************************************************************************)
LEMMA CopyProgress ==
    ASSUME TypeOK, PhaseOK, Exclusive, ProgressOK, ImagesComplete,
           NEW p \in Procs, CopyStep(p)
    PROVE  ProgressOK' /\ ImagesComplete'
<1> DEFINE m == work[p].manifest
<1>a. ProgressAt(p) /\ work[p] \in WorkType /\ work[p].idx \in Nat \ {0}
  BY WorkFields DEF ProgressOK
<1>b. Step(p)
  BY DEF Step
<1>c. pc[p] = "copy" /\ m \in Manifests /\ CopyOrder(m) \in Seq(Layers)
  BY OrderTypes DEF CopyStep, CopyLayer, CopyCommit, CopyRef, At, PhaseOK, PhaseOf
<1>1. CASE CopyLayer(p)
  <2>1. /\ pc'[p] = "copy" /\ work'[p].manifest = m /\ work'[p].merged = work[p].merged
        /\ work'[p].idx = work[p].idx + 1
        /\ work[p].idx <= Len(CopyOrder(m))
        /\ imageRef' = imageRef /\ layerRef' = layerRef \cup {CopyOrder(m)[work[p].idx]}
    BY <1>1, <1>a, <1>c DEF CopyLayer, Remember, TypeOK, ProcTypeOK, WorkType
  <2>2. work[p].merged = NoCommit
    BY <1>a, <1>c, <2>1 DEF ProgressAt
  <2>3. ASSUME NEW k \in 1..Len(CopyOrder(m)), k < work[p].idx + 1
        PROVE  CopyOrder(m)[k] \in layerRef'
    <3>1. CASE k < work[p].idx
      BY <1>a, <1>c, <2>1, <3>1 DEF ProgressAt
    <3>2. CASE k = work[p].idx
      BY <2>1, <3>2
    <3>3. QED
      BY <1>a, <1>c, <2>3, <3>1, <3>2
  <2>4. ProgressAt(p)'
    BY <2>1, <2>2, <2>3 DEF ProgressAt
  <2>5. QED
    BY <1>b, <2>1, <2>4, ProgressAlone DEF ImagesComplete, ImageCommits
<1>2. CASE CopyCommit(p)
  <2>1. /\ pc'[p] = "copy" /\ work'[p].manifest = m /\ work'[p].idx = work[p].idx
        /\ work'[p].merged.manifest = m
        /\ work[p].idx > Len(CopyOrder(m))
        /\ imageRef' = imageRef /\ layerRef' = layerRef
    BY <1>2, <1>a, <1>c DEF CopyCommit, Remember, TypeOK, ProcTypeOK, WorkType
  <2>2. ProgressAt(p)'
    BY <1>a, <1>c, <2>1 DEF ProgressAt
  <2>3. QED
    BY <1>b, <2>1, <2>2, ProgressAlone DEF ImagesComplete, ImageCommits
<1>3. CASE CopyRef(p)
  <2>1. work[p].merged.manifest = m /\ work[p].idx > Len(CopyOrder(m))
    BY <1>3, <1>a, <1>c DEF CopyRef, ProgressAt
  <2>2. \A k \in 1..Len(CopyOrder(m)) : CopyOrder(m)[k] \in layerRef
    BY <1>a, <1>c, <2>1 DEF ProgressAt
  <2>3. LayersOf(m) \subseteq layerRef
    BY <1>c, <2>2, SameLayers DEF Elems
  <2>4. \A x \in ImageCommits' : x \in ImageCommits \/ x = work[p].merged
    BY <1>3 DEF CopyRef, ImageCommits, TypeOK, RepoTypeOK
  <2>5. ImagesComplete'
    BY <1>3, <2>1, <2>3, <2>4 DEF CopyRef, ImagesComplete
  <2>6. pc'[p] = "done"
    BY <1>3 DEF CopyRef, Go, TypeOK, ProcTypeOK
  <2>7. QED
    BY <1>b, <2>5, <2>6, NoProgress, ProgressAlone
<1>4. QED
  BY <1>1, <1>2, <1>3 DEF CopyStep

(***************************************************************************)
(* Starting, ending and interrupting an operation, and the world outside.  *)
(***************************************************************************)
LEMMA OtherProgress ==
    ASSUME Serial, TypeOK, Exclusive, ProgressOK, ImagesComplete,
           \/ \E p \in Procs : (\E r \in Requests : Begin(p, r)) \/ Abort(p) \/ Reap(p)
           \/ \E i \in Images, m \in Manifests : Push(i, m)
           \/ \E k \in 1..2 : Undeploy(k)
    PROVE  ProgressOK' /\ ImagesComplete'
<1>1. ImagesComplete'
  BY DEF Begin, Abort, Reap, Push, Undeploy, repoVars, ImagesComplete, ImageCommits
<1>2. ASSUME NEW p \in Procs, NEW r \in Requests, Begin(p, r) PROVE ProgressOK'
  <2>1. \A q \in Procs \ {p} : pc'[q] = "idle"
    BY <1>2 DEF Begin, At, Go, TypeOK, ProcTypeOK
  <2>2. \A q \in Procs \ {p} : ProgressAt(q)'
    BY <2>1, NoProgress
  <2>3. work'[p].idx = 1 /\ work'[p].merged = NoCommit
    BY <1>2 DEF Begin, Remember, NoWork, TypeOK, ProcTypeOK
  <2>4. pc'[p] \in {"prepare", "copy", "remove", "mark", "lock"}
    BY <1>2, RequestTypes DEF Begin, Go, FirstLabel, LockedOps, Ops, TypeOK, ProcTypeOK
  <2>5. ProgressAt(p)'
    BY <2>3, <2>4 DEF ProgressAt
  <2>6. QED
    BY <2>2, <2>5 DEF ProgressOK
<1>3. ASSUME NEW p \in Procs, Abort(p) \/ Reap(p) PROVE ProgressOK'
  <2>1. \A q \in Procs : pc'[q] \in {"idle", "aborted"}
    BY <1>3 DEF Abort, Reap, Running, Ended, Exclusive, At, Go, TypeOK, ProcTypeOK
  <2>2. QED
    BY <2>1, NoProgress DEF ProgressOK
<1>4. ASSUME NEW i \in Images, NEW m \in Manifests, Push(i, m) PROVE ProgressOK'
  BY <1>4 DEF Push, ProgressOK, ProgressAt, WritesRef, ReferencedLayers, RefCommits, ImageCommits,
              DeployedCommits, DeployedLayers, repoVars
<1>5. ASSUME NEW k \in 1..2, Undeploy(k) PROVE ProgressOK'
  <2>1. \A q \in Procs : pc'[q] = "idle"
    BY <1>5 DEF Undeploy, At
  <2>2. QED
    BY <2>1, NoProgress DEF ProgressOK
<1>6. QED
  BY <1>1, <1>2, <1>3, <1>4, <1>5

(***************************************************************************)
(* What an operation loaded of the sysroot stays true until it writes a    *)
(* deployment itself, and then it only cleans up and warns.                *)
(***************************************************************************)
LEMMA LoadedStep ==
    ASSUME Serial, TypeOK, Exclusive, LoadedFresh, Next
    PROVE  LoadedFresh'
<1> USE DEF TypeOK, ProcTypeOK, At, Go
<1>1. ASSUME NEW p \in Procs, Step(p) PROVE LoadedFresh'
  <2>1. loaded' = loaded /\ \A q \in Procs \ {p} : pc'[q] = "idle"
    BY <1>1, StepMoves DEF Exclusive
  <2>2. CASE WriteDeployment(p) \/ StageDeploy(p) \/ Cleanup(p) \/ PruneFails(p) \/ FilteredWarning(p)
    <3>1. pc'[p] \in {"cleanup", "warn", "failed", "done"}
      BY <2>2 DEF WriteDeployment, StageDeploy, Cleanup, PruneFails, FilteredWarning
    <3>2. QED
      BY <2>1, <3>1 DEF LoadedFresh, Running, Ended
  <2>3. ASSUME pc[p] \notin {"idle", "cleanup", "warn"} \cup Ended, deployed' = deployed PROVE LoadedFresh'
    BY <2>1, <2>3 DEF LoadedFresh, Running
  <2>4. CASE ImportStep(p)
    <3>1. pc[p] \notin {"idle", "cleanup", "warn"} \cup Ended /\ deployed' = deployed
      BY <2>4 DEF ImportStep, Prepare, CachePending, ReuseLayer, FetchLayer, FetchFails, CanFetch,
                  LateCommit, MissingObjects, Merge, UnencapsulateDone, Requery, repoVars, Ended
    <3>2. QED
      BY <2>3, <3>1
  <2>5. CASE GcStep(p)
    <3>1. pc[p] \notin {"idle", "cleanup", "warn"} \cup Ended /\ deployed' = deployed
      BY <2>5 DEF GcStep, GcList, GcDeployments, GcResolve, GcFails, GcScan, GcSweep, GcDone,
                  repoVars, Ended
    <3>2. QED
      BY <2>3, <3>1
  <2>6. CASE DeployTree(p) \/ DeployFails(p) \/ CopyStep(p)
    <3>1. pc[p] \notin {"idle", "cleanup", "warn"} \cup Ended /\ deployed' = deployed
      BY <2>6 DEF DeployTree, DeployFails, CopyStep, CopyLayer, CopyCommit, CopyRef, repoVars, Ended
    <3>2. QED
      BY <2>3, <3>1
  <2>7. CASE RemoveStep(p) /\ ~PruneFails(p)
    <3>1. pc[p] \notin {"idle", "cleanup", "warn"} \cup Ended /\ deployed' = deployed
      BY <2>7 DEF RemoveStep, TryLock, ListUndeployed, RemoveImage, RemoveDone, Prune, repoVars, Ended
    <3>2. QED
      BY <2>3, <3>1
  <2>8. QED
    BY <1>1, <2>2, <2>4, <2>5, <2>6, <2>7 DEF Step, DeployStep
<1>2. ASSUME NEW p \in Procs, NEW r \in Requests, Begin(p, r) PROVE LoadedFresh'
  <2>1. \A q \in Procs \ {p} : pc'[q] = "idle"
    BY <1>2 DEF Begin
  <2>2. loaded'[p] \in {deployed, <<>>} /\ deployed' = deployed
    BY <1>2 DEF Begin, repoVars, RepoTypeOK
  <2>3. QED
    BY <2>1, <2>2 DEF LoadedFresh, Running
<1>3. ASSUME NEW p \in Procs, Abort(p) \/ Reap(p) PROVE LoadedFresh'
  <2>1. \A q \in Procs : pc'[q] \in {"idle", "aborted"}
    BY <1>3 DEF Abort, Reap, Running, Ended, Exclusive
  <2>2. QED
    BY <2>1 DEF LoadedFresh, Running, Ended
<1>4. CASE \E i \in Images, m \in Manifests : Push(i, m)
  BY <1>4 DEF Push, LoadedFresh, Running, repoVars
<1>5. CASE \E k \in 1..2 : Undeploy(k)
  <2>1. \A q \in Procs : pc'[q] = "idle"
    BY <1>5 DEF Undeploy
  <2>2. QED
    BY <2>1 DEF LoadedFresh, Running
<1>6. QED
  BY <1>1, <1>2, <1>3, <1>4, <1>5 DEF Next

(***************************************************************************)
(* Callers that run one operation at a time always find every stored image *)
(* complete, whatever was interrupted before.                              *)
(***************************************************************************)
THEOREM SerialComplete ==
    ASSUME Serial
    PROVE  Spec => [](ImagesComplete /\ ProgressOK /\ Exclusive /\ LoadedFresh)
<1> DEFINE Inv == ImagesComplete /\ ProgressOK /\ Exclusive /\ LoadedFresh
<1>1. Init => Inv
  BY DEF Init, ImagesComplete, ImageCommits, ProgressOK, ProgressAt, Exclusive, At,
         LoadedFresh, Running
<1>2. TypeInv /\ Inv /\ [Next]_vars => Inv'
  <2> SUFFICES ASSUME TypeOK, PhaseOK, Inv, [Next]_vars PROVE Inv'
    BY DEF TypeInv
  <2>1. CASE UNCHANGED vars
    BY <2>1 DEF vars, ImagesComplete, ImageCommits, ProgressOK, ProgressAt, Exclusive, At,
                WritesRef, ReferencedLayers, RefCommits, DeployedCommits, DeployedLayers,
                LoadedFresh, Running
  <2>2. ASSUME NEW p \in Procs, Step(p) PROVE ProgressOK' /\ ImagesComplete'
    BY <2>2, ImportProgress, GcProgress, DeployRemoveProgress, CopyProgress DEF Step
  <2>3. CASE Next
    BY <2>2, <2>3, OtherProgress, TakeTurns, LoadedStep DEF Next
  <2>4. QED
    BY <2>1, <2>3
<1>3. QED
  BY <1>1, <1>2, TypeCorrect, PTL DEF Spec

-----------------------------------------------------------------------------
(***************************************************************************)
(* Deployments                                                             *)
(***************************************************************************)

(***************************************************************************)
(* While one process steps, the image of no other can be lost.             *)
(***************************************************************************)
LEMMA MergedAlone ==
    ASSUME TypeOK, Exclusive, NEW p \in Procs, Step(p),
           pc'[p] \in MergedLabels /\ Imports(req[p]) /\ ~req[p].noref
               => work'[p].merged \in ImageCommits'
    PROVE  MergedStored'
<1>1. req' = req /\ \A q \in Procs \ {p} : pc'[q] = "idle"
  BY StepMoves DEF Exclusive, At
<1>2. QED
  BY <1>1 DEF MergedStored, MergedLabels

LEMMA MergedStep ==
    ASSUME TypeOK, PhaseOK, Exclusive, MergedStored, NEW p \in Procs, Step(p)
    PROVE  MergedStored'
<1>a. PhaseOf(pc[p], req[p], work[p]) /\ work[p] \in WorkType
  BY WorkFields DEF PhaseOK
<1>1. CASE Prepare(p)
  <2> DEFINE prev == TryQueryImage(req[p].img)
  <2>1. CASE AlreadyPresent(prev, tag[req[p].img])
    <3>1. work'[p].merged = prev
      BY <1>1, <1>a, <2>1 DEF Prepare, Remember, TypeOK, ProcTypeOK, WorkType
    <3>2. prev \in ImageCommits
      BY <2>1, WorkFields, RequestTypes DEF AlreadyPresent, TryQueryImage, ImageCommits
    <3>3. imageRef' = imageRef
      BY <1>1 DEF Prepare, repoVars
    <3>4. QED
      BY <3>1, <3>2, <3>3, MergedAlone DEF ImageCommits
  <2>2. CASE ~AlreadyPresent(prev, tag[req[p].img])
    <3>1. pc'[p] = "cache"
      BY <1>1, <2>2 DEF Prepare, Go, TypeOK, ProcTypeOK
    <3>2. QED
      BY <3>1, MergedAlone DEF MergedLabels
  <2>3. QED
    BY <2>1, <2>2
<1>2. CASE CachePending(p) \/ ReuseLayer(p) \/ FetchLayer(p) \/ FetchFails(p) \/ LateCommit(p)
        \/ MissingObjects(p) \/ UnencapsulateDone(p) \/ CopyStep(p)
  <2>1. pc'[p] \notin MergedLabels
    BY <1>2 DEF CachePending, ReuseLayer, FetchLayer, FetchFails, LateCommit, CanFetch,
                MissingObjects, UnencapsulateDone, CopyStep, CopyLayer, CopyCommit, CopyRef,
                At, Go, MergedLabels, TypeOK, ProcTypeOK
  <2>2. QED
    BY <2>1, MergedAlone
<1>3. CASE Merge(p)
  <2> DEFINE c == [manifest |-> work[p].manifest, filtered |-> work[p].filtered]
  <2>1. c \in Commits
    BY <1>3, <1>a, WorkFields DEF Merge, At, PhaseOf, Commits
  <2>2. work'[p].merged = c
    BY <1>3 DEF Merge, Remember, NoWork, TypeOK, ProcTypeOK
  <2>3. ~req[p].noref => c \in ImageCommits'
    BY <1>3, <2>1, WorkFields, RequestTypes, NullAssumption
    DEF Merge, WrittenRef, ImageCommits, TypeOK, RepoTypeOK
  <2>4. QED
    BY <2>2, <2>3, MergedAlone
<1>4. CASE GcStep(p) \/ Requery(p)
  <2>1. pc[p] \in MergedLabels
    BY <1>4 DEF GcStep, GcList, GcDeployments, GcResolve, GcFails, GcScan, GcSweep, GcDone,
                Requery, At, MergedLabels
  <2>2. imageRef' = imageRef
    BY <1>4 DEF GcStep, GcList, GcDeployments, GcResolve, GcFails, GcScan, GcSweep, GcDone,
                Requery, repoVars
  <2>3. work'[p].merged = work[p].merged
    <3>1. CASE GcList(p) \/ GcDeployments(p)
      BY <1>a, <3>1 DEF GcList, GcDeployments, Remember, TypeOK, ProcTypeOK, WorkType
    <3>2. CASE GcScan(p)
      BY <1>a, <3>2 DEF GcScan, Remember, TypeOK, ProcTypeOK, WorkType
    <3>3. ASSUME NEW l \in Layers, GcSweep(p, l) PROVE work'[p].merged = work[p].merged
      BY <1>a, <3>3 DEF GcSweep, Remember, TypeOK, ProcTypeOK, WorkType
    <3>4. CASE GcDone(p) \/ GcFails(p) \/ Requery(p)
      BY <3>4 DEF GcDone, GcFails, Requery
    <3>5. ASSUME NEW i \in Images, GcResolve(p, i) PROVE work'[p].merged = work[p].merged
      BY <1>a, <3>5 DEF GcResolve, Remember, TypeOK, ProcTypeOK, WorkType
    <3>6. QED
      BY <1>4, <3>1, <3>2, <3>3, <3>4, <3>5 DEF GcStep
  <2>4. QED
    BY <2>1, <2>2, <2>3, MergedAlone DEF MergedStored, MergedLabels, ImageCommits
<1>5. CASE DeployTree(p)
  <2>1. pc[p] \in MergedLabels /\ imageRef' = imageRef /\ work' = work
    BY <1>5 DEF DeployTree, At, MergedLabels, repoVars
  <2>2. QED
    BY <2>1, MergedAlone DEF MergedStored, ImageCommits
<1>6. CASE WriteDeployment(p) \/ Cleanup(p) \/ StageDeploy(p) \/ DeployFails(p) \/ FilteredWarning(p)
           \/ Prune(p) \/ PruneFails(p)
  <2>1. pc'[p] \notin MergedLabels
    BY <1>6 DEF WriteDeployment, Cleanup, StageDeploy, DeployFails, FilteredWarning, Prune,
                PruneFails, Go, MergedLabels, TypeOK, ProcTypeOK
  <2>2. QED
    BY <2>1, MergedAlone
<1>7. CASE TryLock(p) \/ ListUndeployed(p) \/ RemoveDone(p) \/ \E i \in Images : RemoveImage(p, i)
  <2>1. ~Imports(req[p])
    BY <1>7, <1>a DEF TryLock, ListUndeployed, RemoveDone, RemoveImage, At, PhaseOf
  <2>2. QED
    BY <2>1, MergedAlone
<1>8. QED
  BY <1>1, <1>2, <1>3, <1>4, <1>5, <1>6, <1>7 DEF Step, ImportStep, DeployStep, RemoveStep

LEMMA MergedOther ==
    ASSUME Serial, TypeOK, Exclusive, MergedStored,
           \/ \E p \in Procs : (\E r \in Requests : Begin(p, r)) \/ Abort(p) \/ Reap(p)
           \/ \E i \in Images, m \in Manifests : Push(i, m)
           \/ \E k \in 1..2 : Undeploy(k)
    PROVE  MergedStored'
<1>1. ASSUME NEW p \in Procs, NEW r \in Requests, Begin(p, r) PROVE MergedStored'
  <2>1. \A q \in Procs \ {p} : pc'[q] = "idle"
    BY <1>1 DEF Begin, At, Go, TypeOK, ProcTypeOK
  <2>2. req'[p] = r /\ (Imports(r) => pc'[p] = "prepare")
    <3>1. Imports(r) => FirstLabel(r.op) = "prepare"
      BY DEF Imports, FirstLabel, LockedOps
    <3>2. req'[p] = r /\ pc'[p] = FirstLabel(r.op)
      BY <1>1 DEF Begin, Go, TypeOK, ProcTypeOK
    <3>3. QED
      BY <3>1, <3>2
  <2>3. QED
    BY <2>1, <2>2 DEF MergedStored, MergedLabels
<1>2. ASSUME NEW p \in Procs, Abort(p) \/ Reap(p) PROVE MergedStored'
  <2>1. \A q \in Procs : pc'[q] \in {"idle", "aborted"}
    BY <1>2 DEF Abort, Reap, Running, Ended, Exclusive, At, Go, TypeOK, ProcTypeOK
  <2>2. QED
    BY <2>1 DEF MergedStored, MergedLabels
<1>3. CASE (\E i \in Images, m \in Manifests : Push(i, m)) \/ (\E k \in 1..2 : Undeploy(k))
  BY <1>3 DEF Push, Undeploy, MergedStored, ImageCommits, repoVars
<1>4. QED
  BY <1>1, <1>2, <1>3

(***************************************************************************)
(* A deployment is written while its image has a ref, and a collection     *)
(* spares the layers of deployments.                                       *)
(***************************************************************************)
LEMMA DeployedStep ==
    ASSUME \A r \in Requests : ~r.noref, TypeOK, PhaseOK, Exclusive, ProgressOK, ImagesComplete,
           MergedStored, LoadedFresh, DeploymentsCached, Next
    PROVE  DeploymentsCached'
<1>1. ASSUME NEW p \in Procs, WriteDeployment(p) \/ StageDeploy(p) PROVE DeploymentsCached'
  <2>1. pc[p] \in {"deploy", "write"} /\ deployed' = NewDeployments(p) /\ layerRef' = layerRef
    BY <1>1 DEF WriteDeployment, StageDeploy, At
  <2>2. work[p].merged \in ImageCommits /\ loaded[p] \in {deployed, <<>>}
    BY <2>1, WorkFields DEF MergedStored, MergedLabels, PhaseOK, PhaseOf, LoadedFresh, Running, Ended
  <2>3. QED
    BY <2>1, <2>2, DeploymentCommits DEF DeploymentsCached, ImagesComplete
<1>2. ASSUME NEW k \in 1..2, Undeploy(k) PROVE DeploymentsCached'
  BY <1>2, DeploymentCommits DEF Undeploy, DeploymentsCached
<1>3. ASSUME NEW p \in Procs, NEW l \in Layers, GcSweep(p, l) PROVE DeploymentsCached'
  <2>1. layerRef' = layerRef \ {l} /\ deployed' = deployed /\ l \notin ReferencedLayers
    BY <1>3 DEF GcSweep, At, ProgressOK, ProgressAt
  <2>2. \A c \in DeployedCommits : LayersOf(c.manifest) \subseteq ReferencedLayers
    BY DEF ReferencedLayers, RefCommits
  <2>3. QED
    BY <2>1, <2>2 DEF DeploymentsCached, DeployedCommits
<1>4. CASE deployed' = deployed /\ layerRef \subseteq layerRef'
  BY <1>4 DEF DeploymentsCached, DeployedCommits
<1>5. ASSUME NEW p \in Procs, ImportStep(p) \/ CopyStep(p)
      PROVE  deployed' = deployed /\ layerRef \subseteq layerRef'
  BY <1>5 DEF ImportStep, Prepare, CachePending, ReuseLayer, FetchLayer, FetchFails, LateCommit,
              StoreWhole, StoreCut, MissingObjects, Merge, UnencapsulateDone, Requery,
              CopyStep, CopyLayer, CopyCommit, CopyRef, repoVars
<1>6. ASSUME NEW p \in Procs,
             \/ GcList(p) \/ GcDeployments(p) \/ GcFails(p) \/ GcScan(p) \/ GcDone(p)
             \/ \E i \in Images : GcResolve(p, i)
             \/ DeployTree(p) \/ Cleanup(p) \/ DeployFails(p) \/ FilteredWarning(p) \/ RemoveStep(p)
      PROVE  deployed' = deployed /\ layerRef \subseteq layerRef'
  BY <1>6 DEF GcList, GcDeployments, GcFails, GcScan, GcDone, GcResolve, DeployTree, Cleanup,
              DeployFails, FilteredWarning, RemoveStep, TryLock, ListUndeployed, RemoveDone,
              RemoveImage, Prune, PruneFails, repoVars
<1>7. ASSUME NEW p \in Procs, (\E r \in Requests : Begin(p, r)) \/ Abort(p) \/ Reap(p)
      PROVE  deployed' = deployed /\ layerRef \subseteq layerRef'
  BY <1>7 DEF Begin, Abort, Reap, repoVars
<1>8. ASSUME NEW i \in Images, NEW m \in Manifests, Push(i, m)
      PROVE  deployed' = deployed /\ layerRef \subseteq layerRef'
  BY <1>8 DEF Push, repoVars
<1>9. ASSUME NEW p \in Procs, Step(p) PROVE DeploymentsCached'
  BY <1>1, <1>3, <1>4, <1>5, <1>6, <1>9 DEF Step, GcStep, DeployStep
<1>10. QED
  BY <1>2, <1>4, <1>7, <1>8, <1>9 DEF Next

(***************************************************************************)
(* Callers that run one operation at a time, and write an image ref for    *)
(* what they deploy, keep the layers of every deployment cached, whatever  *)
(* images they remove afterwards.  With no_imgref it is false: see         *)
(* NorefKeepsLayers.                                                       *)
(***************************************************************************)
THEOREM SerialDeployments ==
    ASSUME Serial, \A r \in Requests : ~r.noref
    PROVE  Spec => [](DeploymentsCached /\ MergedStored)
<1> DEFINE Inv == DeploymentsCached /\ MergedStored
           Known == TypeInv /\ ImagesComplete /\ ProgressOK /\ Exclusive /\ LoadedFresh
<1>1. Init => Inv
  BY DEF Init, DeploymentsCached, DeployedCommits, MergedStored, MergedLabels
<1>2. Known /\ Inv /\ [Next]_vars => Inv'
  <2> SUFFICES ASSUME TypeOK, PhaseOK, Known, Inv, [Next]_vars PROVE Inv'
    BY DEF TypeInv
  <2>1. CASE UNCHANGED vars
    BY <2>1 DEF vars, DeploymentsCached, DeployedCommits, MergedStored, ImageCommits
  <2>2. CASE Next
    <3>1. DeploymentsCached'
      BY <2>2, DeployedStep
    <3>2. MergedStored'
      BY <2>2, MergedStep, MergedOther DEF Next
    <3>3. QED
      BY <3>1, <3>2
  <2>3. QED
    BY <2>1, <2>2
<1>3. Spec => []Known
  BY TypeCorrect, SerialComplete, PTL
<1>4. QED
  BY <1>1, <1>2, <1>3, PTL DEF Spec
=============================================================================
