----------------------------- MODULE ImageLayout -----------------------------
(***************************************************************************)
(* The life of one image between hosts: a commit is encapsulated           *)
(* (encapsulate.rs), other tools derive from the image, its detached       *)
(* metadata is replaced (update_detachedmeta.rs), a host imports it and    *)
(* exports it again (export_to_oci in store.rs).  Every step but deriving  *)
(* finds its way by the layout alone.                                      *)
(*                                                                         *)
(* A blob is what the layer holds: the ostree layer the objects left over  *)
(* by the chunks and the detached metadata, a chunk its objects, a derived *)
(* layer a tree, in the bytes of the tool that made it or of `ostree       *)
(* export`.                                                                *)
(***************************************************************************)
EXTENDS ManifestLayout

CONSTANTS Objects,     \* the content objects of the commit
          Chunkings,   \* ways to split them: sequences of disjoint sets
          Metas,       \* values of detached metadata
          NoMeta,      \* the commit has none
          Trees,       \* what derived layers contain
          MaxDerived,  \* bound on the derived layers of the image
          MaxExports   \* bound on the exports since it was encapsulated

ASSUME MetaAssumption == NoMeta \notin Metas
ASSUME BoundsAssumption == MaxDerived \in Nat /\ MaxExports \in Nat
ASSUME ChunkingsAssumption ==
    \A c \in Chunkings :
        /\ c \in Seq(SUBSET Objects)
        /\ \A i, j \in DOMAIN c : i # j => c[i] \cap c[j] = {}

VARIABLES image,  \* the image at the registry
          host,   \* the image as the last host to import it stores it
          made    \* history: what the image was made from

vars == <<image, host, made>>

NoImage == EmptyImage
Unmade ==
    [chunks |-> <<>>, meta |-> NoMeta, trees |-> <<>>, lost |-> {}, exports |-> 0, orphaned |-> FALSE]
NoHost == [image |-> NoImage, objects |-> {}, sets |-> <<>>, trees |-> <<>>, meta |-> NoMeta,
           from |-> Unmade]

OstreeBlob(objs, meta) == [kind |-> "ostree", holds |-> objs, as |-> meta]
ChunkBlob(objs) == [kind |-> "chunk", holds |-> objs, as |-> NoMeta]
DerivedBlob(tree, tool) == [kind |-> "derived", holds |-> {tree}, as |-> tool]

OstreeLayer(chunks, meta) ==
    [blob |-> OstreeBlob(Objects \ UNION ToSet(chunks), meta), anno |-> NoAnno]

-----------------------------------------------------------------------------
(***************************************************************************)
(* build_oci: chunks are annotated with their components, for which their  *)
(* objects stand here.  The story of an image begins here: no host has     *)
(* anything of it.                                                         *)
(***************************************************************************)
ChunkLayers(chunks) ==
    [i \in DOMAIN chunks |-> [blob |-> ChunkBlob(chunks[i]), anno |-> {chunks[i]}]]
BuildOci(chunks, meta) ==
    ExportChunked(EmptyImage, OstreeLayer(chunks, meta), ChunkLayers(chunks))

Encapsulate(chunks, meta) ==
    /\ image' = BuildOci(chunks, meta)
    /\ made' = [Unmade EXCEPT !.chunks = chunks, !.meta = meta]
    /\ host' = NoHost

(***************************************************************************)
(* A container build on top of the image; it keeps the labels.             *)
(***************************************************************************)
DerivedLayer(tree) == [blob |-> DerivedBlob(tree, "tool"), anno |-> NoAnno]
Derive(tree) ==
    /\ image # NoImage /\ Len(made.trees) < MaxDerived
    /\ image' = PushLayer(image, DerivedLayer(tree))
    /\ made' = [made EXCEPT !.trees = Append(@, tree)]
    /\ UNCHANGED host

(***************************************************************************)
(* update_detached_metadata rewrites the ostree layer and splices it into  *)
(* manifest and config; the label follows only when there is one layer.    *)
(* (An image whose layout cannot be read is refused and stays as it is.)   *)
(***************************************************************************)
\* Mutations of Spliced.
SplicedAlwaysLabels(img, blob) ==
    [img EXCEPT !.layers[1] = [blob |-> blob, anno |-> NoAnno], !.diffids[1] = blob, !.label = {blob}]
SplicedNeverLabels(img, blob) ==
    [img EXCEPT !.layers[1] = [blob |-> blob, anno |-> NoAnno], !.diffids[1] = blob]
Spliced(img, blob) ==
    [img EXCEPT !.layers[1] = [blob |-> blob, anno |-> NoAnno],
                !.diffids[1] = blob,
                !.label = IF Len(img.layers) = 1 THEN {blob} ELSE @]
UpdateDetachedMetadata(meta) ==
    /\ ParseManifestLayout(image).ok
    /\ image' = Spliced(image, [image.layers[1].blob EXCEPT !.as = meta])
    /\ made' = [made EXCEPT !.meta = meta,
                            !.orphaned = @ \/ (made.chunks = <<>> /\ made.trees # <<>> /\ made.meta # meta)]
    /\ UNCHANGED host

(***************************************************************************)
(* Importing on a host that has nothing of the image yet.  The chunks are  *)
(* imported as object sets and must contain nothing else; the checkout     *)
(* needs all of the commit.  Importing a chunk as a derived layer would    *)
(* leave an empty tree, as all of its paths are filtered.                  *)
(***************************************************************************)
TreesOf(layers) ==
    [i \in DOMAIN layers |-> IF layers[i].blob.kind = "derived" THEN layers[i].blob.holds ELSE {}]
SetsOf(layers) == [i \in DOMAIN layers |-> layers[i].blob.holds]
Stored(img, from) ==
    LET layout == ParseManifestLayout(img)
    IN  [image |-> img,
         objects |-> img.layers[1].blob.holds \cup UNION ToSet(SetsOf(layout.chunks)),
         sets |-> SetsOf(layout.chunks),
         trees |-> TreesOf(layout.derived),
         meta |-> img.layers[1].blob.as,
         from |-> from]
Importable(img) ==
    LET layout == ParseManifestLayout(img)
    IN  /\ layout.ok
        /\ \A i \in DOMAIN layout.chunks : layout.chunks[i].blob.kind = "chunk"
        /\ Objects \subseteq Stored(img, made).objects
Import ==
    /\ Importable(image)
    /\ host' = Stored(image, made)
    /\ UNCHANGED <<image, made>>

(***************************************************************************)
(* export_to_oci rebuilds the chunks from the object sets the host stores, *)
(* and the derived layers from their trees.  Manifest and config are those *)
(* of the imported image with the layers of the manifest cleared; the      *)
(* diffids of the config, and its label, stay and new ones are added.  A   *)
(* derived layer gets the annotation of the layer with its number in the   *)
(* whole manifest.  Nobody waits for `ostree export`: where it failed at   *)
(* once the layer is empty, and the export succeeds.                       *)
(***************************************************************************)
ChunkingFromLayers(sets) ==
    [i \in DOMAIN sets |-> [blob |-> ChunkBlob(sets[i] \ UNION {sets[j] : j \in 1..(i - 1)}), anno |-> {{}}]]
ExportedTrees(h, failed) ==
    [i \in DOMAIN h.trees |->
        [blob |-> [kind |-> "derived", holds |-> IF i \in failed THEN {} ELSE h.trees[i], as |-> "ostree"],
         anno |-> h.image.layers[i].anno]]
\* Mutations of ExportToOci.
ExportWithoutMeta(h, failed) ==
    LET base == ExportChunked([h.image EXCEPT !.layers = <<>>], OstreeLayer(h.sets, NoMeta),
                              ChunkingFromLayers(h.sets))
    IN  [PushLayers(base, ExportedTrees(h, failed)) EXCEPT !.label = h.image.label]
ExportToOci(h, failed) ==
    LET base == ExportChunked([h.image EXCEPT !.layers = <<>>], OstreeLayer(h.sets, h.meta),
                              ChunkingFromLayers(h.sets))
    IN  [PushLayers(base, ExportedTrees(h, failed)) EXCEPT !.label = h.image.label]
Export(failed) ==
    /\ host.image # NoImage /\ host.from.exports < MaxExports
    /\ image' = ExportToOci(host, failed)
    /\ made' = [host.from EXCEPT !.exports = @ + 1, !.lost = @ \cup failed]
    /\ UNCHANGED host

Init ==
    image = NoImage /\ host = NoHost /\ made = Unmade
Next ==
    \/ \E c \in Chunkings, m \in Metas \cup {NoMeta} : Encapsulate(c, m)
    \/ \E t \in Trees : Derive(t)
    \/ \E m \in Metas \cup {NoMeta} : UpdateDetachedMetadata(m)
    \/ Import
    \/ \E failed \in SUBSET DOMAIN host.trees : Export(failed)
Spec == Init /\ [][Next]_vars

-----------------------------------------------------------------------------
TreesMade(from) == [i \in DOMAIN from.trees |-> IF i \in from.lost THEN {} ELSE {from.trees[i]}]

(***************************************************************************)
(* parse_manifest_layout finds, in every image, the chunks and the derived *)
(* layers it was made from, in their order, after any sequence of builds   *)
(* on top, updates, imports and exports, and the image can be imported.    *)
(* There are two exceptions.  If a chunk is as empty as the last one, no   *)
(* layer is the target and the image cannot be read.  If the metadata of   *)
(* an image of one layer was replaced after something was built on top,    *)
(* the label names a diffid that is gone.                                  *)
(***************************************************************************)
Emptied == \E i, j \in DOMAIN made.chunks : i < j /\ j = Len(made.chunks) /\ made.chunks[i] = made.chunks[j]
ReadBack ==
    image # NoImage /\ ~made.orphaned =>
        LET layout == ParseManifestLayout(image)
        IN  /\ layout.ok = ~Emptied
            /\ layout.ok =>
                  /\ SetsOf(layout.chunks) = made.chunks
                  /\ TreesOf(layout.derived) = TreesMade(made)
                  /\ Importable(image)

(***************************************************************************)
(* Whatever happened to an image, a host that stores it has all objects of *)
(* the commit, the object set of every chunk, the detached metadata that   *)
(* was set last, and every derived tree except those a failed child lost:  *)
(* nothing of one kind is ever taken for the other, also where the layout  *)
(* is wrong.                                                               *)
(***************************************************************************)
HostExact ==
    host.image # NoImage =>
        /\ host.objects = Objects
        /\ host.sets = host.from.chunks
        /\ host.trees = TreesMade(host.from)
        /\ host.meta = host.from.meta

(***************************************************************************)
(* Replacing the detached metadata gives, to the last layer and label, the *)
(* image that encapsulating the commit with the new metadata and building  *)
(* the same on top would have given; an export gives its layers, with the  *)
(* bytes of other tools.  (For the label, see the second exception above.) *)
(***************************************************************************)
Rebuilt ==
    PushLayers(BuildOci(made.chunks, made.meta),
               [i \in DOMAIN made.trees |-> DerivedLayer(made.trees[i])])
UpdateIsRebuild ==
    image # NoImage =>
        /\ made.exports = 0 /\ ~made.orphaned => image = Rebuilt
        /\ Len(image.layers) = Len(Rebuilt.layers)
        /\ \A i \in DOMAIN image.layers :
              LET is == image.layers[i].blob
                  should == Rebuilt.layers[i].blob
              IN  is.kind = should.kind /\ (is.kind # "derived" => is = should)
=============================================================================
