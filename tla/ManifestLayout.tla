--------------------------- MODULE ManifestLayout ---------------------------
(***************************************************************************)
(* How the layers of an image say what they are: export_chunked in         *)
(* encapsulate.rs writes the layout, parse_manifest_layout in store.rs     *)
(* reads it back.  A layer is its uncompressed content (the diffid, and,   *)
(* compression being deterministic, the digest too) with an annotation;    *)
(* two layers are equal when both agree.  The config lists the diffids in  *)
(* the order of the layers, and a label names the diffid of the last layer *)
(* that belongs to the commit.                                             *)
(***************************************************************************)
EXTENDS Integers, SequencesExt

(***************************************************************************)
(* The elements of a sequence at some places: by ascending keys, places of *)
(* equal key in their order, or all in their order.  They are defined by   *)
(* the rank of a place (SelectSeq and SortSeq are opaque to the prover).   *)
(***************************************************************************)
Rank(i, I, keys) == Cardinality({j \in I : keys[j] < keys[i] \/ (keys[j] = keys[i] /\ j < i)})
Arranged(s, I, keys) == [k \in 1..Cardinality(I) |-> s[CHOOSE i \in I : Rank(i, I, keys) = k - 1]]
Chosen(s, I) == Arranged(s, I, [i \in I |-> i])

(***************************************************************************)
(* What may be missing, an annotation or the label, is a set of at most    *)
(* one element.                                                            *)
(***************************************************************************)
NoAnno == {}
NoLabel == {}
EmptyImage == [layers |-> <<>>, diffids |-> <<>>, label |-> NoLabel]

(***************************************************************************)
(* OciDir::push_layer adds a layer to the manifest and to the config.      *)
(***************************************************************************)
Blobs(layers) == [i \in DOMAIN layers |-> layers[i].blob]
PushLayers(img, layers) ==
    [img EXCEPT !.layers = @ \o layers, !.diffids = @ \o Blobs(layers)]
PushLayer(img, layer) == PushLayers(img, <<layer>>)

(***************************************************************************)
(* The ostree layer comes first, then the chunks; the label is the last    *)
(* chunk, or the ostree layer when there is none.                          *)
(***************************************************************************)
LastDigest(ostree, chunks) == IF chunks = <<>> THEN ostree.blob ELSE Last(chunks).blob
ExportChunked(img, ostree, chunks) ==
    [PushLayers(PushLayer(img, ostree), chunks) EXCEPT !.label = {LastDigest(ostree, chunks)}]

(***************************************************************************)
(* The place of the first diffid equal to the label; 0 when there is none, *)
(* or no layer at that place.                                              *)
(***************************************************************************)
LayerFromDiffid(img) ==
    LET places == {i \in DOMAIN img.diffids : img.label = {img.diffids[i]}}
        first == Min(places)
    IN  IF places = {} \/ first > Len(img.layers) THEN 0 ELSE first

(***************************************************************************)
(* The layers up to the target belong to the commit, the first one is the  *)
(* ostree layer, the ones after the target are derived.  Layers are        *)
(* compared by value, and a second one equal to the target is an error.    *)
(***************************************************************************)
Unreadable == [ok |-> FALSE, chunks |-> <<>>, derived |-> <<>>]
ParseManifestLayout(img) ==
    LET t == LayerFromDiffid(img)
        same == {i \in DOMAIN img.layers : img.layers[i] = img.layers[t]}
        upto == SubSeq(img.layers, 1, Min(same))
    IN  IF img.layers = <<>> \/ t = 0 \/ \E i, j \in same : i # j THEN Unreadable
        ELSE [ok |-> TRUE,
              chunks |-> Chosen(upto, {i \in DOMAIN upto : upto[i] # img.layers[1]}),
              derived |-> SubSeq(img.layers, Min(same) + 1, Len(img.layers))]
=============================================================================
