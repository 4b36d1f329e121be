-------------------------- MODULE ImageLayoutProofs --------------------------
(***************************************************************************)
(* Theorems about ImageLayout: for every commit, every way to split it     *)
(* into chunks, every number of derived layers and exports.                *)
(***************************************************************************)
EXTENDS ImageLayout, FiniteSetTheorems, TLAPS

Blob == [kind : {"ostree", "chunk", "derived"}, holds : SUBSET (Objects \cup Trees),
         as : Metas \cup {NoMeta, "tool", "ostree"}]
Layer == [blob : Blob, anno : SUBSET SUBSET Objects]
ImageType == [layers : Seq(Layer), diffids : Seq(Blob), label : SUBSET Blob]
MadeType ==
    [chunks : Chunkings \cup {<<>>}, meta : Metas \cup {NoMeta}, trees : Seq(Trees),
     lost : SUBSET Nat, exports : Nat, orphaned : BOOLEAN]

Size(from) == 1 + Len(from.chunks) + Len(from.trees)

(***************************************************************************)
(* What the layers of an image are that was made from `from': the ostree   *)
(* layer, the chunks, the derived layers.  The annotations of the chunks   *)
(* are all of the first encapsulation or all of an export.                 *)
(***************************************************************************)
LayersOK(img, from) ==
    LET n == Len(from.chunks)
    IN  /\ Len(img.layers) = Size(from)
        /\ from.lost \subseteq 1..Len(from.trees)
        /\ img.layers[1] = OstreeLayer(from.chunks, from.meta)
        /\ \A i \in 1..n : img.layers[i + 1].blob = ChunkBlob(from.chunks[i])
        /\ \/ \A i \in 1..n : img.layers[i + 1].anno = {from.chunks[i]}
           \/ \A i \in 1..n : img.layers[i + 1].anno = {{}}
        /\ \A i \in 1..Len(from.trees) :
              /\ img.layers[i + n + 1].blob.kind = "derived"
              /\ img.layers[i + n + 1].blob.holds = TreesMade(from)[i]

(***************************************************************************)
(* What the config says: its diffids begin with those of the commit, and   *)
(* the label names the last of them, unless the image is orphaned, which   *)
(* can happen only where there are no chunks.                              *)
(***************************************************************************)
ConfigOK(img, from) ==
    LET n == Len(from.chunks)
    IN  /\ Len(img.diffids) >= Size(from)
        /\ img.diffids[1] = img.layers[1].blob
        /\ \A i \in 1..n : img.diffids[i + 1] = ChunkBlob(from.chunks[i])
        /\ from.orphaned => n = 0
        /\ n > 0 => img.label = {ChunkBlob(from.chunks[n])}
        /\ n = 0 /\ ~from.orphaned => img.label = {img.layers[1].blob}

(***************************************************************************)
(* Before the first export the image is what a rebuild would give, but for *)
(* an orphaned label.                                                      *)
(***************************************************************************)
FirstOK(img, from) ==
    LET n == Len(from.chunks)
    IN  from.exports = 0 =>
        /\ from.lost = {}
        /\ img.diffids = Blobs(img.layers)
        /\ \A i \in 1..n : img.layers[i + 1].anno = {from.chunks[i]}
        /\ \A i \in 1..Len(from.trees) : img.layers[i + n + 1] = DerivedLayer(from.trees[i])

MadeFrom(img, from) ==
    /\ img \in ImageType /\ from \in MadeType
    /\ LayersOK(img, from) /\ ConfigOK(img, from) /\ FirstOK(img, from)

(***************************************************************************)
(* The inductive invariant: the image at the registry, and the one a host  *)
(* stores, are what their histories say, and the host has all of it.       *)
(***************************************************************************)
LayoutInv ==
    /\ image \in ImageType /\ made \in MadeType /\ host.from \in MadeType
    /\ image # NoImage => MadeFrom(image, made)
    /\ host.image # NoImage => MadeFrom(host.image, host.from)
    /\ HostExact

-----------------------------------------------------------------------------
(***************************************************************************)
(* The members of Chunkings are sequences of disjoint sets of objects.     *)
(***************************************************************************)
LEMMA ChunksType ==
    ASSUME NEW from \in MadeType
    PROVE  /\ from.chunks \in Seq(SUBSET Objects)
           /\ \A i, j \in 1..Len(from.chunks) : i # j => from.chunks[i] \cap from.chunks[j] = {}
  <1>1. CASE from.chunks = <<>>
    BY <1>1
  <1>2. CASE from.chunks \in Chunkings
    BY <1>2, ChunkingsAssumption
  <1> QED  BY <1>1, <1>2 DEF MadeType

(***************************************************************************)
(* What the blobs hold.                                                    *)
(***************************************************************************)
LEMMA BlobFields ==
    /\ \A objs : /\ ChunkBlob(objs).kind = "chunk" /\ ChunkBlob(objs).holds = objs
                 /\ ChunkBlob(objs).as = NoMeta
    /\ \A objs, meta : /\ OstreeBlob(objs, meta).kind = "ostree" /\ OstreeBlob(objs, meta).holds = objs
                       /\ OstreeBlob(objs, meta).as = meta
    /\ \A tree, tool : /\ DerivedBlob(tree, tool).kind = "derived" /\ DerivedBlob(tree, tool).holds = {tree}
                       /\ DerivedBlob(tree, tool).as = tool
  BY DEF ChunkBlob, OstreeBlob, DerivedBlob

(***************************************************************************)
(* Every set of numbers has a least one.                                   *)
(***************************************************************************)
LEMMA Least ==
    ASSUME NEW S \in SUBSET Nat, S # {}
    PROVE  \E m \in S : \A k \in S : m <= k
  <1>1. IsWellFoundedOn({ss \in Nat \X Nat : ss[1] < ss[2]}, Nat)
    BY NatLessThanWellFounded, Zenon DEF OpToRel
  <1>2. PICK m \in S : \A k \in S : ~(<<k, m>> \in {ss \in Nat \X Nat : ss[1] < ss[2]})
    BY <1>1, WFMin
  <1>3. \A k \in S : ~(k < m)
    BY <1>2
  <1> QED  BY <1>3

LEMMA MinIs ==
    ASSUME NEW S \in SUBSET Nat, NEW m \in S, \A k \in S : m <= k
    PROVE  Min(S) = m
  <1>1. \A y \in S : (\A k \in S : y <= k) => y = m
    OBVIOUS
  <1> QED  BY <1>1 DEF Min

LEMMA SameSeq ==
    ASSUME NEW S, NEW s \in Seq(S), NEW t \in Seq(S), Len(s) = Len(t),
           \A i \in 1..Len(s) : s[i] = t[i]
    PROVE  s = t
  OBVIOUS

LEMMA Concat ==
    ASSUME NEW S, NEW s \in Seq(S), NEW t \in Seq(S)
    PROVE  /\ s \o t \in Seq(S) /\ Len(s \o t) = Len(s) + Len(t)
           /\ \A i \in 1..Len(s) : (s \o t)[i] = s[i]
           /\ \A i \in 1..Len(t) : (s \o t)[Len(s) + i] = t[i]
  OBVIOUS

(***************************************************************************)
(* Choosing the places from 2 to the end drops the first element.          *)
(***************************************************************************)
LEMMA ChosenTail ==
    ASSUME NEW S, NEW s \in Seq(S), Len(s) > 0
    PROVE  Chosen(s, 2..Len(s)) = [k \in 1..(Len(s) - 1) |-> s[k + 1]]
  <1> DEFINE I == 2..Len(s)
             keys == [i \in I |-> i]
  <1>1. Len(s) \in Nat /\ IsFiniteSet(I) /\ Cardinality(I) = Len(s) - 1
    <2> DEFINE m == Len(s)
    <2>1. m \in Nat /\ m > 0
      OBVIOUS
    <2> HIDE DEF m
    <2>2. IsFiniteSet(2..m) /\ Cardinality(2..m) = IF 2 > m THEN 0 ELSE m - 2 + 1
      BY <2>1, FS_Interval
    <2>3. Cardinality(2..m) = m - 1
      BY <2>1, <2>2
    <2> QED  BY <2>1, <2>2, <2>3 DEF m
  <1>2. \A i \in I : Rank(i, I, keys) = i - 2
    <2> SUFFICES ASSUME NEW i \in I PROVE Rank(i, I, keys) = i - 2
      OBVIOUS
    <2>1. {j \in I : keys[j] < keys[i] \/ (keys[j] = keys[i] /\ j < i)} = 2..(i - 1)
      OBVIOUS
    <2>2. Cardinality(2..(i - 1)) = i - 2
      BY FS_Interval
    <2> QED  BY <2>1, <2>2 DEF Rank
  <1>3. ASSUME NEW k \in 1..(Len(s) - 1) PROVE (CHOOSE i \in I : Rank(i, I, keys) = k - 1) = k + 1
    <2>1. \A i \in I : Rank(i, I, keys) = k - 1 <=> i = k + 1
      BY <1>2
    <2>2. k + 1 \in I
      BY <1>1
    <2> QED  BY <2>1, <2>2
  <1> HIDE DEF I, keys
  <1>4. Chosen(s, I) = Arranged(s, I, keys)
    BY DEF Chosen, keys
  <1> QED  BY <1>1, <1>3, <1>4 DEF Arranged, I
(***************************************************************************)
(* Only the first layer is the ostree layer.                               *)
(***************************************************************************)
LEMMA OneOstree ==
    ASSUME NEW img, NEW from, MadeFrom(img, from)
    PROVE  /\ Len(img.layers) = Size(from) /\ Size(from) \in Nat \ {0} /\ img.layers \in Seq(Layer)
           /\ img.layers[1].blob.kind = "ostree"
           /\ \A i \in 2..(Len(from.chunks) + 1) : img.layers[i].blob.kind = "chunk"
           /\ \A i \in (Len(from.chunks) + 2)..Size(from) : img.layers[i].blob.kind = "derived"
           /\ \A i \in 2..Size(from) : img.layers[i] # img.layers[1]
  <1> DEFINE n == Len(from.chunks)
             d == Len(from.trees)
  <1>1. n \in Nat /\ d \in Nat /\ img.layers \in Seq(Layer) /\ Size(from) = 1 + n + d
    BY ChunksType DEF MadeFrom, MadeType, ImageType, Size
  <1>2. img.layers[1].blob.kind = "ostree"
    BY DEF MadeFrom, LayersOK, OstreeLayer, OstreeBlob
  <1>3. ASSUME NEW i \in 2..(n + 1) PROVE img.layers[i].blob.kind = "chunk"
    <2>1. i - 1 \in 1..n
      BY <1>1
    <2>2. img.layers[(i - 1) + 1].blob = ChunkBlob(from.chunks[i - 1])
      BY <2>1 DEF MadeFrom, LayersOK
    <2> QED  BY <1>1, <2>2 DEF ChunkBlob
  <1>4. ASSUME NEW i \in (n + 2)..Size(from) PROVE img.layers[i].blob.kind = "derived"
    <2>1. i - n - 1 \in 1..d
      <3> HIDE DEF n, d
      <3> QED  BY <1>1
    <2>2. img.layers[(i - n - 1) + n + 1].blob.kind = "derived"
      BY <2>1 DEF MadeFrom, LayersOK
    <2>3. (i - n - 1) + n + 1 = i
      <3> HIDE DEF n, d
      <3> QED  BY <1>1
    <2> QED  BY <2>2, <2>3
  <1>5. ASSUME NEW i \in 2..Size(from) PROVE img.layers[i] # img.layers[1]
    <2>1. i \in 2..(n + 1) \/ i \in (n + 2)..Size(from)
      <3> HIDE DEF n, d
      <3> QED  BY <1>1
    <2> QED  BY <1>2, <1>3, <1>4, <2>1
  <1>6. Len(img.layers) = Size(from)
    BY DEF MadeFrom, LayersOK
  <1>7. Size(from) \in Nat \ {0}
    <2> HIDE DEF n, d
    <2> QED  BY <1>1
  <1> QED  BY <1>1, <1>2, <1>3, <1>4, <1>5, <1>6, <1>7

(***************************************************************************)
(* What parse_manifest_layout makes of the layer that the label leads to.  *)
(***************************************************************************)
LEMMA Parsed ==
    ASSUME NEW img, NEW from, MadeFrom(img, from)
    PROVE  LET t == LayerFromDiffid(img)
               layout == ParseManifestLayout(img)
           IN  /\ t \in 0..Size(from)
               /\ layout.ok <=> t # 0 /\ \A i \in 1..Size(from) : img.layers[i] = img.layers[t] => i = t
               /\ layout.ok => /\ layout.chunks = [k \in 1..(t - 1) |-> img.layers[k + 1]]
                              /\ layout.derived = SubSeq(img.layers, t + 1, Size(from))
  <1> DEFINE t == LayerFromDiffid(img)
             layers == img.layers
             N == Size(from)
             same == {i \in DOMAIN layers : layers[i] = layers[t]}
             upto == SubSeq(layers, 1, Min(same))
  <1>1. layers \in Seq(Layer) /\ Len(layers) = N /\ N \in Nat \ {0} /\ DOMAIN layers = 1..N
        /\ \A i \in 2..N : layers[i] # layers[1]
    BY OneOstree
  <1>2. t \in 0..N
    <2> DEFINE places == {i \in DOMAIN img.diffids : img.label = {img.diffids[i]}}
    <2>1. places \in SUBSET Nat
      BY DEF MadeFrom, ImageType
    <2>2. CASE places = {}
      BY <1>1, <2>2 DEF LayerFromDiffid
    <2>3. CASE places # {}
      <3>1. PICK m \in places : \A k \in places : m <= k
        BY <2>1, <2>3, Least
      <3>2. Min(places) = m /\ m \in Nat /\ m # 0
        <4>1. Min(places) = m
          BY <2>1, <3>1, MinIs
        <4>2. DOMAIN img.diffids = 1..Len(img.diffids)
          BY DEF MadeFrom, ImageType
        <4> QED  BY <3>1, <4>1, <4>2
      <3>3. t = IF m > Len(layers) THEN 0 ELSE m
        BY <2>3, <3>2 DEF LayerFromDiffid
      <3> QED  BY <1>1, <3>2, <3>3
    <2> QED  BY <2>2, <2>3
  <1>3. layers # <<>>
    BY <1>1
  <1>4. ParseManifestLayout(img) =
            IF t = 0 \/ (\E i, j \in same : i # j) THEN Unreadable
            ELSE [ok |-> TRUE, chunks |-> Chosen(upto, {i \in DOMAIN upto : upto[i] # layers[1]}),
                  derived |-> SubSeq(layers, Min(same) + 1, Len(layers))]
    BY <1>3, Zenon DEF ParseManifestLayout
  <1> HIDE DEF t
  <1>5. CASE t = 0
    BY <1>2, <1>4, <1>5 DEF Unreadable, t
  <1>6. CASE t # 0 /\ \E i, j \in same : i # j
    <2>1. PICK i \in 1..N : layers[i] = layers[t] /\ i # t
      BY <1>1, <1>6
    <2>2. ParseManifestLayout(img).ok = FALSE
      BY <1>4, <1>6 DEF Unreadable
    <2> QED  BY <1>2, <2>1, <2>2 DEF t
  <1>7. CASE t # 0 /\ \A i, j \in same : i = j
    <2>1. t \in 1..N /\ same = {t}
      BY <1>1, <1>2, <1>7
    <2>2. Min(same) = t
      <3> HIDE DEF same
      <3> QED  BY <2>1, MinIs
    <2> HIDE DEF same
    <2>3. upto \in Seq(Layer) /\ Len(upto) = t /\ \A i \in 1..t : upto[i] = layers[i]
      <3>1. upto = SubSeq(layers, 1, t)
        BY <2>2
      <3> HIDE DEF upto, layers, N
      <3> QED  BY <1>1, <2>1, <3>1
    <2> HIDE DEF upto
    <2>4. {i \in DOMAIN upto : upto[i] # layers[1]} = 2..t
      <3>1. DOMAIN upto = 1..t
        BY <2>3
      <3>2. \A i \in 1..t : upto[i] # layers[1] <=> i # 1
        BY <1>1, <2>1, <2>3
      <3> QED  BY <2>1, <3>1, <3>2
    <2>5. Chosen(upto, 2..t) = [k \in 1..(t - 1) |-> upto[k + 1]]
      BY <2>1, <2>3, ChosenTail
    <2>6. [k \in 1..(t - 1) |-> upto[k + 1]] = [k \in 1..(t - 1) |-> layers[k + 1]]
      BY <2>1, <2>3
    <2>7. ParseManifestLayout(img) =
              [ok |-> TRUE, chunks |-> [k \in 1..(t - 1) |-> layers[k + 1]],
               derived |-> SubSeq(layers, t + 1, N)]
      BY <1>1, <1>4, <1>7, <2>2, <2>4, <2>5, <2>6
    <2>8. \A i \in 1..N : layers[i] = layers[t] => i = t
      BY <1>1, <2>1 DEF same
    <2> DEFINE layout == ParseManifestLayout(img)
    <2>9. /\ layout.ok = TRUE
          /\ layout.chunks = [k \in 1..(t - 1) |-> layers[k + 1]]
          /\ layout.derived = SubSeq(layers, t + 1, N)
      <3> DEFINE c == [k \in 1..(t - 1) |-> layers[k + 1]]
                 e == SubSeq(layers, t + 1, N)
      <3>1. layout = [ok |-> TRUE, chunks |-> c, derived |-> e]
        BY <2>7
      <3> HIDE DEF c, e, layout
      <3>2. layout.ok = TRUE /\ layout.chunks = c /\ layout.derived = e
        BY <3>1
      <3> QED  BY <3>2 DEF c, e
    <2> HIDE DEF layers
    <2> QED  BY <1>2, <1>7, <2>8, <2>9 DEF t, layers
  <1> QED  BY <1>5, <1>6, <1>7

LEMMA ParsedBoolean ==
    ASSUME NEW img PROVE ParseManifestLayout(img).ok \in BOOLEAN
  <1>1. PICK c, d : ParseManifestLayout(img) = [ok |-> FALSE, chunks |-> c, derived |-> d]
                    \/ ParseManifestLayout(img) = [ok |-> TRUE, chunks |-> c, derived |-> d]
    BY Zenon DEF ParseManifestLayout, Unreadable
  <1> DEFINE p == ParseManifestLayout(img)
  <1>2. ASSUME p = [ok |-> FALSE, chunks |-> c, derived |-> d] PROVE p.ok = FALSE
    <2> HIDE DEF p
    <2> QED  BY <1>2
  <1>3. ASSUME p = [ok |-> TRUE, chunks |-> c, derived |-> d] PROVE p.ok = TRUE
    <2> HIDE DEF p
    <2> QED  BY <1>3
  <1> QED  BY <1>1, <1>2, <1>3, Zenon

(***************************************************************************)
(* The layer the label leads to: the ostree layer, or the first chunk that *)
(* is equal to the last one.                                               *)
(***************************************************************************)
LEMMA TargetIs ==
    ASSUME NEW img, NEW from, MadeFrom(img, from)
    PROVE  LET n == Len(from.chunks)
               t == LayerFromDiffid(img)
           IN  /\ n = 0 /\ ~from.orphaned => t = 1
               /\ n > 0 => /\ t \in 2..(n + 1) /\ from.chunks[t - 1] = from.chunks[n]
                          /\ \A i \in 1..n : from.chunks[i] = from.chunks[n] => t <= i + 1
  <1> DEFINE n == Len(from.chunks)
             places == {i \in DOMAIN img.diffids : img.label = {img.diffids[i]}}
             t == LayerFromDiffid(img)
  <1>1. n \in Nat /\ Size(from) \in Nat /\ Size(from) >= n + 1 /\ Len(img.layers) = Size(from)
    <2> DEFINE d == Len(from.trees)
    <2>1. n \in Nat /\ d \in Nat
      BY ChunksType DEF MadeFrom, MadeType
    <2>2. Size(from) = 1 + n + d
      BY DEF Size
    <2>3. Len(img.layers) = Size(from)
      BY OneOstree
    <2> HIDE DEF n, d
    <2> QED  BY <2>1, <2>2, <2>3
  <1>2. /\ DOMAIN img.diffids = 1..Len(img.diffids) /\ Len(img.diffids) \in Nat
        /\ Len(img.diffids) >= Size(from)
    BY DEF MadeFrom, ImageType, ConfigOK
  <1>3. places \in SUBSET Nat
    BY <1>2
  <1>4. ASSUME NEW m \in places, \A k \in places : m <= k, m <= Size(from) PROVE t = m
    <2>1. Min(places) = m
      BY <1>3, <1>4, MinIs
    <2>2. t = IF places = {} \/ Min(places) > Len(img.layers) THEN 0 ELSE Min(places)
      BY DEF LayerFromDiffid
    <2> HIDE DEF places, t
    <2> QED  BY <1>1, <1>3, <1>4, <2>1, <2>2
  <1>5. ASSUME n = 0, ~from.orphaned PROVE t = 1
    <2>1. img.label = {img.diffids[1]}
      BY <1>5 DEF MadeFrom, ConfigOK
    <2>2. 1 \in places /\ \A k \in places : 1 <= k
      BY <1>1, <1>2, <2>1
    <2> HIDE DEF places, t
    <2> QED  BY <1>1, <1>4, <2>2
  <1>6. ASSUME n > 0
        PROVE  /\ t \in 2..(n + 1) /\ from.chunks[t - 1] = from.chunks[n]
               /\ \A i \in 1..n : from.chunks[i] = from.chunks[n] => t <= i + 1
    <2>1. img.label = {ChunkBlob(from.chunks[n])}
      BY <1>6 DEF MadeFrom, ConfigOK
    <2>2. \A i \in 1..n : img.diffids[i + 1] = ChunkBlob(from.chunks[i])
      BY DEF MadeFrom, ConfigOK
    <2>3. 1 \notin places
      <3>1. img.diffids[1].kind = "ostree"
        BY OneOstree DEF MadeFrom, ConfigOK
      <3> QED  BY <2>1, <3>1 DEF ChunkBlob
    <2>4. \A i \in 1..n : i + 1 \in places <=> from.chunks[i] = from.chunks[n]
      <3> SUFFICES ASSUME NEW i \in 1..n PROVE i + 1 \in places <=> from.chunks[i] = from.chunks[n]
        OBVIOUS
      <3>1. i + 1 \in DOMAIN img.diffids
        <4> HIDE DEF n
        <4> QED  BY <1>1, <1>2
      <3>2. ChunkBlob(from.chunks[i]) = ChunkBlob(from.chunks[n]) <=> from.chunks[i] = from.chunks[n]
        BY DEF ChunkBlob
      <3>3. i + 1 \in places <=> ChunkBlob(from.chunks[i]) = ChunkBlob(from.chunks[n])
        <4> HIDE DEF n
        <4> QED  BY <2>1, <2>2, <3>1
      <3> QED  BY <3>2, <3>3
    <2> HIDE DEF places, t, n
    <2>5. n + 1 \in places
      BY <1>1, <1>6, <2>4
    <2>6. PICK m \in places : \A k \in places : m <= k
      BY <1>3, <2>5, Least
    <2>7. m \in Nat /\ m <= n + 1 /\ m # 1 /\ m # 0
      BY <1>2, <1>3, <2>3, <2>5, <2>6 DEF places
    <2>8. t = m
      BY <1>1, <1>4, <2>6, <2>7
    <2>9. m - 1 \in 1..n /\ (m - 1) + 1 = m
      BY <1>1, <2>7
    <2>10. from.chunks[m - 1] = from.chunks[n]
      BY <2>4, <2>6, <2>9
    <2>11. \A i \in 1..n : from.chunks[i] = from.chunks[n] => m <= i + 1
      BY <2>4, <2>6
    <2> QED  BY <1>1, <2>7, <2>8, <2>10, <2>11
  <1> QED  BY <1>5, <1>6

EmptiedIn(from) ==
    \E i, j \in DOMAIN from.chunks : i < j /\ j = Len(from.chunks) /\ from.chunks[i] = from.chunks[j]

(***************************************************************************)
(* An image that is not orphaned can be read exactly if no chunk is as     *)
(* empty as the last one, and then the target is the last layer of the     *)
(* commit.                                                                 *)
(***************************************************************************)
LEMMA Readable ==
    ASSUME NEW img, NEW from, MadeFrom(img, from), ~from.orphaned
    PROVE  /\ ParseManifestLayout(img).ok <=> ~EmptiedIn(from)
           /\ ParseManifestLayout(img).ok => LayerFromDiffid(img) = Len(from.chunks) + 1
  <1> DEFINE n == Len(from.chunks)
             t == LayerFromDiffid(img)
             ok == ParseManifestLayout(img).ok
             N == Size(from)
             layers == img.layers
  <1>1. n \in Nat /\ N \in Nat /\ n + 1 <= N /\ DOMAIN from.chunks = 1..n
    <2> DEFINE d == Len(from.trees)
    <2>1. n \in Nat /\ d \in Nat /\ DOMAIN from.chunks = 1..n
      BY ChunksType DEF MadeFrom, MadeType
    <2>2. N = 1 + n + d
      BY DEF Size
    <2> HIDE DEF n, d, N
    <2> QED  BY <2>1, <2>2
  <1>2. /\ t \in 0..N
        /\ ok <=> t # 0 /\ \A i \in 1..N : layers[i] = layers[t] => i = t
    BY Parsed
  <1>3. CASE n = 0
    <2>1. t = 1
      BY <1>3, TargetIs
    <2>2. \A i \in 1..N : layers[i] = layers[1] => i = 1
      BY <1>1, OneOstree
    <2>3. ~EmptiedIn(from)
      <3> HIDE DEF n
      <3> QED  BY <1>1, <1>3 DEF EmptiedIn
    <2> QED  BY <1>2, <1>3, <2>1, <2>2, <2>3
  <1>4. CASE n > 0
    <2>1. /\ t \in 2..(n + 1) /\ from.chunks[t - 1] = from.chunks[n]
          /\ \A i \in 1..n : from.chunks[i] = from.chunks[n] => t <= i + 1
      BY <1>4, TargetIs
    <2>2. \A i \in 1..n : layers[i + 1].blob = ChunkBlob(from.chunks[i])
      BY DEF MadeFrom, LayersOK
    <2>3. CASE EmptiedIn(from)
      <3>1. PICK i \in 1..n : i < n /\ from.chunks[i] = from.chunks[n]
        BY <1>1, <2>3 DEF EmptiedIn
      <3>2. t - 1 \in 1..n /\ t <= i + 1 /\ t # n + 1 /\ (t - 1) + 1 = t
        <4>1. t <= i + 1
          BY <2>1, <3>1
        <4> HIDE DEF n, t
        <4> QED  BY <1>1, <2>1, <3>1, <4>1
      <3>3. layers[t].blob = layers[n + 1].blob
        <4>1. layers[(t - 1) + 1].blob = ChunkBlob(from.chunks[t - 1])
          BY <2>2, <3>2
        <4>2. layers[n + 1].blob = ChunkBlob(from.chunks[n])
          BY <1>1, <1>4, <2>2
        <4> QED  BY <2>1, <3>2, <4>1, <4>2
      <3>4. layers[t].anno = layers[n + 1].anno
        <4>1. \/ \A k \in 1..n : layers[k + 1].anno = {from.chunks[k]}
              \/ \A k \in 1..n : layers[k + 1].anno = {{}}
          BY DEF MadeFrom, LayersOK
        <4>2. n \in 1..n
          BY <1>1, <1>4
        <4> HIDE DEF n, t, layers
        <4> QED  BY <2>1, <3>2, <4>1, <4>2
      <3>5. layers[t] = layers[n + 1]
        <4>1. layers \in Seq(Layer) /\ Len(layers) = N
          BY OneOstree
        <4>2. t \in 1..N /\ n + 1 \in 1..N
          <5> HIDE DEF n, t, N
          <5> QED  BY <1>1, <2>1
        <4>3. layers[t] \in Layer /\ layers[n + 1] \in Layer
          <5> HIDE DEF layers, n, t, N
          <5> QED  BY <4>1, <4>2
        <4> HIDE DEF layers, n, t, N
        <4> QED  BY <3>3, <3>4, <4>3 DEF Layer
      <3>6. ~ok
        <4> HIDE DEF layers, n, t, N, ok
        <4> QED  BY <1>1, <1>2, <3>2, <3>5
      <3> QED  BY <2>3, <3>6
    <2>4. CASE ~EmptiedIn(from)
      <3>1. \A i \in 1..n : from.chunks[i] = from.chunks[n] => i = n
        <4>1. \A i \in 1..n : ~(i < n /\ from.chunks[i] = from.chunks[n])
          BY <1>1, <1>4, <2>4 DEF EmptiedIn
        <4> HIDE DEF n
        <4> QED  BY <1>1, <4>1
      <3>2. t = n + 1
        <4> HIDE DEF n, t
        <4>1. t - 1 \in 1..n
          BY <1>1, <2>1
        <4> QED  BY <1>1, <2>1, <3>1, <4>1
      <3>3. ASSUME NEW i \in 1..N, layers[i] = layers[n + 1] PROVE i = n + 1
        <4>1. layers[n + 1].blob = ChunkBlob(from.chunks[n]) /\ layers[n + 1].blob.kind = "chunk"
          BY <1>1, <1>4, <2>2 DEF ChunkBlob
        <4>2. i \in 2..(n + 1)
          <5>1. i # 1
            BY <3>3, <4>1, OneOstree
          <5>2. i \notin (n + 2)..N
            BY <3>3, <4>1, OneOstree
          <5> HIDE DEF n, N
          <5> QED  BY <1>1, <5>1, <5>2
        <4>3. i - 1 \in 1..n /\ (i - 1) + 1 = i
          <5> HIDE DEF n
          <5> QED  BY <1>1, <4>2
        <4>4. ChunkBlob(from.chunks[i - 1]) = ChunkBlob(from.chunks[n])
          BY <2>2, <3>3, <4>1, <4>3
        <4>5. from.chunks[i - 1] = from.chunks[n]
          BY <4>4 DEF ChunkBlob
        <4> HIDE DEF n
        <4> QED  BY <1>1, <3>1, <4>3, <4>5
      <3>4. ok
        <4> HIDE DEF layers, n, t, N, ok
        <4> QED  BY <1>1, <1>2, <3>2, <3>3
      <3> QED  BY <2>4, <3>2, <3>4
    <2> QED  BY <2>3, <2>4
  <1> QED  BY <1>1, <1>3, <1>4

(***************************************************************************)
(* An import that takes no derived layer for a chunk begins its derived    *)
(* layers after the last chunk, also for an orphaned label.                *)
(***************************************************************************)
LEMMA ImportedAt ==
    ASSUME NEW img, NEW from, MadeFrom(img, from), ParseManifestLayout(img).ok,
           \A i \in DOMAIN ParseManifestLayout(img).chunks :
              ParseManifestLayout(img).chunks[i].blob.kind = "chunk"
    PROVE  LayerFromDiffid(img) = Len(from.chunks) + 1
  <1> DEFINE t == LayerFromDiffid(img)
             N == Size(from)
             c == ParseManifestLayout(img).chunks
  <1>1. CASE ~from.orphaned
    BY <1>1, Readable
  <1>2. CASE from.orphaned
    <2>1. Len(from.chunks) = 0
      BY <1>2 DEF MadeFrom, ConfigOK
    <2>2. t \in 1..N /\ c = [k \in 1..(t - 1) |-> img.layers[k + 1]] /\ N \in Nat
      <3>1. t \in 0..N /\ t # 0 /\ c = [k \in 1..(t - 1) |-> img.layers[k + 1]]
        BY Parsed
      <3>2. N \in Nat
        BY OneOstree
      <3> HIDE DEF t, N, c
      <3> QED  BY <3>1, <3>2
    <2>3. ASSUME t # 1 PROVE FALSE
      <3>1. img.layers[2].blob.kind = "derived"
        <4>1. 2 \in (Len(from.chunks) + 2)..N
          <5> HIDE DEF t, N, c
          <5> QED  BY <2>1, <2>2, <2>3
        <4> QED  BY <4>1, OneOstree
      <3>2. 1 \in DOMAIN c /\ c[1] = img.layers[2]
        <4> HIDE DEF t, N, c
        <4> QED  BY <2>2, <2>3
      <3>3. c[1].blob.kind = "chunk"
        BY <3>2
      <3> QED  BY <3>1, <3>2, <3>3
    <2> QED  BY <2>1, <2>3
  <1>3. from.orphaned \in BOOLEAN
    BY DEF MadeFrom, MadeType
  <1> QED  BY <1>1, <1>2, <1>3

(***************************************************************************)
(* An image that is read at the right place gives back all that it was     *)
(* made from.                                                              *)
(***************************************************************************)
LEMMA ReadAll ==
    ASSUME NEW img, NEW from, MadeFrom(img, from), ParseManifestLayout(img).ok,
           LayerFromDiffid(img) = Len(from.chunks) + 1
    PROVE  LET layout == ParseManifestLayout(img)
           IN  /\ SetsOf(layout.chunks) = from.chunks
               /\ TreesOf(layout.derived) = TreesMade(from)
               /\ img.layers[1].blob.holds \cup UNION ToSet(SetsOf(layout.chunks)) = Objects
               /\ img.layers[1].blob.as = from.meta
               /\ \A i \in DOMAIN layout.chunks : layout.chunks[i].blob.kind = "chunk"
  <1> DEFINE n == Len(from.chunks)
             d == Len(from.trees)
             N == Size(from)
             layers == img.layers
             c == ParseManifestLayout(img).chunks
             e == ParseManifestLayout(img).derived
  <1>1. /\ n \in Nat /\ d \in Nat /\ N = 1 + n + d /\ layers \in Seq(Layer) /\ Len(layers) = N
        /\ from.chunks \in Seq(SUBSET Objects) /\ from.trees \in Seq(Trees)
    <2>1. from \in MadeType
      BY DEF MadeFrom
    <2>2. n \in Nat /\ from.chunks \in Seq(SUBSET Objects)
      BY <2>1, ChunksType
    <2>3. from.trees \in Seq(Trees)
      BY <2>1 DEF MadeType
    <2>4. d \in Nat
      BY <2>3
    <2>5. N = 1 + n + d
      BY DEF Size
    <2>6. layers \in Seq(Layer) /\ Len(layers) = N
      BY OneOstree
    <2> QED  BY <2>2, <2>3, <2>4, <2>5, <2>6
  <1>2. c = [k \in 1..n |-> layers[k + 1]] /\ e = SubSeq(layers, n + 2, N)
    <2>1. /\ c = [k \in 1..((n + 1) - 1) |-> layers[k + 1]]
          /\ e = SubSeq(layers, (n + 1) + 1, N)
      BY Parsed
    <2>2. (n + 1) - 1 = n /\ (n + 1) + 1 = n + 2
      <3> HIDE DEF n
      <3> QED  BY <1>1
    <2> QED  BY <2>1, <2>2
  <1>3. \A i \in 1..n : c[i].blob = ChunkBlob(from.chunks[i])
    <2>1. \A i \in 1..n : layers[i + 1].blob = ChunkBlob(from.chunks[i])
      BY DEF MadeFrom, LayersOK
    <2> HIDE DEF n, c, layers
    <2> QED  BY <1>2, <2>1
  <1>4. DOMAIN c = 1..n
    <2> HIDE DEF c
    <2> QED  BY <1>2
  <1>5. SetsOf(c) = from.chunks
    <2>1. SetsOf(c) = [i \in 1..n |-> from.chunks[i]]
      <3>1. \A i \in 1..n : c[i].blob.holds = from.chunks[i]
        <4> HIDE DEF c, n
        <4> QED  BY <1>3, BlobFields
      <3> HIDE DEF c, n
      <3> QED  BY <1>4, <3>1 DEF SetsOf
    <2>2. from.chunks = [i \in 1..n |-> from.chunks[i]]
      BY <1>1
    <2> QED  BY <2>1, <2>2
  <1>6. TreesOf(e) = TreesMade(from)
    <2>1. DOMAIN e = 1..d /\ \A i \in 1..d : e[i] = layers[i + n + 1]
      <3> HIDE DEF n, d, N, layers, e
      <3>1. Len(e) = d /\ DOMAIN e = 1..d
        BY <1>1, <1>2
      <3> QED  BY <1>1, <1>2, <3>1
    <2>2. \A i \in 1..d : /\ layers[i + n + 1].blob.kind = "derived"
                          /\ layers[i + n + 1].blob.holds = TreesMade(from)[i]
      BY DEF MadeFrom, LayersOK
    <2>3. TreesOf(e) = [i \in 1..d |-> TreesMade(from)[i]]
      <3> HIDE DEF e, d, n, layers
      <3> QED  BY <2>1, <2>2 DEF TreesOf
    <2>4. TreesMade(from) = [i \in 1..d |-> TreesMade(from)[i]]
      BY <1>1 DEF TreesMade
    <2> QED  BY <2>3, <2>4
  <1>7. layers[1].blob.holds \cup UNION ToSet(from.chunks) = Objects /\ layers[1].blob.as = from.meta
    <2>1. layers[1].blob = OstreeBlob(Objects \ UNION ToSet(from.chunks), from.meta)
      BY DEF MadeFrom, LayersOK, OstreeLayer
    <2>2. UNION ToSet(from.chunks) \subseteq Objects
      BY <1>1 DEF ToSet
    <2> QED  BY <2>1, <2>2 DEF OstreeBlob
  <1>8. \A i \in DOMAIN c : c[i].blob.kind = "chunk"
    <2> HIDE DEF c, n
    <2> QED  BY <1>3, <1>4, BlobFields
  <1> QED  BY <1>5, <1>6, <1>7, <1>8

(***************************************************************************)
(* Empty images, and types of what the actions put together.               *)
(***************************************************************************)
LEMMA NoImageIs ==
    /\ NoImage \in ImageType /\ Unmade \in MadeType
    /\ ParseManifestLayout(NoImage).ok = FALSE
  <1>1. NoImage \in ImageType
    BY DEF NoImage, EmptyImage, NoLabel, ImageType
  <1>2. Unmade \in MadeType
    BY DEF Unmade, MadeType
  <1>3. ParseManifestLayout(NoImage) = Unreadable
    BY Zenon DEF ParseManifestLayout, NoImage, EmptyImage
  <1> QED  BY <1>1, <1>2, <1>3 DEF Unreadable

LEMMA PushedLayers ==
    ASSUME NEW img \in ImageType, NEW layers \in Seq(Layer)
    PROVE  /\ PushLayers(img, layers) \in ImageType
           /\ PushLayers(img, layers).label = img.label
           /\ PushLayers(img, layers).layers = img.layers \o layers
           /\ PushLayers(img, layers).diffids = img.diffids \o Blobs(layers)
           /\ Blobs(layers) \in Seq(Blob) /\ Len(Blobs(layers)) = Len(layers)
           /\ \A i \in 1..Len(layers) : Blobs(layers)[i] = layers[i].blob
  <1>1. /\ Blobs(layers) \in Seq(Blob) /\ Len(Blobs(layers)) = Len(layers)
        /\ \A i \in 1..Len(layers) : Blobs(layers)[i] = layers[i].blob
    <2>1. ASSUME NEW i \in 1..Len(layers) PROVE layers[i].blob \in Blob
      <3>1. layers[i] \in Layer
        OBVIOUS
      <3> QED  BY <3>1 DEF Layer
    <2>2. Blobs(layers) = [i \in 1..Len(layers) |-> layers[i].blob]
      BY DEF Blobs
    <2> QED  BY <2>1, <2>2
  <1>2. img.layers \o layers \in Seq(Layer) /\ img.diffids \o Blobs(layers) \in Seq(Blob)
    BY <1>1 DEF ImageType
  <1> HIDE DEF Blobs
  <1>3. PushLayers(img, layers) =
            [layers |-> img.layers \o layers, diffids |-> img.diffids \o Blobs(layers), label |-> img.label]
    <2> DEFINE a == img.layers
               b == img.diffids
               c == img.label
               x == a \o layers
               y == b \o Blobs(layers)
    <2>1. img = [layers |-> a, diffids |-> b, label |-> c]
      BY DEF ImageType
    <2>2. PushLayers(img, layers) = [img EXCEPT !.layers = x, !.diffids = y]
      BY DEF PushLayers
    <2> HIDE DEF a, b, c, x, y
    <2>3. PushLayers(img, layers) = [layers |-> x, diffids |-> y, label |-> c]
      BY <2>1, <2>2
    <2> QED  BY <2>3 DEF a, b, c, x, y
  <1> QED  BY <1>1, <1>2, <1>3 DEF ImageType

LEMMA BlobsConcat ==
    ASSUME NEW one \in Seq(Layer), NEW two \in Seq(Layer)
    PROVE  Blobs(one \o two) = Blobs(one) \o Blobs(two)
  <1> DEFINE n == Len(one)
             m == Len(two)
             new == one \o two
             a == Blobs(new)
             b == Blobs(one)
             e == Blobs(two)
             c == b \o e
  <1>1. n \in Nat /\ m \in Nat
    OBVIOUS
  <1>2. /\ new \in Seq(Layer) /\ Len(new) = n + m
        /\ \A i \in 1..n : new[i] = one[i]
        /\ \A i \in 1..m : new[n + i] = two[i]
    BY Concat
  <1>3. NoImage \in ImageType
    BY NoImageIs
  <1> HIDE DEF new
  <1>4. /\ a \in Seq(Blob) /\ Len(a) = Len(new) /\ \A i \in 1..Len(new) : a[i] = new[i].blob
        /\ b \in Seq(Blob) /\ Len(b) = n /\ \A i \in 1..n : b[i] = one[i].blob
        /\ e \in Seq(Blob) /\ Len(e) = m /\ \A i \in 1..m : e[i] = two[i].blob
    <2>1. a \in Seq(Blob) /\ Len(a) = Len(new) /\ \A i \in 1..Len(new) : a[i] = new[i].blob
      <3>1. new \in Seq(Layer)
        BY <1>2
      <3> QED  BY <1>3, <3>1, PushedLayers
    <2>2. b \in Seq(Blob) /\ Len(b) = n /\ \A i \in 1..n : b[i] = one[i].blob
      BY <1>3, PushedLayers
    <2>3. e \in Seq(Blob) /\ Len(e) = m /\ \A i \in 1..m : e[i] = two[i].blob
      BY <1>3, PushedLayers
    <2> QED  BY <2>1, <2>2, <2>3
  <1> HIDE DEF a, b, e, n, m
  <1>5. /\ c \in Seq(Blob) /\ Len(c) = n + m
        /\ \A i \in 1..n : c[i] = b[i]
        /\ \A i \in 1..m : c[n + i] = e[i]
    <2>1. b \in Seq(Blob) /\ e \in Seq(Blob)
      BY <1>4
    <2>2. /\ c \in Seq(Blob) /\ Len(c) = Len(b) + Len(e)
          /\ \A i \in 1..Len(b) : c[i] = b[i]
          /\ \A i \in 1..Len(e) : c[Len(b) + i] = e[i]
      BY <2>1, Concat
    <2>3. Len(b) = n /\ Len(e) = m
      BY <1>4
    <2> HIDE DEF c
    <2> QED  BY <2>2, <2>3, Zenon
  <1> HIDE DEF c
  <1>6. ASSUME NEW i \in 1..(n + m) PROVE a[i] = c[i]
    <2>1. a[i] = new[i].blob
      BY <1>2, <1>4
    <2>2. CASE i \in 1..n
      BY <1>2, <1>4, <1>5, <2>1, <2>2
    <2>3. CASE i - n \in 1..m /\ n + (i - n) = i
      <3>1. new[i] = two[i - n] /\ c[i] = e[i - n] /\ e[i - n] = two[i - n].blob
        <4>1. new[n + (i - n)] = two[i - n] /\ c[n + (i - n)] = e[i - n] /\ e[i - n] = two[i - n].blob
          BY <1>2, <1>4, <1>5, <2>3
        <4> QED  BY <2>3, <4>1
      <3> QED  BY <2>1, <3>1
    <2> QED  BY <1>1, <2>2, <2>3
  <1>7. a = c
    BY <1>1, <1>2, <1>4, <1>5, <1>6
  <1> QED  BY <1>7 DEF a, b, c, e, new

(***************************************************************************)
(* The histories the actions write, named.                                 *)
(***************************************************************************)
WithChunks(from, chunks, meta) == [from EXCEPT !.chunks = chunks, !.meta = meta]
WithTree(from, tree) == [from EXCEPT !.trees = Append(@, tree)]
WithMeta(from, meta, orphaned) == [from EXCEPT !.meta = meta, !.orphaned = orphaned]
WithExport(from, failed) == [from EXCEPT !.exports = @ + 1, !.lost = @ \cup failed]

LEMMA Remade ==
    ASSUME NEW from \in MadeType
    PROVE  /\ \A x \in Chunkings \cup {<<>>}, y \in Metas \cup {NoMeta} :
                 /\ WithChunks(from, x, y) \in MadeType
                 /\ WithChunks(from, x, y) =
                       [chunks |-> x, meta |-> y, trees |-> from.trees, lost |-> from.lost,
                        exports |-> from.exports, orphaned |-> from.orphaned]
           /\ \A x \in Trees :
                 /\ WithTree(from, x) \in MadeType
                 /\ WithTree(from, x) =
                       [chunks |-> from.chunks, meta |-> from.meta, trees |-> Append(from.trees, x),
                        lost |-> from.lost, exports |-> from.exports, orphaned |-> from.orphaned]
           /\ \A x \in Metas \cup {NoMeta}, y \in BOOLEAN :
                 /\ WithMeta(from, x, y) \in MadeType
                 /\ WithMeta(from, x, y) =
                       [chunks |-> from.chunks, meta |-> x, trees |-> from.trees, lost |-> from.lost,
                        exports |-> from.exports, orphaned |-> y]
           /\ \A x \in SUBSET Nat :
                 /\ WithExport(from, x) \in MadeType
                 /\ WithExport(from, x) =
                       [chunks |-> from.chunks, meta |-> from.meta, trees |-> from.trees,
                        lost |-> from.lost \cup x, exports |-> from.exports + 1, orphaned |-> from.orphaned]
  <1> DEFINE a == from.chunks
             b == from.meta
             c == from.trees
             d == from.lost
             e == from.exports
             f == from.orphaned
  <1>1. from = [chunks |-> a, meta |-> b, trees |-> c, lost |-> d, exports |-> e, orphaned |-> f]
    BY DEF MadeType
  <1>2. /\ a \in Chunkings \cup {<<>>} /\ b \in Metas \cup {NoMeta} /\ c \in Seq(Trees)
        /\ d \in SUBSET Nat /\ e \in Nat /\ f \in BOOLEAN
    BY DEF MadeType
  <1>3. ASSUME NEW x \in Chunkings \cup {<<>>}, NEW y \in Metas \cup {NoMeta}
        PROVE  /\ WithChunks(from, x, y) \in MadeType
               /\ WithChunks(from, x, y) =
                     [chunks |-> x, meta |-> y, trees |-> c, lost |-> d, exports |-> e, orphaned |-> f]
    <2> HIDE DEF a, b, c, d, e, f
    <2> DEFINE g == [from EXCEPT !.chunks = x]
    <2>0. WithChunks(from, x, y) = [g EXCEPT !.meta = y]
      BY Zenon DEF WithChunks
    <2>2. g = [chunks |-> x, meta |-> b, trees |-> c, lost |-> d, exports |-> e, orphaned |-> f]
      BY <1>1
    <2> HIDE DEF g
    <2>1. WithChunks(from, x, y) =
              [chunks |-> x, meta |-> y, trees |-> c, lost |-> d, exports |-> e, orphaned |-> f]
      BY <2>0, <2>2
    <2> QED  BY <1>2, <2>1 DEF MadeType
  <1>4. ASSUME NEW x \in Trees
        PROVE  /\ WithTree(from, x) \in MadeType
               /\ WithTree(from, x) =
                     [chunks |-> a, meta |-> b, trees |-> Append(c, x), lost |-> d, exports |-> e,
                      orphaned |-> f]
    <2>1. WithTree(from, x) = [from EXCEPT !.trees = Append(c, x)]
      BY DEF WithTree
    <2> HIDE DEF a, b, c, d, e, f
    <2>2. [from EXCEPT !.trees = Append(c, x)] =
              [chunks |-> a, meta |-> b, trees |-> Append(c, x), lost |-> d, exports |-> e, orphaned |-> f]
      BY <1>1
    <2>3. Append(c, x) \in Seq(Trees)
      BY <1>2
    <2> QED  BY <1>2, <2>1, <2>2, <2>3 DEF MadeType
  <1>5. ASSUME NEW x \in Metas \cup {NoMeta}, NEW y \in BOOLEAN
        PROVE  /\ WithMeta(from, x, y) \in MadeType
               /\ WithMeta(from, x, y) =
                     [chunks |-> a, meta |-> x, trees |-> c, lost |-> d, exports |-> e, orphaned |-> y]
    <2> HIDE DEF a, b, c, d, e, f
    <2> DEFINE g == [from EXCEPT !.meta = x]
               z == y
               w == WithMeta(from, x, y)
    <2>0. w = [g EXCEPT !.orphaned = z]
      BY Zenon DEF WithMeta
    <2>2. g = [chunks |-> a, meta |-> x, trees |-> c, lost |-> d, exports |-> e, orphaned |-> f]
      BY <1>1
    <2>3. z \in BOOLEAN
      OBVIOUS
    <2> HIDE DEF g, z, w
    <2>1. w = [chunks |-> a, meta |-> x, trees |-> c, lost |-> d, exports |-> e, orphaned |-> z]
      BY <2>0, <2>2
    <2>4. w \in MadeType
      BY <1>2, <2>1, <2>3 DEF MadeType
    <2> QED  BY <2>1, <2>4, Zenon DEF z, w
  <1>6. ASSUME NEW x \in SUBSET Nat
        PROVE  /\ WithExport(from, x) \in MadeType
               /\ WithExport(from, x) =
                     [chunks |-> a, meta |-> b, trees |-> c, lost |-> d \cup x, exports |-> e + 1,
                      orphaned |-> f]
    <2> DEFINE u == e + 1
               v == d \cup x
    <2>1. WithExport(from, x) = [from EXCEPT !.exports = u, !.lost = v]
      BY DEF WithExport
    <2>2. u \in Nat /\ v \in SUBSET Nat
      <3>1. e \in Nat /\ d \in SUBSET Nat
        BY <1>2
      <3> HIDE DEF a, b, c, d, e, f
      <3> QED  BY <3>1
    <2> HIDE DEF a, b, c, d, e, f, u, v
    <2> DEFINE g == [from EXCEPT !.exports = u]
    <2>4. WithExport(from, x) = [g EXCEPT !.lost = v]
      BY <2>1, Zenon
    <2>5. g = [chunks |-> a, meta |-> b, trees |-> c, lost |-> d, exports |-> u, orphaned |-> f]
      BY <1>1
    <2> HIDE DEF g
    <2>3. WithExport(from, x) =
              [chunks |-> a, meta |-> b, trees |-> c, lost |-> v, exports |-> u, orphaned |-> f]
      BY <2>4, <2>5
    <2> QED  BY <1>2, <2>2, <2>3 DEF MadeType, u, v
  <1> QED  BY <1>3, <1>4, <1>5, <1>6

LEMMA Labelled ==
    ASSUME NEW img \in ImageType, NEW label \in SUBSET Blob
    PROVE  /\ [img EXCEPT !.label = label] \in ImageType
           /\ [img EXCEPT !.label = label].layers = img.layers
           /\ [img EXCEPT !.label = label].diffids = img.diffids
           /\ [img EXCEPT !.label = label].label = label
  BY DEF ImageType

LEMMA Cleared ==
    ASSUME NEW img \in ImageType
    PROVE  /\ [img EXCEPT !.layers = <<>>] \in ImageType
           /\ [img EXCEPT !.layers = <<>>].layers = <<>>
           /\ [img EXCEPT !.layers = <<>>].diffids = img.diffids
  <1>1. <<>> \in Seq(Layer)
    OBVIOUS
  <1> QED  BY <1>1 DEF ImageType

LEMMA LayerTypes ==
    ASSUME NEW chunks \in Seq(SUBSET Objects), NEW meta \in Metas \cup {NoMeta}
    PROVE  /\ OstreeLayer(chunks, meta) \in Layer
           /\ \A i \in 1..Len(chunks) : ChunkBlob(chunks[i]) \in Blob
           /\ ChunkLayers(chunks) \in Seq(Layer) /\ Len(ChunkLayers(chunks)) = Len(chunks)
           /\ \A i \in 1..Len(chunks) : /\ ChunkLayers(chunks)[i].blob = ChunkBlob(chunks[i])
                                        /\ ChunkLayers(chunks)[i].anno = {chunks[i]}
           /\ \A tree \in Trees : DerivedLayer(tree) \in Layer
  <1>1. \A objs \in SUBSET Objects : ChunkBlob(objs) \in Blob /\ OstreeBlob(objs, meta) \in Blob
    BY DEF ChunkBlob, OstreeBlob, Blob
  <1>2. \A b \in Blob, objs \in SUBSET Objects :
            [blob |-> b, anno |-> {objs}] \in Layer /\ [blob |-> b, anno |-> {}] \in Layer
    BY DEF Layer
  <1>3. OstreeLayer(chunks, meta) \in Layer
    BY <1>1, <1>2 DEF OstreeLayer, NoAnno
  <1>4. \A i \in 1..Len(chunks) : chunks[i] \in SUBSET Objects
    OBVIOUS
  <1>5. ChunkLayers(chunks) = [i \in 1..Len(chunks) |-> [blob |-> ChunkBlob(chunks[i]), anno |-> {chunks[i]}]]
    BY DEF ChunkLayers
  <1>6. \A i \in 1..Len(chunks) : [blob |-> ChunkBlob(chunks[i]), anno |-> {chunks[i]}] \in Layer
    BY <1>1, <1>2, <1>4
  <1>7. ChunkLayers(chunks) \in Seq(Layer) /\ Len(ChunkLayers(chunks)) = Len(chunks)
    BY <1>5, <1>6
  <1>8. \A i \in 1..Len(chunks) : /\ ChunkLayers(chunks)[i].blob = ChunkBlob(chunks[i])
                                  /\ ChunkLayers(chunks)[i].anno = {chunks[i]}
    BY <1>5
  <1>9. ASSUME NEW tree \in Trees PROVE DerivedLayer(tree) \in Layer
    <2>1. DerivedBlob(tree, "tool") \in Blob
      BY DEF DerivedBlob, Blob
    <2> QED  BY <2>1 DEF DerivedLayer, NoAnno, Layer
  <1> QED  BY <1>1, <1>3, <1>4, <1>7, <1>8, <1>9

(***************************************************************************)
(* What export_chunked adds to an image.                                   *)
(***************************************************************************)
LEMMA ExportedChunks ==
    ASSUME NEW img \in ImageType, NEW ostree \in Layer, NEW chunks \in Seq(Layer)
    PROVE  /\ ExportChunked(img, ostree, chunks) \in ImageType
           /\ ExportChunked(img, ostree, chunks).layers = (img.layers \o <<ostree>>) \o chunks
           /\ ExportChunked(img, ostree, chunks).diffids = (img.diffids \o <<ostree.blob>>) \o Blobs(chunks)
           /\ ExportChunked(img, ostree, chunks).label =
                  IF chunks = <<>> THEN {ostree.blob} ELSE {chunks[Len(chunks)].blob}
  <1> DEFINE one == PushLayer(img, ostree)
             all == PushLayers(one, chunks)
             label == {LastDigest(ostree, chunks)}
  <1>1. <<ostree>> \in Seq(Layer) /\ Len(<<ostree>>) = 1
    OBVIOUS
  <1>2. Blobs(<<ostree>>) = <<ostree.blob>>
    BY DEF Blobs
  <1>3. /\ one \in ImageType /\ one.layers = img.layers \o <<ostree>>
        /\ one.diffids = img.diffids \o <<ostree.blob>>
    <2>1. one = PushLayers(img, <<ostree>>)
      BY DEF PushLayer
    <2> HIDE DEF one
    <2>2. /\ PushLayers(img, <<ostree>>) \in ImageType
          /\ PushLayers(img, <<ostree>>).layers = img.layers \o <<ostree>>
          /\ PushLayers(img, <<ostree>>).diffids = img.diffids \o Blobs(<<ostree>>)
      BY <1>1, PushedLayers, Zenon
    <2> QED  BY <1>2, <2>1, <2>2, Zenon
  <1> HIDE DEF one
  <1>4. /\ all \in ImageType /\ all.layers = (img.layers \o <<ostree>>) \o chunks
        /\ all.diffids = (img.diffids \o <<ostree.blob>>) \o Blobs(chunks)
    <2>1. /\ PushLayers(one, chunks) \in ImageType
          /\ PushLayers(one, chunks).layers = one.layers \o chunks
          /\ PushLayers(one, chunks).diffids = one.diffids \o Blobs(chunks)
      BY <1>3, PushedLayers, Zenon
    <2> QED  BY <1>3, <2>1, Zenon
  <1>5. /\ chunks = <<>> => LastDigest(ostree, chunks) = ostree.blob
        /\ chunks # <<>> => LastDigest(ostree, chunks) = chunks[Len(chunks)].blob
    BY DEF LastDigest, Last
  <1>6. LastDigest(ostree, chunks) \in Blob
    <2>1. CASE chunks = <<>>
      BY <1>5, <2>1 DEF Layer
    <2>2. CASE chunks # <<>>
      <3>1. chunks[Len(chunks)] \in Layer
        BY <2>2
      <3> QED  BY <1>5, <2>2, <3>1 DEF Layer
    <2> QED  BY <2>1, <2>2
  <1>7. ExportChunked(img, ostree, chunks) = [all EXCEPT !.label = label]
    BY DEF ExportChunked, one
  <1> HIDE DEF all, label
  <1>8. label \in SUBSET Blob
    BY <1>6 DEF label
  <1>9. /\ [all EXCEPT !.label = label] \in ImageType
        /\ [all EXCEPT !.label = label].layers = all.layers
        /\ [all EXCEPT !.label = label].diffids = all.diffids
        /\ [all EXCEPT !.label = label].label = label
    BY <1>4, <1>8, Labelled, Zenon
  <1>10. label = IF chunks = <<>> THEN {ostree.blob} ELSE {chunks[Len(chunks)].blob}
    BY <1>5 DEF label
  <1> QED  BY <1>4, <1>7, <1>9, <1>10, Zenon

(***************************************************************************)
(* An encapsulated commit is what it was made from.                        *)
(***************************************************************************)
LEMMA BuiltIs ==
    ASSUME NEW chunks \in Chunkings \cup {<<>>}, NEW meta \in Metas \cup {NoMeta}
    PROVE  LET from == [Unmade EXCEPT !.chunks = chunks, !.meta = meta]
           IN  MadeFrom(BuildOci(chunks, meta), from)
  <1> DEFINE from == [Unmade EXCEPT !.chunks = chunks, !.meta = meta]
             n == Len(chunks)
             o == OstreeLayer(chunks, meta)
             c == ChunkLayers(chunks)
             img == BuildOci(chunks, meta)
  <1>1. /\ from \in MadeType /\ from.chunks = chunks /\ from.meta = meta /\ from.trees = <<>>
        /\ from.lost = {} /\ from.exports = 0 /\ from.orphaned = FALSE
    <2>1. from = [chunks |-> chunks, meta |-> meta, trees |-> <<>>, lost |-> {}, exports |-> 0,
                  orphaned |-> FALSE]
      <3>1. Unmade = [chunks |-> <<>>, meta |-> NoMeta, trees |-> <<>>, lost |-> {}, exports |-> 0,
                      orphaned |-> FALSE]
        BY DEF Unmade
      <3>2. from = WithChunks(Unmade, chunks, meta)
        BY DEF WithChunks
      <3>3. Unmade \in MadeType
        BY NoImageIs
      <3> HIDE DEF from
      <3> QED  BY <3>1, <3>2, <3>3, Remade
    <2>2. <<>> \in Seq(Trees)
      OBVIOUS
    <2> HIDE DEF from
    <2> QED  BY <2>1, <2>2 DEF MadeType
  <1>2. chunks \in Seq(SUBSET Objects) /\ n \in Nat /\ Size(from) = 1 + n
    <2>1. chunks \in Seq(SUBSET Objects)
      BY <1>1, ChunksType
    <2>2. Size(from) = 1 + Len(chunks) + Len(<<>>)
      BY <1>1 DEF Size
    <2> HIDE DEF from
    <2> QED  BY <2>1, <2>2
  <1>3. /\ o \in Layer /\ c \in Seq(Layer) /\ Len(c) = n
        /\ \A i \in 1..n : c[i].blob = ChunkBlob(chunks[i]) /\ c[i].anno = {chunks[i]}
    BY <1>2, LayerTypes
  <1>4. o.blob \in Blob
    BY <1>3 DEF Layer
  <1> HIDE DEF o, c, n
  <1>5. EmptyImage \in ImageType /\ EmptyImage.layers = <<>> /\ EmptyImage.diffids = <<>>
    BY NoImageIs DEF NoImage, EmptyImage
  <1>6. /\ img \in ImageType
        /\ img.layers = <<o>> \o c
        /\ img.diffids = <<o.blob>> \o Blobs(c)
        /\ img.label = IF c = <<>> THEN {o.blob} ELSE {c[Len(c)].blob}
    <2>1. <<>> \o <<o>> = <<o>> /\ <<>> \o <<o.blob>> = <<o.blob>>
      BY <1>3, <1>4
    <2>2. img = ExportChunked(EmptyImage, o, c)
      BY DEF BuildOci, o, c
    <2>3. EmptyImage \in ImageType /\ o \in Layer /\ c \in Seq(Layer)
      BY <1>3, <1>5
    <2> DEFINE E == ExportChunked(EmptyImage, o, c)
    <2>4. /\ E \in ImageType
          /\ E.layers = (EmptyImage.layers \o <<o>>) \o c
          /\ E.diffids = (EmptyImage.diffids \o <<o.blob>>) \o Blobs(c)
          /\ E.label = IF c = <<>> THEN {o.blob} ELSE {c[Len(c)].blob}
      BY <2>3, ExportedChunks, ZenonT(40)
    <2>5. img = E
      BY <2>2
    <2> HIDE DEF E, img
    <2> QED  BY <1>5, <2>1, <2>4, <2>5, Zenon
  <1>7. /\ Blobs(c) \in Seq(Blob) /\ Len(Blobs(c)) = n
        /\ \A i \in 1..n : Blobs(c)[i] = c[i].blob
    BY <1>3, <1>5, PushedLayers
  <1> HIDE DEF img, from
  <1>8. Len(img.layers) = 1 + n /\ img.layers[1] = o /\ \A i \in 1..n : img.layers[i + 1] = c[i]
    BY <1>2, <1>3, <1>6
  <1>9. /\ Len(img.diffids) = 1 + n /\ img.diffids[1] = o.blob
        /\ \A i \in 1..n : img.diffids[i + 1] = ChunkBlob(chunks[i])
    <2> DEFINE ids == Blobs(c)
    <2>1. /\ <<o.blob>> \in Seq(Blob) /\ Len(<<o.blob>>) = 1 /\ <<o.blob>>[1] = o.blob
          /\ ids \in Seq(Blob) /\ Len(ids) = n
      BY <1>4, <1>7
    <2> HIDE DEF ids
    <2>2. /\ Len(<<o.blob>> \o ids) = 1 + n
          /\ (<<o.blob>> \o ids)[1] = o.blob
          /\ \A i \in 1..n : (<<o.blob>> \o ids)[i + 1] = ids[i]
      <3>1. \A i \in 1..n : 1 + i = i + 1
        BY <1>2
      <3>2. /\ Len(<<o.blob>> \o ids) = 1 + n
            /\ \A i \in 1..1 : (<<o.blob>> \o ids)[i] = <<o.blob>>[i]
            /\ \A i \in 1..n : (<<o.blob>> \o ids)[1 + i] = ids[i]
        BY <2>1, Concat
      <3> QED  BY <2>1, <3>1, <3>2
    <2> QED  BY <1>3, <1>6, <1>7, <2>2 DEF ids
  <1>10. LayersOK(img, from)
    <2>1. Len(from.chunks) = n /\ Len(from.trees) = 0
      BY <1>1 DEF n
    <2> QED  BY <1>1, <1>2, <1>3, <1>8, <2>1 DEF LayersOK, o
  <1>11. ConfigOK(img, from)
    <2>1. Len(from.chunks) = n
      BY <1>1 DEF n
    <2>2. n > 0 => c # <<>> /\ c[Len(c)].blob = ChunkBlob(chunks[n])
      BY <1>2, <1>3
    <2>3. n = 0 => c = <<>>
      BY <1>3
    <2> QED  BY <1>1, <1>2, <1>6, <1>8, <1>9, <2>1, <2>2, <2>3 DEF ConfigOK
  <1>12. FirstOK(img, from)
    <2>1. Len(from.chunks) = n /\ Len(from.trees) = 0
      BY <1>1 DEF n
    <2>2. img.diffids = Blobs(img.layers)
      <3>1. /\ img.diffids \in Seq(Blob) /\ Blobs(img.layers) \in Seq(Blob)
            /\ Len(Blobs(img.layers)) = 1 + n
            /\ \A i \in 1..(1 + n) : Blobs(img.layers)[i] = img.layers[i].blob
        <4>1. img.layers \in Seq(Layer) /\ img.diffids \in Seq(Blob)
          BY <1>6 DEF ImageType
        <4> QED  BY <1>6, <1>8, <4>1, PushedLayers
      <3>2. \A i \in 1..(1 + n) : img.diffids[i] = img.layers[i].blob
        <4> SUFFICES ASSUME NEW i \in 1..(1 + n) PROVE img.diffids[i] = img.layers[i].blob
          OBVIOUS
        <4>1. CASE i = 1
          BY <1>8, <1>9, <4>1
        <4>2. CASE i # 1
          <5>1. i - 1 \in 1..n /\ (i - 1) + 1 = i
            BY <1>2, <4>2
          <5>2. img.layers[i] = c[i - 1] /\ img.diffids[i] = ChunkBlob(chunks[i - 1])
            BY <1>8, <1>9, <5>1
          <5>3. c[i - 1].blob = ChunkBlob(chunks[i - 1])
            BY <1>3, <5>1
          <5> QED  BY <5>2, <5>3
        <4> QED  BY <4>1, <4>2
      <3>3. Len(img.diffids) = Len(Blobs(img.layers))
        BY <1>9, <3>1
      <3> QED  BY <1>2, <1>9, <3>1, <3>2, <3>3
    <2>3. \A i \in 1..n : img.layers[i + 1].anno = {from.chunks[i]}
      BY <1>1, <1>3, <1>8
    <2>4. \A i \in 1..0 : img.layers[i + n + 1] = DerivedLayer(from.trees[i])
      OBVIOUS
    <2> HIDE DEF from, img
    <2> QED  BY <1>1, <2>1, <2>2, <2>3, <2>4, Zenon DEF FirstOK
  <1> QED  BY <1>1, <1>6, <1>10, <1>11, <1>12 DEF MadeFrom, img, from

(***************************************************************************)
(* A layer built on top keeps the layers and the config below it.          *)
(***************************************************************************)
LEMMA DerivedIs ==
    ASSUME NEW img, NEW from, MadeFrom(img, from), NEW tree \in Trees
    PROVE  MadeFrom(PushLayer(img, DerivedLayer(tree)), WithTree(from, tree))
  <1> DEFINE n == Len(from.chunks)
             d == Len(from.trees)
             l == DerivedLayer(tree)
             new == PushLayer(img, l)
             to == WithTree(from, tree)
  <1>1. /\ img \in ImageType /\ from \in MadeType
        /\ img.layers \in Seq(Layer) /\ img.diffids \in Seq(Blob)
    BY DEF MadeFrom, ImageType
  <1>2. from.trees \in Seq(Trees)
    BY <1>1 DEF MadeType
  <1>3. n \in Nat /\ d \in Nat /\ Size(from) = 1 + n + d
    BY <1>1, <1>2, ChunksType DEF Size
  <1>4. /\ to \in MadeType /\ to.chunks = from.chunks /\ to.meta = from.meta
        /\ to.trees = Append(from.trees, tree) /\ to.lost = from.lost /\ to.exports = from.exports
        /\ to.orphaned = from.orphaned
    <2>1. /\ to \in MadeType
          /\ to = [chunks |-> from.chunks, meta |-> from.meta, trees |-> Append(from.trees, tree),
                   lost |-> from.lost, exports |-> from.exports, orphaned |-> from.orphaned]
      BY <1>1, Remade
    <2> HIDE DEF to
    <2> QED  BY <2>1
  <1>5. /\ Len(to.trees) = d + 1 /\ to.trees[d + 1] = tree
        /\ \A i \in 1..d : to.trees[i] = from.trees[i]
    <2> HIDE DEF to
    <2> QED  BY <1>2, <1>4
  <1>6. l \in Layer /\ l.blob.kind = "derived" /\ l.blob.holds = {tree}
    <2>1. <<>> \in Seq(SUBSET Objects) /\ NoMeta \in Metas \cup {NoMeta}
      OBVIOUS
    <2>2. l \in Layer
      BY <2>1, LayerTypes
    <2>3. l.blob = DerivedBlob(tree, "tool")
      BY DEF DerivedLayer
    <2> QED  BY <2>2, <2>3, BlobFields
  <1>7. /\ new \in ImageType /\ new.label = img.label
        /\ new.layers = img.layers \o <<l>> /\ new.diffids = img.diffids \o <<l.blob>>
    <2>1. <<l>> \in Seq(Layer)
      BY <1>6
    <2>2. Blobs(<<l>>) = <<l.blob>>
      <3> HIDE DEF l
      <3> QED  BY DEF Blobs
    <2> HIDE DEF l
    <2>3. /\ PushLayers(img, <<l>>) \in ImageType
          /\ PushLayers(img, <<l>>).label = img.label
          /\ PushLayers(img, <<l>>).layers = img.layers \o <<l>>
          /\ PushLayers(img, <<l>>).diffids = img.diffids \o Blobs(<<l>>)
      BY <1>1, <2>1, PushedLayers, Zenon
    <2>4. new = PushLayers(img, <<l>>)
      BY DEF PushLayer
    <2> HIDE DEF new
    <2> QED  BY <2>2, <2>3, <2>4, Zenon
  <1>8. l.blob \in Blob
    BY <1>6 DEF Layer
  <1>9. Len(img.layers) = 1 + n + d
    BY <1>3 DEF MadeFrom, LayersOK
  <1>10. Len(img.diffids) >= 1 + n + d /\ Len(img.diffids) \in Nat
    <2>1. Len(img.diffids) \in Nat
      BY <1>1
    <2>2. Len(img.diffids) >= Size(from)
      BY DEF MadeFrom, ConfigOK
    <2> QED  BY <1>3, <2>1, <2>2, Zenon
  <1> HIDE DEF n, d, l, new, to
  <1>11. /\ Len(new.layers) = 2 + n + d /\ new.layers[2 + n + d] = l
         /\ \A i \in 1..(1 + n + d) : new.layers[i] = img.layers[i]
    <2>1. <<l>> \in Seq(Layer) /\ Len(<<l>>) = 1 /\ <<l>>[1] = l
      BY <1>6
    <2>2. /\ Len(new.layers) = Len(img.layers) + 1
          /\ \A i \in 1..Len(img.layers) : new.layers[i] = img.layers[i]
          /\ new.layers[Len(img.layers) + 1] = l
      BY <1>1, <1>7, <2>1, Concat
    <2>3. (1 + n + d) + 1 = 2 + n + d
      BY <1>3
    <2> QED  BY <1>9, <2>2, <2>3
  <1>12. /\ Len(new.diffids) >= 2 + n + d
         /\ \A i \in 1..(1 + n + d) : new.diffids[i] = img.diffids[i]
    <2>1. <<l.blob>> \in Seq(Blob) /\ Len(<<l.blob>>) = 1
      BY <1>8
    <2>2. /\ Len(new.diffids) = Len(img.diffids) + 1
          /\ \A i \in 1..Len(img.diffids) : new.diffids[i] = img.diffids[i]
      BY <1>1, <1>7, <2>1, Concat
    <2>3. \A i \in 1..(1 + n + d) : i \in 1..Len(img.diffids)
      BY <1>3, <1>10
    <2>4. Len(img.diffids) + 1 >= 2 + n + d
      BY <1>3, <1>10
    <2> QED  BY <2>2, <2>3, <2>4
  <1>13. Size(to) = 2 + n + d /\ Len(to.chunks) = n /\ Len(from.chunks) = n /\ Len(from.trees) = d
    <2>1. Len(to.chunks) = n /\ Len(from.chunks) = n /\ Len(from.trees) = d
      BY <1>4 DEF n, d
    <2> QED  BY <1>3, <1>5, <2>1 DEF Size
  <1>14. /\ new.layers[1] = img.layers[1]
         /\ \A i \in 1..n : new.layers[i + 1] = img.layers[i + 1]
         /\ \A i \in 1..d : new.layers[i + n + 1] = img.layers[i + n + 1]
         /\ (d + 1) + n + 1 = 2 + n + d
    <2>1. \A i \in 1..n : i + 1 \in 1..(1 + n + d)
      BY <1>3
    <2>2. \A i \in 1..d : i + n + 1 \in 1..(1 + n + d)
      BY <1>3
    <2>3. 1 \in 1..(1 + n + d) /\ (d + 1) + n + 1 = 2 + n + d
      BY <1>3
    <2> QED  BY <1>11, <2>1, <2>2, <2>3
  <1>15. \A i \in 1..(d + 1) : i \in 1..d \/ i = d + 1
    BY <1>3
  <1>16. LayersOK(new, to)
    <2>1. /\ img.layers[1] = OstreeLayer(from.chunks, from.meta)
          /\ \A i \in 1..n : img.layers[i + 1].blob = ChunkBlob(from.chunks[i])
          /\ \/ \A i \in 1..n : img.layers[i + 1].anno = {from.chunks[i]}
             \/ \A i \in 1..n : img.layers[i + 1].anno = {{}}
          /\ \A i \in 1..d : /\ img.layers[i + n + 1].blob.kind = "derived"
                             /\ img.layers[i + n + 1].blob.holds = TreesMade(from)[i]
          /\ from.lost \subseteq 1..d
      BY DEF MadeFrom, LayersOK, n, d
    <2>2. DOMAIN to.trees = 1..(d + 1) /\ DOMAIN from.trees = 1..d
      <3>1. to.trees \in Seq(Trees)
        BY <1>4 DEF MadeType
      <3> QED  BY <1>2, <1>5, <1>13, <3>1
    <2>3. \A i \in 1..d : TreesMade(to)[i] = TreesMade(from)[i]
      <3>1. \A i \in 1..d : i \in 1..(d + 1)
        BY <1>3
      <3> QED  BY <1>4, <1>5, <2>2, <3>1 DEF TreesMade
    <2>4. TreesMade(to)[d + 1] = {tree}
      <3>1. d + 1 \notin to.lost /\ d + 1 \in 1..(d + 1)
        BY <1>3, <1>4, <2>1
      <3> QED  BY <1>5, <2>2, <3>1 DEF TreesMade
    <2>5. to.lost \subseteq 1..(d + 1)
      BY <1>3, <1>4, <2>1
    <2>6. \A i \in 1..(d + 1) : /\ new.layers[i + n + 1].blob.kind = "derived"
                                /\ new.layers[i + n + 1].blob.holds = TreesMade(to)[i]
      <3> SUFFICES ASSUME NEW i \in 1..(d + 1)
                   PROVE  /\ new.layers[i + n + 1].blob.kind = "derived"
                          /\ new.layers[i + n + 1].blob.holds = TreesMade(to)[i]
        OBVIOUS
      <3>1. CASE i \in 1..d
        BY <1>14, <2>1, <2>3, <3>1
      <3>2. CASE i = d + 1
        BY <1>6, <1>11, <1>14, <2>4, <3>2
      <3> QED  BY <1>15, <3>1, <3>2
    <2>7. /\ \A i \in 1..n : new.layers[i + 1].blob = ChunkBlob(to.chunks[i])
          /\ \/ \A i \in 1..n : new.layers[i + 1].anno = {to.chunks[i]}
             \/ \A i \in 1..n : new.layers[i + 1].anno = {{}}
          /\ new.layers[1] = OstreeLayer(to.chunks, to.meta)
      BY <1>4, <1>14, <2>1
    <2> QED  BY <1>5, <1>11, <1>13, <2>5, <2>6, <2>7 DEF LayersOK
  <1>17. ConfigOK(new, to)
    <2>1. /\ img.diffids[1] = img.layers[1].blob
          /\ \A i \in 1..n : img.diffids[i + 1] = ChunkBlob(from.chunks[i])
          /\ from.orphaned => n = 0
          /\ n > 0 => img.label = {ChunkBlob(from.chunks[n])}
          /\ n = 0 /\ ~from.orphaned => img.label = {img.layers[1].blob}
      BY DEF MadeFrom, ConfigOK, n
    <2>2. 1 \in 1..(1 + n + d) /\ \A i \in 1..n : i + 1 \in 1..(1 + n + d)
      BY <1>3
    <2>3. /\ new.diffids[1] = new.layers[1].blob
          /\ \A i \in 1..n : new.diffids[i + 1] = ChunkBlob(to.chunks[i])
      BY <1>4, <1>12, <1>14, <2>1, <2>2
    <2> QED  BY <1>4, <1>7, <1>12, <1>13, <1>14, <2>1, <2>3 DEF ConfigOK
  <1>18. FirstOK(new, to)
    <2> SUFFICES ASSUME to.exports = 0
                 PROVE  /\ to.lost = {} /\ new.diffids = Blobs(new.layers)
                        /\ \A i \in 1..n : new.layers[i + 1].anno = {to.chunks[i]}
                        /\ \A i \in 1..(d + 1) : new.layers[i + n + 1] = DerivedLayer(to.trees[i])
      BY <1>5, <1>13 DEF FirstOK
    <2>1. /\ from.lost = {} /\ img.diffids = Blobs(img.layers)
          /\ \A i \in 1..n : img.layers[i + 1].anno = {from.chunks[i]}
          /\ \A i \in 1..d : img.layers[i + n + 1] = DerivedLayer(from.trees[i])
      BY <1>4 DEF MadeFrom, FirstOK, n, d
    <2>2. new.diffids = Blobs(new.layers)
      <3>1. <<l>> \in Seq(Layer) /\ Blobs(<<l>>) = <<l.blob>>
        BY <1>6 DEF Blobs
      <3> QED  BY <1>1, <1>7, <2>1, <3>1, BlobsConcat
    <2>3. \A i \in 1..(d + 1) : new.layers[i + n + 1] = DerivedLayer(to.trees[i])
      <3> SUFFICES ASSUME NEW i \in 1..(d + 1) PROVE new.layers[i + n + 1] = DerivedLayer(to.trees[i])
        OBVIOUS
      <3>1. CASE i \in 1..d
        BY <1>5, <1>14, <2>1, <3>1
      <3>2. CASE i = d + 1
        BY <1>5, <1>11, <1>14, <3>2 DEF l
      <3> QED  BY <1>15, <3>1, <3>2
    <2> QED  BY <1>4, <1>14, <2>1, <2>2, <2>3
  <1> QED  BY <1>4, <1>7, <1>16, <1>17, <1>18 DEF MadeFrom, new, to, l

(***************************************************************************)
(* The image with its ostree layer replaced by one with other metadata.    *)
(***************************************************************************)
Orphans(from, meta) ==
    from.orphaned \/ (from.chunks = <<>> /\ from.trees # <<>> /\ from.meta # meta)

LEMMA SplicedIs ==
    ASSUME NEW img, NEW from, MadeFrom(img, from), NEW meta \in Metas \cup {NoMeta}
    PROVE  MadeFrom(Spliced(img, [img.layers[1].blob EXCEPT !.as = meta]),
                    WithMeta(from, meta, Orphans(from, meta)))
  <1> DEFINE n == Len(from.chunks)
             d == Len(from.trees)
             b == [img.layers[1].blob EXCEPT !.as = meta]
             l == [blob |-> b, anno |-> NoAnno]
             y == Orphans(from, meta)
             new == Spliced(img, b)
             to == WithMeta(from, meta, y)
  <1>1. /\ img \in ImageType /\ from \in MadeType
        /\ img.layers \in Seq(Layer) /\ img.diffids \in Seq(Blob) /\ img.label \in SUBSET Blob
    BY DEF MadeFrom, ImageType
  <1>2. from.trees \in Seq(Trees) /\ from.chunks \in Seq(SUBSET Objects)
    BY <1>1, ChunksType DEF MadeType
  <1>3. n \in Nat /\ d \in Nat /\ Size(from) = 1 + n + d
    BY <1>1, <1>2, ChunksType DEF Size
  <1>4. l = OstreeLayer(from.chunks, meta) /\ l \in Layer /\ b \in Blob
    <2>1. img.layers[1].blob = OstreeBlob(Objects \ UNION ToSet(from.chunks), from.meta)
      BY DEF MadeFrom, LayersOK, OstreeLayer
    <2>2. b = OstreeBlob(Objects \ UNION ToSet(from.chunks), meta)
      <3> DEFINE rest == Objects \ UNION ToSet(from.chunks)
      <3>1. img.layers[1].blob = [kind |-> "ostree", holds |-> rest, as |-> from.meta]
        BY <2>1 DEF OstreeBlob
      <3> HIDE DEF rest
      <3>2. b = [kind |-> "ostree", holds |-> rest, as |-> meta]
        BY <3>1
      <3> QED  BY <3>2 DEF OstreeBlob, rest
    <2> HIDE DEF b
    <2>3. l = OstreeLayer(from.chunks, meta)
      BY <2>2 DEF OstreeLayer
    <2>4. OstreeLayer(from.chunks, meta) \in Layer
      BY <1>2, LayerTypes
    <2>5. l \in Layer
      BY <2>3, <2>4
    <2>6. b \in Blob
      BY <2>5 DEF Layer
    <2> QED  BY <2>3, <2>5, <2>6
  <1>5. y \in BOOLEAN
    BY <1>1 DEF Orphans, MadeType
  <1> HIDE DEF b, y
  <1>6. /\ to \in MadeType /\ to.chunks = from.chunks /\ to.meta = meta
        /\ to.trees = from.trees /\ to.lost = from.lost /\ to.exports = from.exports
        /\ to.orphaned = y
    <2>1. /\ to \in MadeType
          /\ to = [chunks |-> from.chunks, meta |-> meta, trees |-> from.trees,
                   lost |-> from.lost, exports |-> from.exports, orphaned |-> y]
      BY <1>1, <1>5, Remade, Zenon
    <2> DEFINE z == y
    <2> HIDE DEF to
    <2>2. to = [chunks |-> from.chunks, meta |-> meta, trees |-> from.trees,
                lost |-> from.lost, exports |-> from.exports, orphaned |-> z]
      BY <2>1, Zenon
    <2> HIDE DEF z
    <2>3. /\ to.chunks = from.chunks /\ to.meta = meta
          /\ to.trees = from.trees /\ to.lost = from.lost /\ to.exports = from.exports
          /\ to.orphaned = z
      BY <2>2
    <2> QED  BY <2>1, <2>3, Zenon DEF z
  <1>7. /\ Len(img.layers) = 1 + n + d /\ Len(img.diffids) \in Nat /\ Len(img.diffids) >= 1 + n + d
    <2>1. Len(img.layers) = Size(from) /\ Len(img.diffids) >= Size(from)
      BY DEF MadeFrom, LayersOK, ConfigOK
    <2>2. Len(img.diffids) \in Nat
      BY <1>1
    <2> QED  BY <1>3, <2>1, <2>2, Zenon
  <1> DEFINE label == IF Len(img.layers) = 1 THEN {b} ELSE img.label
             front == [img.layers EXCEPT ![1] = l]
             ids == [img.diffids EXCEPT ![1] = b]
  <1> HIDE DEF n, d, l, to
  <1>8. /\ front \in Seq(Layer) /\ Len(front) = 1 + n + d /\ front[1] = l
        /\ \A i \in 2..(1 + n + d) : front[i] = img.layers[i]
    <2>1. 1 \in 1..Len(img.layers) /\ DOMAIN img.layers = 1..Len(img.layers)
      BY <1>1, <1>3, <1>7
    <2> QED  BY <1>1, <1>3, <1>4, <1>7, <2>1
  <1>9. /\ ids \in Seq(Blob) /\ Len(ids) = Len(img.diffids) /\ ids[1] = b
        /\ \A i \in 2..Len(img.diffids) : ids[i] = img.diffids[i]
    <2>1. 1 \in 1..Len(img.diffids) /\ DOMAIN img.diffids = 1..Len(img.diffids)
      BY <1>1, <1>3, <1>7
    <2> QED  BY <1>1, <1>3, <1>4, <1>7, <2>1
  <1>10. label \in SUBSET Blob
    BY <1>1, <1>4
  <1>11. new = [layers |-> front, diffids |-> ids, label |-> label]
    <2> DEFINE r == img.layers
               ds == img.diffids
               lb == img.label
               g == [img EXCEPT !.layers[1] = l]
               h == [g EXCEPT !.diffids[1] = b]
    <2>1. img = [layers |-> r, diffids |-> ds, label |-> lb]
      BY <1>1 DEF ImageType
    <2>2. new = [h EXCEPT !.label = label]
      BY Zenon DEF Spliced, l
    <2> HIDE DEF new, label, r, ds, lb
    <2>3. g = [layers |-> [r EXCEPT ![1] = l], diffids |-> ds, label |-> lb]
      BY <2>1
    <2> HIDE DEF g
    <2>4. h = [layers |-> [r EXCEPT ![1] = l], diffids |-> [ds EXCEPT ![1] = b], label |-> lb]
      BY <2>3
    <2> HIDE DEF h
    <2>5. new = [layers |-> [r EXCEPT ![1] = l], diffids |-> [ds EXCEPT ![1] = b], label |-> label]
      BY <2>2, <2>4
    <2> QED  BY <2>5, Zenon DEF r, ds
  <1> HIDE DEF front, ids, label, new
  <1>12. new \in ImageType /\ new.layers = front /\ new.diffids = ids /\ new.label = label
    BY <1>8, <1>9, <1>10, <1>11 DEF ImageType
  <1>13. Size(to) = 1 + n + d /\ Len(to.chunks) = n /\ Len(from.chunks) = n /\ Len(from.trees) = d
         /\ Len(to.trees) = d /\ TreesMade(to) = TreesMade(from)
    <2>1. Len(to.chunks) = n /\ Len(from.chunks) = n /\ Len(from.trees) = d /\ Len(to.trees) = d
      BY <1>6 DEF n, d
    <2> QED  BY <1>3, <1>6, <2>1 DEF Size, TreesMade
  <1>14. /\ \A i \in 1..n : i + 1 \in 2..(1 + n + d) /\ i + 1 \in 2..Len(img.diffids)
         /\ \A i \in 1..d : i + n + 1 \in 2..(1 + n + d)
    BY <1>3, <1>7
  <1>15. /\ \A i \in 1..n : new.layers[i + 1] = img.layers[i + 1] /\ new.diffids[i + 1] = img.diffids[i + 1]
         /\ \A i \in 1..d : new.layers[i + n + 1] = img.layers[i + n + 1]
         /\ new.layers[1] = l /\ new.diffids[1] = b
    BY <1>8, <1>9, <1>12, <1>14
  <1>16. l.blob = b
    BY DEF l
  <1>17. LayersOK(new, to)
    <2>1. /\ from.lost \subseteq 1..d
          /\ \A i \in 1..n : img.layers[i + 1].blob = ChunkBlob(from.chunks[i])
          /\ \/ \A i \in 1..n : img.layers[i + 1].anno = {from.chunks[i]}
             \/ \A i \in 1..n : img.layers[i + 1].anno = {{}}
          /\ \A i \in 1..d : /\ img.layers[i + n + 1].blob.kind = "derived"
                             /\ img.layers[i + n + 1].blob.holds = TreesMade(from)[i]
      BY DEF MadeFrom, LayersOK, n, d
    <2>2. /\ \A i \in 1..n : new.layers[i + 1].blob = ChunkBlob(to.chunks[i])
          /\ \/ \A i \in 1..n : new.layers[i + 1].anno = {to.chunks[i]}
             \/ \A i \in 1..n : new.layers[i + 1].anno = {{}}
          /\ \A i \in 1..d : /\ new.layers[i + n + 1].blob.kind = "derived"
                             /\ new.layers[i + n + 1].blob.holds = TreesMade(to)[i]
      BY <1>6, <1>13, <1>15, <2>1
    <2>3. new.layers[1] = OstreeLayer(to.chunks, to.meta) /\ to.lost \subseteq 1..d
      BY <1>4, <1>6, <1>15, <2>1
    <2> QED  BY <1>8, <1>12, <1>13, <2>2, <2>3 DEF LayersOK
  <1>18. ConfigOK(new, to)
    <2>1. /\ img.diffids[1] = img.layers[1].blob
          /\ \A i \in 1..n : img.diffids[i + 1] = ChunkBlob(from.chunks[i])
          /\ from.orphaned => n = 0
          /\ n > 0 => img.label = {ChunkBlob(from.chunks[n])}
          /\ n = 0 /\ ~from.orphaned => img.label = {img.layers[1].blob}
      BY DEF MadeFrom, ConfigOK, n
    <2>2. n > 0 => label = img.label
      BY <1>3, <1>7 DEF label
    <2>3. from.chunks = <<>> <=> n = 0
      BY <1>2, <1>13
    <2>4. to.orphaned => n = 0
      BY <1>6, <2>1, <2>3 DEF y, Orphans
    <2>5. ASSUME n = 0, ~to.orphaned PROVE label = {b}
      <3>1. CASE d = 0
        BY <1>3, <1>7, <2>5, <3>1 DEF label
      <3>2. CASE d # 0
        <4>1. from.trees # <<>>
          BY <1>13, <3>2
        <4>2. ~from.orphaned /\ from.meta = meta
          BY <1>6, <2>3, <2>5, <4>1 DEF y, Orphans
        <4>3. img.layers[1] = l
          BY <1>4, <4>2 DEF MadeFrom, LayersOK
        <4>4. label = img.label
          BY <1>3, <1>7, <2>5, <3>2 DEF label
        <4> QED  BY <1>16, <2>1, <2>5, <4>2, <4>3, <4>4
      <3> QED  BY <3>1, <3>2
    <2>6. Len(new.diffids) >= Size(to) /\ new.diffids[1] = new.layers[1].blob
          /\ \A i \in 1..n : new.diffids[i + 1] = ChunkBlob(to.chunks[i])
      BY <1>6, <1>7, <1>9, <1>12, <1>13, <1>15, <1>16, <2>1
    <2>7. /\ n > 0 => new.label = {ChunkBlob(to.chunks[n])}
          /\ n = 0 /\ ~to.orphaned => new.label = {new.layers[1].blob}
      BY <1>6, <1>12, <1>15, <1>16, <2>1, <2>2, <2>5
    <2> QED  BY <1>13, <2>4, <2>6, <2>7 DEF ConfigOK
  <1>19. FirstOK(new, to)
    <2> SUFFICES ASSUME to.exports = 0
                 PROVE  /\ to.lost = {} /\ new.diffids = Blobs(new.layers)
                        /\ \A i \in 1..n : new.layers[i + 1].anno = {to.chunks[i]}
                        /\ \A i \in 1..d : new.layers[i + n + 1] = DerivedLayer(to.trees[i])
      BY <1>13 DEF FirstOK
    <2>1. /\ from.lost = {} /\ img.diffids = Blobs(img.layers)
          /\ \A i \in 1..n : img.layers[i + 1].anno = {from.chunks[i]}
          /\ \A i \in 1..d : img.layers[i + n + 1] = DerivedLayer(from.trees[i])
      BY <1>6 DEF MadeFrom, FirstOK, n, d
    <2>2. ids = Blobs(front)
      <3>1. /\ Blobs(front) \in Seq(Blob) /\ Len(Blobs(front)) = 1 + n + d
            /\ \A i \in 1..(1 + n + d) : Blobs(front)[i] = front[i].blob
        BY <1>1, <1>8, PushedLayers
      <3>2. /\ Len(Blobs(img.layers)) = 1 + n + d
            /\ \A i \in 1..(1 + n + d) : Blobs(img.layers)[i] = img.layers[i].blob
        BY <1>1, <1>7, PushedLayers
      <3>3. Len(ids) = 1 + n + d /\ \A i \in 2..(1 + n + d) : ids[i] = img.layers[i].blob
        BY <1>9, <2>1, <3>2
      <3>4. \A i \in 1..(1 + n + d) : ids[i] = Blobs(front)[i]
        <4> SUFFICES ASSUME NEW i \in 1..(1 + n + d) PROVE ids[i] = Blobs(front)[i]
          OBVIOUS
        <4>1. CASE i = 1
          BY <1>8, <1>9, <1>16, <3>1, <4>1
        <4>2. CASE i \in 2..(1 + n + d)
          BY <1>8, <3>1, <3>3, <4>2
        <4> QED  BY <1>3, <4>1, <4>2
      <3> QED  BY <1>3, <1>9, <3>1, <3>3, <3>4
    <2> QED  BY <1>6, <1>12, <1>15, <2>1, <2>2
  <1> QED  BY <1>6, <1>12, <1>17, <1>18, <1>19 DEF MadeFrom, new, to, y, b

(***************************************************************************)
(* The chunks and the trees an export writes.  As the chunks are disjoint, *)
(* none is diminished by the ones before it.                               *)
(***************************************************************************)
LEMMA RewrittenChunks ==
    ASSUME NEW from \in MadeType
    PROVE  LET c == ChunkingFromLayers(from.chunks)
           IN  /\ c \in Seq(Layer) /\ Len(c) = Len(from.chunks)
               /\ \A i \in 1..Len(from.chunks) : c[i].blob = ChunkBlob(from.chunks[i]) /\ c[i].anno = {{}}
  <1> DEFINE s == from.chunks
             n == Len(s)
             c == ChunkingFromLayers(s)
  <1>1. /\ s \in Seq(SUBSET Objects)
        /\ \A i, j \in 1..n : i # j => s[i] \cap s[j] = {}
    BY ChunksType
  <1> HIDE DEF s
  <1>2. n \in Nat /\ DOMAIN s = 1..n
    BY <1>1
  <1>3. ASSUME NEW i \in 1..n PROVE s[i] \ UNION {s[j] : j \in 1..(i - 1)} = s[i]
    <2>1. \A j \in 1..(i - 1) : j \in 1..n /\ j # i
      BY <1>2
    <2>2. \A j \in 1..(i - 1) : s[i] \cap s[j] = {}
      BY <1>1, <2>1
    <2> QED  BY <2>2
  <1>4. c = [i \in 1..n |-> [blob |-> ChunkBlob(s[i]), anno |-> {{}}]]
    BY <1>2, <1>3 DEF ChunkingFromLayers
  <1>5. \A i \in 1..n : [blob |-> ChunkBlob(s[i]), anno |-> {{}}] \in Layer
    <2>1. NoMeta \in Metas \cup {NoMeta}
      OBVIOUS
    <2>2. \A i \in 1..n : ChunkBlob(s[i]) \in Blob
      BY <1>1, <2>1, LayerTypes
    <2> QED  BY <2>2 DEF Layer
  <1> HIDE DEF c
  <1>6. c \in Seq(Layer) /\ Len(c) = n
    <2>1. c \in [1..n -> Layer]
      <3> HIDE DEF n
      <3> QED  BY <1>4, <1>5
    <2> HIDE DEF n
    <2> QED  BY <1>2, <2>1
  <1>7. \A i \in 1..n : c[i].blob = ChunkBlob(s[i]) /\ c[i].anno = {{}}
    BY <1>4
  <1> QED  BY <1>6, <1>7 DEF c, s

LEMMA RewrittenTrees ==
    ASSUME NEW h, MadeFrom(h.image, h.from), h.trees = TreesMade(h.from),
           NEW failed \in SUBSET DOMAIN h.trees
    PROVE  LET e == ExportedTrees(h, failed)
               d == Len(h.from.trees)
           IN  /\ e \in Seq(Layer) /\ Len(e) = d /\ d \in Nat /\ DOMAIN h.trees = 1..d
               /\ \A i \in 1..d : /\ e[i].blob.kind = "derived"
                                  /\ e[i].blob.holds = IF i \in failed THEN {} ELSE TreesMade(h.from)[i]
  <1> DEFINE from == h.from
             img == h.image
             d == Len(from.trees)
             holds(i) == IF i \in failed THEN {} ELSE TreesMade(from)[i]
             anno(i) == img.layers[i].anno
             e == ExportedTrees(h, failed)
  <1>1. from \in MadeType /\ from.trees \in Seq(Trees) /\ img.layers \in Seq(Layer)
    BY DEF MadeFrom, MadeType, ImageType
  <1>2. d \in Nat /\ DOMAIN from.trees = 1..d
    BY <1>1
  <1>3. /\ DOMAIN h.trees = 1..d
        /\ \A i \in 1..d : TreesMade(from)[i] = IF i \in from.lost THEN {} ELSE {from.trees[i]}
    BY <1>2 DEF TreesMade
  <1>4. ASSUME NEW i \in 1..d PROVE holds(i) \in SUBSET (Objects \cup Trees)
    <2>1. from.trees[i] \in Trees
      <3> HIDE DEF from
      <3> QED  BY <1>1, <1>2
    <2>2. TreesMade(from)[i] = {} \/ TreesMade(from)[i] = {from.trees[i]}
      <3> HIDE DEF from, d
      <3> QED  BY <1>3
    <2> HIDE DEF from, d
    <2> QED  BY <2>1, <2>2
  <1>5. ASSUME NEW i \in 1..d PROVE anno(i) \in SUBSET SUBSET Objects
    <2>1. i \in 1..Len(img.layers)
      <3> DEFINE n == Len(from.chunks)
      <3>1. n \in Nat /\ Len(img.layers) = 1 + n + d
        BY <1>1, ChunksType DEF MadeFrom, LayersOK, Size
      <3> HIDE DEF n, d, from
      <3> QED  BY <1>2, <3>1
    <2>2. img.layers[i] \in Layer
      <3> HIDE DEF img
      <3> QED  BY <1>1, <2>1
    <2> QED  BY <2>2 DEF Layer
  <1> HIDE DEF from, img, d, e
  <1>6. e = [i \in 1..d |-> [blob |-> [kind |-> "derived", holds |-> holds(i), as |-> "ostree"],
                            anno |-> anno(i)]]
    BY <1>3 DEF ExportedTrees, e, from, img
  <1> HIDE DEF holds, anno
  <1>7. \A i \in 1..d : [blob |-> [kind |-> "derived", holds |-> holds(i), as |-> "ostree"],
                         anno |-> anno(i)] \in Layer
    <2>1. \A i \in 1..d : [kind |-> "derived", holds |-> holds(i), as |-> "ostree"] \in Blob
      BY <1>4 DEF Blob
    <2> QED  BY <1>5, <2>1 DEF Layer
  <1>8. e \in Seq(Layer) /\ Len(e) = d
    BY <1>2, <1>6, <1>7
  <1>9. \A i \in 1..d : e[i].blob.kind = "derived" /\ e[i].blob.holds = holds(i)
    BY <1>6
  <1> QED  BY <1>2, <1>3, <1>8, <1>9 DEF e, d, from, holds

(***************************************************************************)
(* An export of what a host stores is made from what the host's image was, *)
(* less the trees of the failed children.                                  *)
(***************************************************************************)
LEMMA ExportedIs ==
    ASSUME NEW h, MadeFrom(h.image, h.from), h.sets = h.from.chunks, h.trees = TreesMade(h.from),
           h.meta = h.from.meta, NEW failed \in SUBSET DOMAIN h.trees
    PROVE  MadeFrom(ExportToOci(h, failed), WithExport(h.from, failed))
  <1> DEFINE from == h.from
             img == h.image
             n == Len(from.chunks)
             d == Len(from.trees)
             o == OstreeLayer(from.chunks, from.meta)
             c == ChunkingFromLayers(from.chunks)
             e == ExportedTrees(h, failed)
             bare == [img EXCEPT !.layers = <<>>]
             base == ExportChunked(bare, o, c)
             all == PushLayers(base, e)
             new == ExportToOci(h, failed)
             to == WithExport(from, failed)
  <1>1. /\ img \in ImageType /\ from \in MadeType
        /\ img.layers \in Seq(Layer) /\ img.diffids \in Seq(Blob) /\ img.label \in SUBSET Blob
    BY DEF MadeFrom, ImageType
  <1>2. /\ from.trees \in Seq(Trees) /\ from.chunks \in Seq(SUBSET Objects)
        /\ from.meta \in Metas \cup {NoMeta} /\ from.exports \in Nat
    BY <1>1, ChunksType DEF MadeType
  <1>3. /\ e \in Seq(Layer) /\ Len(e) = d /\ d \in Nat /\ failed \subseteq 1..d
        /\ \A i \in 1..d : /\ e[i].blob.kind = "derived"
                           /\ e[i].blob.holds = IF i \in failed THEN {} ELSE TreesMade(from)[i]
    BY RewrittenTrees
  <1>4. /\ c \in Seq(Layer) /\ Len(c) = n /\ n \in Nat
        /\ \A i \in 1..n : c[i].blob = ChunkBlob(from.chunks[i]) /\ c[i].anno = {{}}
    <2>1. n \in Nat
      <3> HIDE DEF from
      <3> QED  BY <1>2
    <2> HIDE DEF from
    <2> QED  BY <1>1, <2>1, RewrittenChunks
  <1>5. o \in Layer /\ o.blob \in Blob
    <2>1. o \in Layer
      BY <1>2, LayerTypes
    <2> QED  BY <2>1 DEF Layer
  <1>6. bare \in ImageType /\ bare.layers = <<>> /\ bare.diffids = img.diffids
    BY <1>1, Cleared
  <1>7. new = [all EXCEPT !.label = img.label]
    BY Zenon DEF ExportToOci
  <1>8. /\ to \in MadeType /\ to.chunks = from.chunks /\ to.meta = from.meta
        /\ to.trees = from.trees /\ to.lost = from.lost \cup failed /\ to.exports = from.exports + 1
        /\ to.orphaned = from.orphaned
    <2>1. failed \in SUBSET Nat
      BY <1>3
    <2>2. /\ to \in MadeType
          /\ to = [chunks |-> from.chunks, meta |-> from.meta, trees |-> from.trees,
                   lost |-> from.lost \cup failed, exports |-> from.exports + 1, orphaned |-> from.orphaned]
      BY <1>1, <2>1, Remade
    <2> DEFINE u == from.exports + 1
               v == from.lost \cup failed
               w == from.orphaned
    <2> HIDE DEF to, u, v, w
    <2>3. to = [chunks |-> from.chunks, meta |-> from.meta, trees |-> from.trees,
                lost |-> v, exports |-> u, orphaned |-> w]
      BY <2>2, Zenon DEF u, v, w
    <2>4. /\ to.chunks = from.chunks /\ to.meta = from.meta
          /\ to.trees = from.trees /\ to.lost = v /\ to.exports = u /\ to.orphaned = w
      BY <2>3
    <2> QED  BY <2>2, <2>4, Zenon DEF u, v, w
  <1>9. Size(from) = 1 + n + d /\ Len(img.diffids) \in Nat /\ Len(img.diffids) >= 1 + n + d
    <2>1. Len(img.diffids) >= Size(from)
      BY DEF MadeFrom, ConfigOK
    <2>2. Len(img.diffids) \in Nat /\ Size(from) = 1 + n + d
      BY <1>1 DEF Size
    <2> QED  BY <2>1, <2>2, Zenon
  <1> HIDE DEF o, c, e, bare, new, to, n, d, from, img
  <1>10. /\ base \in ImageType /\ base.layers = <<o>> \o c
         /\ base.diffids = (img.diffids \o <<o.blob>>) \o Blobs(c)
    <2>1. /\ base \in ImageType /\ base.layers = (bare.layers \o <<o>>) \o c
          /\ base.diffids = (bare.diffids \o <<o.blob>>) \o Blobs(c)
      <3>1. bare \in ImageType /\ o \in Layer /\ c \in Seq(Layer)
        BY <1>4, <1>5, <1>6
      <3> QED  BY <3>1, ExportedChunks, Zenon
    <2>2. <<>> \o <<o>> = <<o>>
      BY <1>5
    <2> HIDE DEF base
    <2> QED  BY <1>6, <2>1, <2>2, Zenon
  <1> HIDE DEF base
  <1>11. /\ all \in ImageType /\ all.layers = (<<o>> \o c) \o e
         /\ all.diffids = ((img.diffids \o <<o.blob>>) \o Blobs(c)) \o Blobs(e)
    <2>1. /\ all \in ImageType /\ all.layers = base.layers \o e /\ all.diffids = base.diffids \o Blobs(e)
      BY <1>3, <1>10, PushedLayers, Zenon
    <2> HIDE DEF all
    <2> QED  BY <1>10, <2>1, Zenon
  <1> HIDE DEF all
  <1>12. /\ new \in ImageType /\ new.layers = all.layers /\ new.diffids = all.diffids
         /\ new.label = img.label
    <2> DEFINE label == img.label
    <2>1. label \in SUBSET Blob /\ new = [all EXCEPT !.label = label]
      BY <1>1, <1>7
    <2> HIDE DEF label
    <2>2. /\ [all EXCEPT !.label = label] \in ImageType
          /\ [all EXCEPT !.label = label].layers = all.layers
          /\ [all EXCEPT !.label = label].diffids = all.diffids
          /\ [all EXCEPT !.label = label].label = label
      BY <1>11, <2>1, Labelled, Zenon
    <2> QED  BY <2>1, <2>2, Zenon DEF label
  <1>13. /\ Len(new.layers) = 1 + n + d /\ new.layers[1] = o
         /\ \A i \in 1..n : new.layers[i + 1] = c[i]
         /\ \A i \in 1..d : new.layers[i + n + 1] = e[i]
    <2> DEFINE f == <<o>> \o c
    <2>1. <<o>> \in Seq(Layer) /\ Len(<<o>>) = 1 /\ <<o>>[1] = o
      BY <1>5
    <2>2. /\ f \in Seq(Layer) /\ Len(f) = 1 + n /\ f[1] = o
          /\ \A i \in 1..n : f[1 + i] = c[i]
      <3>1. f \in Seq(Layer) /\ Len(f) = 1 + n
        BY <1>4, <2>1, Concat
      <3>2. \A i \in 1..1 : f[i] = <<o>>[i]
        BY <1>4, <2>1, Concat
      <3>3. \A i \in 1..n : f[1 + i] = c[i]
        BY <1>4, <2>1, Concat
      <3> HIDE DEF f
      <3> QED  BY <2>1, <3>1, <3>2, <3>3
    <2> HIDE DEF f
    <2>3. /\ Len(f \o e) = (1 + n) + d
          /\ \A i \in 1..(1 + n) : (f \o e)[i] = f[i]
          /\ \A i \in 1..d : (f \o e)[(1 + n) + i] = e[i]
      <3>1. e \in Seq(Layer) /\ Len(e) = d /\ f \in Seq(Layer) /\ Len(f) = 1 + n
        BY <1>3, <2>2
      <3>2. /\ Len(f \o e) = Len(f) + Len(e)
            /\ \A i \in 1..Len(f) : (f \o e)[i] = f[i]
            /\ \A i \in 1..Len(e) : (f \o e)[Len(f) + i] = e[i]
        <4>1. e \in Seq(Layer) /\ f \in Seq(Layer)
          BY <3>1
        <4> QED  BY <4>1, Concat
      <3> QED  BY <3>1, <3>2, Zenon
    <2>4. new.layers = f \o e
      BY <1>11, <1>12 DEF f
    <2>5. 1 \in 1..(1 + n) /\ \A i \in 1..n : i + 1 \in 1..(1 + n) /\ i + 1 = 1 + i
      BY <1>4
    <2>6. \A i \in 1..d : i + n + 1 = (1 + n) + i
      BY <1>3, <1>4
    <2>7. \A i \in 1..n : new.layers[i + 1] = c[i]
      BY <2>2, <2>3, <2>4, <2>5
    <2>8. \A i \in 1..d : new.layers[i + n + 1] = e[i]
      BY <2>3, <2>4, <2>6
    <2>9. Len(new.layers) = 1 + n + d /\ new.layers[1] = o
      BY <2>2, <2>3, <2>4, <2>5
    <2> QED  BY <2>7, <2>8, <2>9
  <1>14. /\ Len(new.diffids) >= 1 + n + d
         /\ \A i \in 1..(1 + n + d) : new.diffids[i] = img.diffids[i]
    <2> DEFINE x == img.diffids \o <<o.blob>>
               y == x \o Blobs(c)
               z == y \o Blobs(e)
               m == Len(img.diffids)
    <2>1. Blobs(c) \in Seq(Blob) /\ Blobs(e) \in Seq(Blob) /\ <<o.blob>> \in Seq(Blob)
      BY <1>1, <1>3, <1>4, <1>5, PushedLayers
    <2>2. x \in Seq(Blob) /\ Len(x) = m + 1 /\ \A i \in 1..m : x[i] = img.diffids[i]
      <3>1. Len(<<o.blob>>) = 1
        OBVIOUS
      <3> QED  BY <1>1, <2>1, <3>1, Concat
    <2> HIDE DEF x
    <2>3. y \in Seq(Blob) /\ Len(y) = Len(x) + Len(Blobs(c)) /\ \A i \in 1..Len(x) : y[i] = x[i]
      BY <2>1, <2>2, Concat
    <2> HIDE DEF y
    <2>4. Len(z) = Len(y) + Len(Blobs(e)) /\ \A i \in 1..Len(y) : z[i] = y[i]
      BY <2>1, <2>3, Concat
    <2>5. new.diffids = z
      BY <1>11, <1>12 DEF x, y
    <2>6. Len(Blobs(c)) \in Nat /\ Len(Blobs(e)) \in Nat /\ m \in Nat /\ m >= 1 + n + d
      BY <1>9, <2>1
    <2> HIDE DEF z, m
    <2>7. Len(y) \in Nat /\ Len(y) >= m + 1 /\ Len(z) >= Len(y) /\ Len(x) = m + 1
      BY <2>2, <2>3, <2>4, <2>6
    <2>8. ASSUME NEW i \in 1..(1 + n + d) PROVE i \in 1..m /\ i \in 1..Len(x) /\ i \in 1..Len(y)
      BY <1>3, <1>4, <2>6, <2>7
    <2>9. Len(z) >= 1 + n + d
      <3>1. Len(z) \in Nat
        BY <2>4, <2>6, <2>7
      <3> QED  BY <1>3, <1>4, <2>6, <2>7, <3>1
    <2> QED  BY <2>2, <2>3, <2>4, <2>5, <2>8, <2>9
  <1>15. /\ Size(to) = 1 + n + d /\ Len(to.chunks) = n /\ Len(from.chunks) = n
         /\ Len(from.trees) = d /\ Len(to.trees) = d
    <2>1. Len(to.chunks) = n /\ Len(from.chunks) = n /\ Len(from.trees) = d /\ Len(to.trees) = d
      BY <1>8 DEF n, d
    <2> QED  BY <2>1 DEF Size
  <1>16. LayersOK(new, to)
    <2>1. from.lost \subseteq 1..d
      BY DEF MadeFrom, LayersOK, from, d
    <2>2. DOMAIN from.trees = 1..d
      BY <1>2, <1>15
    <2>3. \A i \in 1..d : TreesMade(to)[i] = IF i \in failed THEN {} ELSE TreesMade(from)[i]
      BY <1>8, <2>2 DEF TreesMade
    <2>4. \A i \in 1..d : /\ new.layers[i + n + 1].blob.kind = "derived"
                          /\ new.layers[i + n + 1].blob.holds = TreesMade(to)[i]
      BY <1>3, <1>13, <2>3
    <2>5. /\ \A i \in 1..n : new.layers[i + 1].blob = ChunkBlob(to.chunks[i])
          /\ \A i \in 1..n : new.layers[i + 1].anno = {{}}
      BY <1>4, <1>8, <1>13
    <2>6. to.lost \subseteq 1..d /\ new.layers[1] = OstreeLayer(to.chunks, to.meta)
      BY <1>3, <1>8, <1>13, <2>1 DEF o
    <2> QED  BY <1>13, <1>15, <2>4, <2>5, <2>6 DEF LayersOK
  <1>17. ConfigOK(new, to)
    <2>1. /\ img.diffids[1] = img.layers[1].blob
          /\ img.layers[1] = o
          /\ \A i \in 1..n : img.diffids[i + 1] = ChunkBlob(from.chunks[i])
          /\ from.orphaned => n = 0
          /\ n > 0 => img.label = {ChunkBlob(from.chunks[n])}
          /\ n = 0 /\ ~from.orphaned => img.label = {img.layers[1].blob}
      BY DEF MadeFrom, ConfigOK, LayersOK, n, img, from, o
    <2>2. 1 \in 1..(1 + n + d) /\ \A i \in 1..n : i + 1 \in 1..(1 + n + d)
      BY <1>3, <1>4
    <2>3. /\ new.diffids[1] = new.layers[1].blob
          /\ \A i \in 1..n : new.diffids[i + 1] = ChunkBlob(to.chunks[i])
      BY <1>8, <1>13, <1>14, <2>1, <2>2
    <2>4. /\ to.orphaned => n = 0
          /\ n > 0 => new.label = {ChunkBlob(to.chunks[n])}
          /\ n = 0 /\ ~to.orphaned => new.label = {new.layers[1].blob}
      BY <1>8, <1>12, <1>13, <2>1
    <2> QED  BY <1>14, <1>15, <2>3, <2>4 DEF ConfigOK
  <1>18. FirstOK(new, to)
    <2>1. to.exports # 0
      BY <1>2, <1>8
    <2> QED  BY <2>1 DEF FirstOK
  <1> QED  BY <1>8, <1>12, <1>16, <1>17, <1>18 DEF MadeFrom, new, to, from

-----------------------------------------------------------------------------
LEMMA StoredFields ==
    ASSUME NEW img, NEW from
    PROVE  /\ Stored(img, from).image = img /\ Stored(img, from).from = from
           /\ Stored(img, from).sets = SetsOf(ParseManifestLayout(img).chunks)
           /\ Stored(img, from).trees = TreesOf(ParseManifestLayout(img).derived)
           /\ Stored(img, from).meta = img.layers[1].blob.as
           /\ Stored(img, from).objects =
                 img.layers[1].blob.holds \cup UNION ToSet(SetsOf(ParseManifestLayout(img).chunks))
  <1> DEFINE a == SetsOf(ParseManifestLayout(img).chunks)
             b == TreesOf(ParseManifestLayout(img).derived)
             c == img.layers[1].blob.as
             d == img.layers[1].blob.holds \cup UNION ToSet(a)
  <1>1. Stored(img, from) = [image |-> img, objects |-> d, sets |-> a, trees |-> b, meta |-> c, from |-> from]
    BY DEF Stored
  <1> HIDE DEF a, b, c, d
  <1>2. /\ Stored(img, from).image = img /\ Stored(img, from).from = from
        /\ Stored(img, from).sets = a /\ Stored(img, from).trees = b
        /\ Stored(img, from).meta = c /\ Stored(img, from).objects = d
    BY <1>1
  <1> QED  BY <1>2 DEF a, b, c, d

LEMMA LayoutInit == Init => LayoutInv
  <1> SUFFICES ASSUME Init PROVE LayoutInv
    OBVIOUS
  <1>1. host.image = NoImage /\ host.from = Unmade
    BY DEF Init, NoHost
  <1> QED  BY <1>1, NoImageIs DEF Init, LayoutInv, HostExact

LEMMA LayoutNext == LayoutInv /\ [Next]_vars => LayoutInv'
  <1> SUFFICES ASSUME LayoutInv, [Next]_vars PROVE LayoutInv'
    OBVIOUS
  <1>1. ASSUME NEW chunks \in Chunkings, NEW meta \in Metas \cup {NoMeta}, Encapsulate(chunks, meta)
        PROVE  LayoutInv'
    <2>1. MadeFrom(image', made')
      BY <1>1, BuiltIs DEF Encapsulate
    <2>2. host'.image = NoImage /\ host'.from = Unmade
      BY <1>1 DEF Encapsulate, NoHost
    <2>3. image' \in ImageType /\ made' \in MadeType
      BY <2>1 DEF MadeFrom
    <2> QED  BY <2>1, <2>2, <2>3, NoImageIs DEF LayoutInv, HostExact
  <1>2. ASSUME NEW tree \in Trees, Derive(tree) PROVE LayoutInv'
    <2>1. MadeFrom(image, made)
      BY <1>2 DEF LayoutInv, Derive
    <2>2. image' = PushLayer(image, DerivedLayer(tree)) /\ made' = WithTree(made, tree)
      BY <1>2, Zenon DEF Derive, WithTree
    <2>3. MadeFrom(image', made')
      BY <2>1, <2>2, DerivedIs
    <2>4. image' \in ImageType /\ made' \in MadeType
      BY <2>3 DEF MadeFrom
    <2>5. host' = host
      BY <1>2 DEF Derive
    <2> QED  BY <2>3, <2>4, <2>5 DEF LayoutInv, HostExact
  <1>3. ASSUME NEW meta \in Metas \cup {NoMeta}, UpdateDetachedMetadata(meta) PROVE LayoutInv'
    <2>1. image # NoImage
      BY <1>3, NoImageIs DEF UpdateDetachedMetadata
    <2>2. MadeFrom(image, made)
      BY <2>1 DEF LayoutInv
    <2>3. /\ image' = Spliced(image, [image.layers[1].blob EXCEPT !.as = meta])
          /\ made' = WithMeta(made, meta, Orphans(made, meta))
      BY <1>3, Zenon DEF UpdateDetachedMetadata, WithMeta, Orphans
    <2>4. MadeFrom(image', made')
      BY <2>2, <2>3, SplicedIs
    <2>5. image' \in ImageType /\ made' \in MadeType
      BY <2>4 DEF MadeFrom
    <2>6. host' = host
      BY <1>3 DEF UpdateDetachedMetadata
    <2> QED  BY <2>4, <2>5, <2>6 DEF LayoutInv, HostExact
  <1>4. ASSUME Import PROVE LayoutInv'
    <2> DEFINE layout == ParseManifestLayout(image)
    <2>1. /\ layout.ok /\ \A i \in DOMAIN layout.chunks : layout.chunks[i].blob.kind = "chunk"
          /\ host' = Stored(image, made) /\ image' = image /\ made' = made
      BY <1>4 DEF Import, Importable
    <2>2. image # NoImage
      BY <2>1, NoImageIs
    <2>3. MadeFrom(image, made)
      BY <2>2 DEF LayoutInv
    <2>4. LayerFromDiffid(image) = Len(made.chunks) + 1
      BY <2>1, <2>3, ImportedAt
    <2>5. /\ SetsOf(layout.chunks) = made.chunks
          /\ TreesOf(layout.derived) = TreesMade(made)
          /\ image.layers[1].blob.holds \cup UNION ToSet(SetsOf(layout.chunks)) = Objects
          /\ image.layers[1].blob.as = made.meta
      BY <2>1, <2>3, <2>4, ReadAll
    <2>6. /\ host'.image = image /\ host'.from = made /\ host'.sets = made.chunks
          /\ host'.trees = TreesMade(made) /\ host'.meta = made.meta /\ host'.objects = Objects
      <3> DEFINE st == Stored(image, made)
      <3>1. /\ st.image = image /\ st.from = made /\ st.sets = SetsOf(layout.chunks)
            /\ st.trees = TreesOf(layout.derived) /\ st.meta = image.layers[1].blob.as
            /\ st.objects = image.layers[1].blob.holds \cup UNION ToSet(SetsOf(layout.chunks))
        BY StoredFields, ZenonT(40)
      <3>2. host' = st
        BY <2>1
      <3> HIDE DEF layout, st
      <3> QED  BY <2>5, <3>1, <3>2, Zenon
    <2>7. HostExact'
      BY <2>6 DEF HostExact
    <2>8. made \in MadeType /\ image \in ImageType
      BY DEF LayoutInv
    <2> QED  BY <2>1, <2>3, <2>6, <2>7, <2>8 DEF LayoutInv
  <1>5. ASSUME NEW failed \in SUBSET DOMAIN host.trees, Export(failed) PROVE LayoutInv'
    <2>1. /\ image' = ExportToOci(host, failed) /\ made' = WithExport(host.from, failed)
          /\ host' = host /\ host.image # NoImage
      BY <1>5, Zenon DEF Export, WithExport
    <2>2. /\ MadeFrom(host.image, host.from) /\ host.sets = host.from.chunks
          /\ host.trees = TreesMade(host.from) /\ host.meta = host.from.meta
      BY <2>1 DEF LayoutInv, HostExact
    <2>3. MadeFrom(image', made')
      BY <2>1, <2>2, ExportedIs
    <2>4. image' \in ImageType /\ made' \in MadeType
      BY <2>3 DEF MadeFrom
    <2> QED  BY <2>1, <2>3, <2>4 DEF LayoutInv, HostExact
  <1>6. CASE UNCHANGED vars
    BY <1>6 DEF vars, LayoutInv, HostExact
  <1> QED  BY <1>1, <1>2, <1>3, <1>4, <1>5, <1>6 DEF Next

(***************************************************************************)
(* The image and what a host stores are at all times what their histories  *)
(* say: the layers, the diffids and the label that encapsulate.rs writes,  *)
(* update_detachedmeta.rs splices and export_to_oci writes again.          *)
(***************************************************************************)
THEOREM LayoutInvariant == Spec => []LayoutInv
  <1> QED  BY LayoutInit, LayoutNext, PTL DEF Spec

(***************************************************************************)
(* parse_manifest_layout reads every image back to the chunks and derived  *)
(* layers it was made from, and the image can be imported, but for the two *)
(* exceptions named at ReadBack.                                           *)
(***************************************************************************)
THEOREM LayoutReadBack == Spec => []ReadBack
  <1>1. LayoutInv => ReadBack
    <2> SUFFICES ASSUME LayoutInv, image # NoImage, ~made.orphaned
                 PROVE  LET layout == ParseManifestLayout(image)
                        IN  /\ layout.ok = ~Emptied
                            /\ layout.ok => /\ SetsOf(layout.chunks) = made.chunks
                                            /\ TreesOf(layout.derived) = TreesMade(made)
                                            /\ Importable(image)
      BY DEF ReadBack
    <2> DEFINE layout == ParseManifestLayout(image)
    <2>1. MadeFrom(image, made)
      BY DEF LayoutInv
    <2>2. layout.ok <=> ~EmptiedIn(made)
      BY <2>1, Readable
    <2>3. EmptiedIn(made) <=> Emptied
      BY DEF EmptiedIn, Emptied
    <2>4. layout.ok \in BOOLEAN
      BY ParsedBoolean
    <2>5. ASSUME layout.ok
          PROVE  /\ SetsOf(layout.chunks) = made.chunks
                 /\ TreesOf(layout.derived) = TreesMade(made)
                 /\ Importable(image)
      <3>1. LayerFromDiffid(image) = Len(made.chunks) + 1
        BY <2>1, <2>5, Readable
      <3>2. /\ SetsOf(layout.chunks) = made.chunks
            /\ TreesOf(layout.derived) = TreesMade(made)
            /\ image.layers[1].blob.holds \cup UNION ToSet(SetsOf(layout.chunks)) = Objects
            /\ \A i \in DOMAIN layout.chunks : layout.chunks[i].blob.kind = "chunk"
        BY <2>1, <2>5, <3>1, ReadAll
      <3>3. Stored(image, made).objects = Objects
        <4> HIDE DEF layout
        <4> QED  BY <3>2, StoredFields DEF layout
      <3> QED  BY <2>5, <3>2, <3>3 DEF Importable
    <2>6. layout.ok = ~Emptied
      <3> HIDE DEF layout
      <3> QED  BY <2>2, <2>3, <2>4
    <2> QED  BY <2>5, <2>6
  <1> QED  BY <1>1, LayoutInvariant, PTL

(***************************************************************************)
(* A host that stores the image has every object, every chunk, the last    *)
(* detached metadata and every derived tree no failed child lost, whatever *)
(* builds, updates, imports and exports the image went through.            *)
(***************************************************************************)
THEOREM LayoutHostExact == Spec => []HostExact
  <1>1. LayoutInv => HostExact
    BY DEF LayoutInv
  <1> QED  BY <1>1, LayoutInvariant, PTL

(***************************************************************************)
(* Replacing the detached metadata, or exporting, gives layer for layer    *)
(* the image that encapsulating the commit with the new metadata and       *)
(* building the same on top would have given.                              *)
(***************************************************************************)
THEOREM LayoutUpdateIsRebuild == Spec => []UpdateIsRebuild
  <1>1. LayoutInv => UpdateIsRebuild
    <2> SUFFICES ASSUME LayoutInv, image # NoImage
                 PROVE  /\ made.exports = 0 /\ ~made.orphaned => image = Rebuilt
                        /\ Len(image.layers) = Len(Rebuilt.layers)
                        /\ \A i \in DOMAIN image.layers :
                              /\ image.layers[i].blob.kind = Rebuilt.layers[i].blob.kind
                              /\ image.layers[i].blob.kind # "derived" =>
                                    image.layers[i].blob = Rebuilt.layers[i].blob
      BY DEF UpdateIsRebuild
    <2> DEFINE n == Len(made.chunks)
               d == Len(made.trees)
               built == BuildOci(made.chunks, made.meta)
               over == [i \in DOMAIN made.trees |-> DerivedLayer(made.trees[i])]
               re == Rebuilt
    <2>1. MadeFrom(image, made) /\ made \in MadeType /\ image \in ImageType
      BY DEF LayoutInv
    <2>2. /\ made.chunks \in Seq(SUBSET Objects) /\ made.trees \in Seq(Trees)
          /\ made.meta \in Metas \cup {NoMeta} /\ n \in Nat /\ d \in Nat /\ DOMAIN made.trees = 1..d
          /\ image.layers \in Seq(Layer) /\ image.diffids \in Seq(Blob)
      BY <2>1, ChunksType DEF MadeType, ImageType
    <2>3. over \in Seq(Layer) /\ Len(over) = d /\ \A i \in 1..d : over[i] = DerivedLayer(made.trees[i])
      <3>1. \A i \in 1..d : made.trees[i] \in Trees
        BY <2>2
      <3>2. \A i \in 1..d : DerivedLayer(made.trees[i]) \in Layer
        BY <2>2, <3>1, LayerTypes
      <3>3. over \in [1..d -> Layer] /\ \A i \in 1..d : over[i] = DerivedLayer(made.trees[i])
        <4> HIDE DEF d
        <4> QED  BY <2>2, <3>2
      <3> HIDE DEF over, d
      <3> QED  BY <2>2, <3>3
    <2>4. /\ built \in ImageType /\ Len(built.layers) = 1 + n
          /\ built.layers[1] = OstreeLayer(made.chunks, made.meta)
          /\ \A i \in 1..n : /\ built.layers[i + 1].blob = ChunkBlob(made.chunks[i])
                             /\ built.layers[i + 1].anno = {made.chunks[i]}
          /\ built.diffids = Blobs(built.layers)
          /\ n > 0 => built.label = {ChunkBlob(made.chunks[n])}
          /\ n = 0 => built.label = {built.layers[1].blob}
      <3> DEFINE f == WithChunks(Unmade, made.chunks, made.meta)
      <3>1. made.chunks \in Chunkings \cup {<<>>}
        BY <2>1 DEF MadeType
      <3>2. MadeFrom(built, f)
        BY <2>2, <3>1, BuiltIs, Zenon DEF WithChunks
      <3>3. f = [chunks |-> made.chunks, meta |-> made.meta, trees |-> Unmade.trees, lost |-> Unmade.lost,
                 exports |-> Unmade.exports, orphaned |-> Unmade.orphaned]
        BY <2>2, <3>1, NoImageIs, Remade, Zenon
      <3> DEFINE u == Unmade.orphaned
      <3>4. Unmade.trees = <<>> /\ Unmade.exports = 0 /\ u = FALSE
        BY DEF Unmade
      <3> HIDE DEF f, u
      <3>5. f.chunks = made.chunks /\ f.meta = made.meta /\ f.trees = <<>> /\ f.exports = 0 /\ f.orphaned = FALSE
        <4>1. f = [chunks |-> made.chunks, meta |-> made.meta, trees |-> Unmade.trees, lost |-> Unmade.lost,
                   exports |-> Unmade.exports, orphaned |-> u]
          BY <3>3, Zenon DEF u
        <4>2. /\ f.chunks = made.chunks /\ f.meta = made.meta /\ f.trees = Unmade.trees
              /\ f.exports = Unmade.exports /\ f.orphaned = u
          BY <4>1
        <4> QED  BY <3>4, <4>2, Zenon
      <3> HIDE DEF built
      <3>6. built \in ImageType /\ LayersOK(built, f) /\ ConfigOK(built, f) /\ FirstOK(built, f)
        BY <3>2 DEF MadeFrom
      <3>7. Len(f.chunks) = n /\ Len(f.trees) = 0 /\ Size(f) = 1 + n
        <4>1. Len(f.chunks) = n /\ Len(f.trees) = 0
          BY <3>5
        <4> HIDE DEF n
        <4> QED  BY <2>2, <4>1 DEF Size
      <3>8. Len(built.layers) = 1 + n /\ built.layers[1] = OstreeLayer(made.chunks, made.meta)
            /\ \A i \in 1..n : built.layers[i + 1].blob = ChunkBlob(made.chunks[i])
        BY <3>5, <3>6, <3>7 DEF LayersOK
      <3>9. built.diffids = Blobs(built.layers) /\ \A i \in 1..n : built.layers[i + 1].anno = {made.chunks[i]}
        BY <3>5, <3>6, <3>7 DEF FirstOK
      <3>10. /\ n > 0 => built.label = {ChunkBlob(made.chunks[n])}
             /\ n = 0 => built.label = {built.layers[1].blob}
        BY <3>5, <3>6, <3>7 DEF ConfigOK
      <3> QED  BY <3>6, <3>8, <3>9, <3>10
    <2>5. built.layers \in Seq(Layer) /\ built.diffids \in Seq(Blob)
      <3> HIDE DEF built
      <3> QED  BY <2>4 DEF ImageType
    <2>6. /\ re \in ImageType /\ re.layers = built.layers \o over /\ re.label = built.label
          /\ re.diffids = built.diffids \o Blobs(over)
      <3>1. re = PushLayers(built, over)
        BY DEF Rebuilt
      <3> HIDE DEF re, built, over
      <3>2. built \in ImageType /\ over \in Seq(Layer)
        BY <2>3, <2>4
      <3>3. /\ PushLayers(built, over) \in ImageType
            /\ PushLayers(built, over).label = built.label
            /\ PushLayers(built, over).layers = built.layers \o over
            /\ PushLayers(built, over).diffids = built.diffids \o Blobs(over)
        BY <3>2, PushedLayers, Zenon
      <3> QED  BY <3>1, <3>3, Zenon
    <2> HIDE DEF re, built, over, n, d
    <2>7. /\ re.layers \in Seq(Layer) /\ re.diffids \in Seq(Blob) /\ Len(re.layers) = 1 + n + d
          /\ \A i \in 1..(1 + n) : re.layers[i] = built.layers[i]
          /\ \A i \in 1..d : re.layers[i + n + 1] = over[i]
      <3>1. over \in Seq(Layer) /\ Len(over) = d /\ Len(built.layers) = 1 + n
        BY <2>3, <2>4
      <3>2. /\ Len(re.layers) = Len(built.layers) + Len(over)
            /\ \A i \in 1..Len(built.layers) : re.layers[i] = built.layers[i]
            /\ \A i \in 1..Len(over) : re.layers[Len(built.layers) + i] = over[i]
        <4>1. over \in Seq(Layer)
          BY <3>1
        <4> QED  BY <2>5, <2>6, <4>1, Concat
      <3>3. \A i \in 1..d : (1 + n) + i = i + n + 1
        BY <2>2
      <3>4. re.layers \in Seq(Layer) /\ re.diffids \in Seq(Blob)
        BY <2>6 DEF ImageType
      <3> QED  BY <3>1, <3>2, <3>3, <3>4
    <2>8. /\ Len(image.layers) = 1 + n + d
          /\ image.layers[1] = OstreeLayer(made.chunks, made.meta)
          /\ \A i \in 1..n : image.layers[i + 1].blob = ChunkBlob(made.chunks[i])
          /\ \A i \in 1..d : image.layers[i + n + 1].blob.kind = "derived"
      BY <2>1 DEF MadeFrom, LayersOK, Size, n, d
    <2>9. /\ re.layers[1] = OstreeLayer(made.chunks, made.meta)
          /\ \A i \in 1..n : /\ re.layers[i + 1].blob = ChunkBlob(made.chunks[i])
                             /\ re.layers[i + 1].anno = {made.chunks[i]}
          /\ \A i \in 1..d : re.layers[i + n + 1] = DerivedLayer(made.trees[i])
      <3>1. 1 \in 1..(1 + n) /\ \A i \in 1..n : i + 1 \in 1..(1 + n)
        BY <2>2
      <3>2. re.layers[1] = built.layers[1] /\ \A i \in 1..n : re.layers[i + 1] = built.layers[i + 1]
        BY <2>7, <3>1
      <3> QED  BY <2>3, <2>4, <2>7, <3>2
    <2>10. \A i \in 1..(1 + n + d) :
               \/ i = 1
               \/ i - 1 \in 1..n /\ (i - 1) + 1 = i
               \/ i - n - 1 \in 1..d /\ (i - n - 1) + n + 1 = i
      BY <2>2
    <2>11. ASSUME NEW i \in 1..(1 + n + d)
           PROVE  /\ image.layers[i].blob.kind = re.layers[i].blob.kind
                  /\ image.layers[i].blob.kind # "derived" => image.layers[i].blob = re.layers[i].blob
      <3>1. CASE i = 1
        BY <2>8, <2>9, <3>1
      <3>2. CASE i - 1 \in 1..n /\ (i - 1) + 1 = i
        BY <2>8, <2>9, <3>2
      <3>3. CASE i - n - 1 \in 1..d /\ (i - n - 1) + n + 1 = i
        <4>1. image.layers[i].blob.kind = "derived"
          BY <2>8, <3>3
        <4>2. re.layers[i] = DerivedLayer(made.trees[i - n - 1])
          BY <2>9, <3>3
        <4>3. re.layers[i].blob.kind = "derived"
          BY <4>2, BlobFields DEF DerivedLayer
        <4> QED  BY <4>1, <4>3
      <3> QED  BY <2>10, <3>1, <3>2, <3>3
    <2>12. ASSUME made.exports = 0, ~made.orphaned PROVE image = re
      <3>1. /\ image.diffids = Blobs(image.layers)
            /\ \A i \in 1..n : image.layers[i + 1].anno = {made.chunks[i]}
            /\ \A i \in 1..d : image.layers[i + n + 1] = DerivedLayer(made.trees[i])
        BY <2>1, <2>12 DEF MadeFrom, FirstOK, n, d
      <3>2. ASSUME NEW i \in 1..(1 + n + d) PROVE image.layers[i] = re.layers[i]
        <4>1. CASE i = 1
          BY <2>8, <2>9, <4>1
        <4>2. CASE i - 1 \in 1..n /\ (i - 1) + 1 = i
          <5>1. image.layers[i].blob = re.layers[i].blob /\ image.layers[i].anno = re.layers[i].anno
            BY <2>8, <2>9, <3>1, <4>2
          <5>2. image.layers[i] \in Layer /\ re.layers[i] \in Layer
            BY <2>2, <2>7, <2>8
          <5> QED  BY <5>1, <5>2 DEF Layer
        <4>3. CASE i - n - 1 \in 1..d /\ (i - n - 1) + n + 1 = i
          BY <2>9, <3>1, <4>3
        <4> QED  BY <2>10, <4>1, <4>2, <4>3
      <3>3. image.layers = re.layers
        <4>1. /\ image.layers \in Seq(Layer) /\ re.layers \in Seq(Layer)
              /\ Len(image.layers) = Len(re.layers)
          BY <2>2, <2>7, <2>8
        <4>2. \A i \in 1..Len(image.layers) : image.layers[i] = re.layers[i]
          BY <2>8, <3>2
        <4> QED  BY <4>1, <4>2, SameSeq
      <3>4. re.diffids = Blobs(re.layers)
        BY <2>3, <2>4, <2>5, <2>6, BlobsConcat
      <3>5. image.label = re.label
        <4>1. /\ n > 0 => image.label = {ChunkBlob(made.chunks[n])}
              /\ n = 0 => image.label = {image.layers[1].blob}
          BY <2>1, <2>12 DEF MadeFrom, ConfigOK, n
        <4>2. n = 0 \/ n > 0
          BY <2>2
        <4>3. 1 \in 1..(1 + n)
          BY <2>2
        <4> QED  BY <2>4, <2>6, <2>7, <3>3, <4>1, <4>2, <4>3
      <3>6. image.diffids = re.diffids
        BY <3>1, <3>3, <3>4
      <3>7. /\ image = [layers |-> image.layers, diffids |-> image.diffids, label |-> image.label]
            /\ re = [layers |-> re.layers, diffids |-> re.diffids, label |-> re.label]
        BY <2>1, <2>6 DEF ImageType
      <3> QED  BY <3>3, <3>5, <3>6, <3>7, Zenon
    <2>13. DOMAIN image.layers = 1..(1 + n + d) /\ Len(image.layers) = Len(re.layers)
      BY <2>2, <2>7, <2>8
    <2> QED  BY <2>11, <2>12, <2>13 DEF re
  <1> QED  BY <1>1, LayoutInvariant, PTL
=============================================================================
