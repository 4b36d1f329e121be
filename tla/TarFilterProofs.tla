--------------------------- MODULE TarFilterProofs ---------------------------
(***************************************************************************)
(* What filter_tar makes of a layer, for every set of paths, every length  *)
(* of the archive and every order of its entries.                          *)
(*                                                                         *)
(* A location of the output belongs to one path of the layer at most, for  *)
(* the two places that paths are moved to are not among the places that    *)
(* paths come from.  With it, the two maps of filter_tar are read off:     *)
(* every object that is kept has its own data, and every object that was   *)
(* written is where new_sysroot_link_targets says.                         *)
(***************************************************************************)
EXTENDS TarFilter, FiniteSetTheorems, TLAPS

-----------------------------------------------------------------------------
(***************************************************************************)
(* The inductive invariant.                                                *)
(***************************************************************************)
IsEntry(e) ==
    /\ e.path \in Paths /\ e.type \in {"file", "link", "directory"}
    /\ e.type # "link" => e.data = e.path
    /\ e.type = "link" => /\ e.target \in DOMAIN layer
                          /\ e.data = layer[e.target].data
                          /\ e.modified = layer[e.target].modified

\* The layer is made of entries, each at its path.
LayerOK ==
    /\ IsFiniteSet(DOMAIN layer)
    /\ \A p \in DOMAIN layer : layer[p].path = p /\ IsEntry(layer[p])

\* The objects in changed_sysroot_objects are in the layer, and those in
\* new_sysroot_link_targets are in the output besides; and no object is forgotten.
ObjectsOK ==
    /\ \A o \in changed : o \in DOMAIN layer /\ layer[o].data = o
    /\ \A o \in DOMAIN targets :
          /\ o \in DOMAIN layer /\ layer[o].data = o
          /\ targets[o] \in DOMAIN tree /\ tree[targets[o]] = o
    /\ \A o \in DOMAIN layer : IsObject(layer[o]) => o \in changed \cup DOMAIN targets

\* Of a supported archive, exactly what is kept is in the output, and what is dropped is
\* counted.
KeptOK ==
    /\ status # "failed"
    /\ DOMAIN tree = {Normalized(p) : p \in Kept}
    /\ \A p \in Kept : tree[Normalized(p)] = layer[p].data
CountsOK ==
    /\ \A name \in DOMAIN filtered : filtered[name] = Cardinality(Dropped(name))
    /\ \A p \in DOMAIN layer \ Kept : ~IsObject(layer[p]) => FilteredAs(p) \in DOMAIN filtered

FilterInv == LayerOK /\ ObjectsOK /\ NeverMisled /\ (Supported => KeptOK /\ CountsOK)

-----------------------------------------------------------------------------
LEMMA PutIs ==
    ASSUME NEW f, NEW x, NEW value
    PROVE  /\ DOMAIN Put(f, x, value) = DOMAIN f \cup {x}
           /\ Put(f, x, value)[x] = value
           /\ \A y \in DOMAIN f : y # x => Put(f, x, value)[y] = f[y]
  BY DEF Put

\* A location is the place of one path at most.
LEMMA OneOwner ==
    ASSUME NEW p \in Paths, NEW q \in Paths, NEW loc,
           loc \in {p, Normalized(p)}, loc \in {q, Normalized(q)}
    PROVE  p = q
  <1>1. \A r \in Paths :
            /\ r.top \in Tops /\ r = [top |-> r.top, name |-> r.name]
            /\ Normalized(r).name = r.name
            /\ Normalized(r) = r \/ Normalized(r).top \notin Tops
            /\ Normalized(r).top \in {r.top, "usr/etc", "usr/share/factory/var"}
            /\ Normalized(r).top = "usr/etc" => r.top = "etc"
            /\ Normalized(r).top = "usr/share/factory/var" => r.top = "var"
    BY PathsAssumption DEF Normalized, Tops
  <1> QED  BY <1>1

\* remap_etc_path leads to a place of the link's own target, if to any.
LEMMA RemapOwner ==
    ASSUME NEW p \in Paths, NEW q \in Paths,
           RemapEtcPath(p) \in {q, Normalized(q)}
    PROVE  p = q
  <1>1. \A r \in Paths :
            /\ r.top \in Tops /\ r = [top |-> r.top, name |-> r.name]
            /\ Normalized(r).name = r.name
            /\ Normalized(r) = r \/ Normalized(r).top \notin Tops
            /\ Normalized(r).top = "usr/etc" => r.top = "etc"
    BY PathsAssumption DEF Normalized, Tops
  <1>2. RemapEtcPath(p).name = p.name /\ (RemapEtcPath(p) = p \/ (p.top = "etc" /\ RemapEtcPath(p).top = "usr/etc"))
    BY <1>1 DEF RemapEtcPath
  <1>3. CASE RemapEtcPath(p) = p
    BY <1>1, <1>3
  <1>4. CASE p.top = "etc" /\ RemapEtcPath(p).top = "usr/etc"
    <2>1. q.top = "etc"
      BY <1>1, <1>4 DEF Tops
    <2>2. q.name = p.name
      BY <1>1, <1>2
    <2> QED  BY <1>1, <1>4, <2>1, <2>2
  <1> QED  BY <1>2, <1>3, <1>4

-----------------------------------------------------------------------------
(***************************************************************************)
(* Reading one entry.                                                      *)
(***************************************************************************)
LEMMA NextEntry ==
    ASSUME LayerOK, NEW e \in NextEntries
    PROVE  IsEntry(e) /\ e.path \notin DOMAIN layer
  <1>1. \/ \E p \in Paths \ DOMAIN layer : \E b \in BOOLEAN : e = File(p, b)
        \/ \E p \in Paths \ DOMAIN layer : \E t \in DOMAIN layer : e = Link(p, t)
        \/ \E p \in Paths \ DOMAIN layer : e = Directory(p)
    BY DEF NextEntries
  <1>2. ASSUME NEW p \in Paths \ DOMAIN layer, NEW b \in BOOLEAN, e = File(p, b)
        PROVE  IsEntry(e) /\ e.path \notin DOMAIN layer
    BY <1>2 DEF File, IsEntry
  <1>3. ASSUME NEW p \in Paths \ DOMAIN layer, NEW t \in DOMAIN layer, e = Link(p, t)
        PROVE  IsEntry(e) /\ e.path \notin DOMAIN layer
    BY <1>3 DEF Link, IsEntry
  <1>4. ASSUME NEW p \in Paths \ DOMAIN layer, e = Directory(p)
        PROVE  IsEntry(e) /\ e.path \notin DOMAIN layer
    BY <1>4 DEF File, Directory, IsEntry
  <1> QED  BY <1>1, <1>2, <1>3, <1>4

LEMMA ReadEntry ==
    ASSUME LayerOK, NEW e \in NextEntries, Read(e)
    PROVE  /\ LayerOK'
           /\ DOMAIN layer' = DOMAIN layer \cup {e.path}
           /\ layer'[e.path] = e
           /\ \A p \in DOMAIN layer : p # e.path /\ layer'[p] = layer[p]
  <1>1. IsEntry(e) /\ e.path \notin DOMAIN layer
    BY NextEntry
  <1>2. layer' = Put(layer, e.path, e)
    BY DEF Read
  <1>3. /\ DOMAIN layer' = DOMAIN layer \cup {e.path}
        /\ layer'[e.path] = e
        /\ \A p \in DOMAIN layer : p # e.path /\ layer'[p] = layer[p]
    BY <1>1, <1>2 DEF Put
  <1>4. IsFiniteSet(DOMAIN layer')
    BY <1>3, FS_AddElement DEF LayerOK
  <1>5. \A p \in DOMAIN layer' : layer'[p].path = p /\ IsEntry(layer[p])' 
    BY <1>1, <1>3 DEF LayerOK, IsEntry
  <1> QED  BY <1>3, <1>4, <1>5 DEF LayerOK

\* Which entries are objects, filtered or moved does not change.
LEMMA SameRules ==
    ASSUME UNCHANGED <<style, config>>
    PROVE  /\ \A p : (IsFiltered(p)' <=> IsFiltered(p)) /\ Normalized(p)' = Normalized(p)
           /\ \A e : (IsObject(e)' <=> IsObject(e))
  BY DEF IsFiltered, Normalized, IsObject, PathInRepo

LEMMA ReadKept ==
    ASSUME LayerOK, NEW e \in NextEntries, Read(e)
    PROVE  /\ Kept' = Kept \cup (IF IsFiltered(e.path) \/ IsObject(e) THEN {} ELSE {e.path})
           /\ e.path \notin Kept
  <1>1. UNCHANGED <<style, config>>
    BY DEF Read
  <1>2. \A p : (IsFiltered(p)' <=> IsFiltered(p)) /\ (IsObject(layer[p])' <=> IsObject(layer'[p]))
    BY <1>1 DEF IsFiltered, IsObject, PathInRepo
  <1>3. /\ DOMAIN layer' = DOMAIN layer \cup {e.path} /\ layer'[e.path] = e
        /\ \A p \in DOMAIN layer : p # e.path /\ layer'[p] = layer[p]
    BY ReadEntry
  <1> QED  BY <1>2, <1>3 DEF Kept

\* An archive that is supported was so before its last entry, and the entry is handled.
LEMMA ReadSupported ==
    ASSUME LayerOK, NEW e \in NextEntries, Read(e), Supported'
    PROVE  Supported /\ (e.type = "link" => Handled(e)')
  <1>1. UNCHANGED <<style, config>>
    BY DEF Read
  <1>2. e.type = "link" => Handled(e)'
    <2>1. e.path \in DOMAIN layer' /\ layer'[e.path] = e
      BY ReadEntry
    <2> QED  BY <2>1 DEF Supported
  <1>3. ASSUME NEW p \in DOMAIN layer, layer[p].type = "link"
        PROVE  Handled(layer[p])
    <2>1. Handled(layer[p])' /\ layer[p]' = layer[p]
      BY <1>3, ReadEntry DEF Supported
    <2>2. layer[p].path = p /\ layer[p].target \in DOMAIN layer
      BY <1>3 DEF LayerOK, IsEntry
    <2>3. layer[p].target \in Kept' <=> layer[p].target \in Kept
      BY <2>2, ReadKept, ReadEntry
    <2>4. p \in Kept' <=> p \in Kept
      BY ReadKept, ReadEntry
    <2>5. layer'[layer[p].target] = layer[layer[p].target]
      BY <2>2, ReadEntry
    <2>6. style' = style /\ \A q : Normalized(q)' = Normalized(q)
      BY <1>1, SameRules
    <2> QED  BY <2>1, <2>2, <2>3, <2>4, <2>5, <2>6 DEF Handled, ToObject
  <1> QED  BY <1>2, <1>3 DEF Supported
-----------------------------------------------------------------------------
(***************************************************************************)
(* Writing one entry to the output, or none.                               *)
(***************************************************************************)
LEMMA FreshPlace ==
    ASSUME LayerOK, NeverMisled, NEW e \in NextEntries, NEW loc \in {e.path, Normalized(e.path)}
    PROVE  loc \notin DOMAIN tree
  <1> SUFFICES ASSUME loc \in DOMAIN tree PROVE FALSE
    OBVIOUS
  <1>1. PICK p \in DOMAIN layer : loc \in {p, Normalized(p)}
    BY DEF NeverMisled
  <1>2. p \in Paths /\ e.path \in Paths /\ e.path \notin DOMAIN layer
    BY NextEntry DEF LayerOK, IsEntry
  <1> QED  BY <1>1, <1>2, OneOwner

LEMMA Placed ==
    ASSUME LayerOK, NeverMisled, NEW e \in NextEntries, Read(e),
           NEW loc \in {e.path, Normalized(e.path)}, tree' = Put(tree, loc, e.data)
    PROVE  /\ NeverMisled'
           /\ DOMAIN tree' = DOMAIN tree \cup {loc} /\ tree'[loc] = e.data
           /\ \A l \in DOMAIN tree : l # loc /\ tree'[l] = tree[l]
  <1>1. loc \notin DOMAIN tree
    BY FreshPlace
  <1>2. /\ DOMAIN tree' = DOMAIN tree \cup {loc} /\ tree'[loc] = e.data
        /\ \A l \in DOMAIN tree : l # loc /\ tree'[l] = tree[l]
    BY <1>1 DEF Put
  <1>3. \A p : Normalized(p)' = Normalized(p)
    BY SameRules DEF Read
  <1>4. /\ DOMAIN layer' = DOMAIN layer \cup {e.path} /\ layer'[e.path] = e
        /\ \A p \in DOMAIN layer : p # e.path /\ layer'[p] = layer[p]
    BY ReadEntry
  <1>5. ASSUME NEW l \in DOMAIN tree'
        PROVE  \E p \in DOMAIN layer' : l \in {p, Normalized(p)} /\ tree'[l] = layer'[p].data
    BY <1>2, <1>4 DEF NeverMisled
  <1> QED  BY <1>2, <1>3, <1>5 DEF NeverMisled

LEMMA NotPlaced ==
    ASSUME LayerOK, NeverMisled, NEW e \in NextEntries, Read(e), tree' = tree
    PROVE  NeverMisled'
  <1>1. \A p : Normalized(p)' = Normalized(p)
    BY SameRules DEF Read
  <1>2. \A p \in DOMAIN layer : p \in DOMAIN layer' /\ layer'[p] = layer[p]
    BY ReadEntry
  <1>3. ASSUME NEW l \in DOMAIN tree'
        PROVE  \E p \in DOMAIN layer' : l \in {p, Normalized(p)} /\ tree'[l] = layer'[p].data
    BY <1>2 DEF NeverMisled
  <1> QED  BY <1>1, <1>3 DEF NeverMisled

LEMMA KeptPlaced ==
    ASSUME LayerOK, NeverMisled, KeptOK, NEW e \in NextEntries, Read(e), status' = status,
           ~IsFiltered(e.path), ~IsObject(e), tree' = Put(tree, Normalized(e.path), e.data)
    PROVE  KeptOK'
  <1>1. Kept' = Kept \cup {e.path}
    BY ReadKept
  <1>2. \A p : Normalized(p)' = Normalized(p)
    BY SameRules DEF Read
  <1>3. /\ DOMAIN tree' = DOMAIN tree \cup {Normalized(e.path)} /\ tree'[Normalized(e.path)] = e.data
        /\ \A l \in DOMAIN tree : l # Normalized(e.path) /\ tree'[l] = tree[l]
    BY Placed
  <1>4. layer'[e.path] = e /\ \A p \in DOMAIN layer : layer'[p] = layer[p]
    BY ReadEntry
  <1>5. Kept \subseteq DOMAIN layer
    BY DEF Kept
  <1>6. DOMAIN tree' = {Normalized(p) : p \in Kept'}
    BY <1>1, <1>3 DEF KeptOK
  <1>7. ASSUME NEW p \in Kept' PROVE tree'[Normalized(p)] = layer'[p].data
    BY <1>1, <1>3, <1>4, <1>5 DEF KeptOK
  <1> QED  BY <1>2, <1>6, <1>7 DEF KeptOK

LEMMA KeptNotPlaced ==
    ASSUME LayerOK, KeptOK, NEW e \in NextEntries, Read(e), status' = status,
           IsFiltered(e.path) \/ IsObject(e), tree' = tree
    PROVE  KeptOK'
  <1>1. Kept' = Kept
    BY ReadKept
  <1>2. \A p : Normalized(p)' = Normalized(p)
    BY SameRules DEF Read
  <1>3. \A p \in DOMAIN layer : layer'[p] = layer[p]
    BY ReadEntry
  <1>4. Kept \subseteq DOMAIN layer
    BY DEF Kept
  <1> QED  BY <1>1, <1>2, <1>3, <1>4 DEF KeptOK

LEMMA ReadDropped ==
    ASSUME LayerOK, NEW e \in NextEntries, Read(e), NEW name
    PROVE  Dropped(name)' = Dropped(name) \cup
              (IF IsFiltered(e.path) /\ ~IsObject(e) /\ FilteredAs(e.path) = name THEN {e.path} ELSE {})
  <1>1. /\ DOMAIN layer' = DOMAIN layer \cup {e.path} /\ layer'[e.path] = e
        /\ \A p \in DOMAIN layer : p # e.path /\ layer'[p] = layer[p]
    BY ReadEntry
  <1>2. \A p : IsObject(layer[p])' <=> IsObject(layer'[p])
    BY DEF Read, IsObject, PathInRepo
  <1>3. /\ Kept' = Kept \cup (IF IsFiltered(e.path) \/ IsObject(e) THEN {} ELSE {e.path})
        /\ e.path \notin Kept
    BY ReadKept
  <1> QED  BY <1>1, <1>2, <1>3 DEF Dropped

LEMMA NotDropped ==
    ASSUME LayerOK, CountsOK, NEW e \in NextEntries, Read(e), filtered' = filtered,
           ~IsFiltered(e.path) \/ IsObject(e)
    PROVE  CountsOK'
  <1>1. \A name : Dropped(name)' = Dropped(name)
    BY ReadDropped
  <1>2. /\ DOMAIN layer' = DOMAIN layer \cup {e.path} /\ layer'[e.path] = e
        /\ \A p \in DOMAIN layer : p # e.path /\ layer'[p] = layer[p]
    BY ReadEntry
  <1>3. \A p : IsObject(layer[p])' <=> IsObject(layer'[p])
    BY DEF Read, IsObject, PathInRepo
  <1>4. /\ Kept' = Kept \cup (IF IsFiltered(e.path) \/ IsObject(e) THEN {} ELSE {e.path})
        /\ e.path \notin Kept
    BY ReadKept
  <1> QED  BY <1>1, <1>2, <1>3, <1>4 DEF CountsOK
-----------------------------------------------------------------------------
(***************************************************************************)
(* The actions.                                                            *)
(***************************************************************************)
LEMMA FilterInit == Init => FilterInv
  <1> SUFFICES ASSUME Init PROVE FilterInv
    OBVIOUS
  <1>1. DOMAIN layer = {} /\ DOMAIN targets = {} /\ DOMAIN tree = {} /\ DOMAIN filtered = {}
        /\ changed = {} /\ status # "failed"
    BY DEF Init, Nothing
  <1>2. Kept = {}
    BY <1>1 DEF Kept
  <1> QED  BY <1>1, <1>2, FS_EmptySet DEF FilterInv, LayerOK, ObjectsOK, NeverMisled, KeptOK, CountsOK

LEMMA CacheKeeps ==
    ASSUME FilterInv, NEW e \in NextEntries, CacheObject(e)
    PROVE  FilterInv'
  <1> USE DEF FilterInv
  <1>1. Read(e) /\ IsObject(e) /\ changed' = changed \cup {e.path}
        /\ UNCHANGED <<targets, tree, filtered, status>>
    BY DEF CacheObject
  <1>2. /\ LayerOK' /\ DOMAIN layer' = DOMAIN layer \cup {e.path} /\ layer'[e.path] = e
        /\ \A p \in DOMAIN layer : p # e.path /\ layer'[p] = layer[p]
    BY <1>1, ReadEntry
  <1>3. \A p : IsObject(layer[p])' <=> IsObject(layer'[p])
    BY <1>1 DEF Read, IsObject, PathInRepo
  <1>4. e.data = e.path
    BY <1>1, NextEntry DEF IsEntry, IsObject
  <1>5. ObjectsOK'
    BY <1>1, <1>2, <1>3, <1>4 DEF ObjectsOK
  <1>6. NeverMisled'
    BY <1>1, NotPlaced
  <1>7. Supported' => KeptOK' /\ CountsOK'
    BY <1>1, ReadSupported, KeptNotPlaced, NotDropped
  <1> QED  BY <1>2, <1>5, <1>6, <1>7

\* The path of a supported link to an object is kept where it is.
LEMMA ObjectLinkKept ==
    ASSUME LayerOK, NEW e \in NextEntries, Read(e), IsObjectLink(e), Supported'
    PROVE  /\ ~IsFiltered(e.path) /\ ~IsObject(e) /\ Normalized(e.path) = e.path
           /\ IsObject(layer[e.target])
  <1>1. /\ style = "rel" /\ e.target.top = "repo" /\ e.path.top # "repo" /\ e.type = "link" /\ e.modified
    BY DEF IsObjectLink, PathInRepo, TargetInRepo
  <1>2. ToObject(e)'
    BY <1>1 DEF ToObject
  <1>3. layer'[e.target].type = "file" /\ e.path \in Kept' /\ Normalized(e.path)' = e.path
    BY <1>1, <1>2, ReadSupported DEF Handled
  <1>4. ~IsFiltered(e.path) /\ ~IsObject(e)
    BY <1>3, ReadKept
  <1>5. Normalized(e.path) = e.path
    BY <1>3, SameRules DEF Read
  <1>6. e.target \in DOMAIN layer /\ layer[e.target].modified = e.modified
    BY <1>1, NextEntry DEF IsEntry
  <1>7. layer[e.target].type = "file" /\ layer[e.target].path = e.target
    BY <1>3, <1>6, ReadEntry DEF LayerOK
  <1>8. IsObject(layer[e.target])
    BY <1>1, <1>6, <1>7 DEF IsObject, PathInRepo
  <1> QED  BY <1>4, <1>5, <1>8

LEMMA CanonicalKeeps ==
    ASSUME FilterInv, NEW e \in NextEntries, MakeCanonical(e)
    PROVE  FilterInv'
  <1> USE DEF FilterInv
  <1>1. /\ Read(e) /\ IsObjectLink(e) /\ e.target \in changed
        /\ tree' = Put(tree, e.path, e.target) /\ changed' = changed \ {e.target}
        /\ targets' = Put(targets, e.target, e.path) /\ UNCHANGED <<filtered, status>>
    BY DEF MakeCanonical, KeptObject
  <1>2. /\ LayerOK' /\ DOMAIN layer' = DOMAIN layer \cup {e.path} /\ layer'[e.path] = e
        /\ \A p \in DOMAIN layer : p # e.path /\ layer'[p] = layer[p]
    BY <1>1, ReadEntry
  <1>3. \A p : IsObject(layer[p])' <=> IsObject(layer'[p])
    BY <1>1 DEF Read, IsObject, PathInRepo
  <1>4. e.data = e.target /\ e.target \in DOMAIN layer /\ layer[e.target].data = e.target
    BY <1>1, NextEntry DEF IsEntry, IsObjectLink, ObjectsOK
  <1>5. /\ NeverMisled' /\ DOMAIN tree' = DOMAIN tree \cup {e.path} /\ tree'[e.path] = e.target
        /\ \A l \in DOMAIN tree : l # e.path /\ tree'[l] = tree[l]
    BY <1>1, <1>4, Placed
  <1>6. /\ DOMAIN targets' = DOMAIN targets \cup {e.target} /\ targets'[e.target] = e.path
        /\ \A o \in DOMAIN targets : o # e.target => targets'[o] = targets[o]
    BY <1>1 DEF Put
  <1>7. ObjectsOK'
    <2>1. \A o \in changed' : o \in DOMAIN layer' /\ layer'[o].data = o
      BY <1>1, <1>2 DEF ObjectsOK
    <2>2. ASSUME NEW o \in DOMAIN targets'
          PROVE  /\ o \in DOMAIN layer' /\ layer'[o].data = o
                 /\ targets'[o] \in DOMAIN tree' /\ tree'[targets'[o]] = o
      BY <1>2, <1>4, <1>5, <1>6 DEF ObjectsOK
    <2>3. ~IsObject(e)
      BY <1>1 DEF IsObject, IsObjectLink
    <2>4. \A o \in DOMAIN layer' : IsObject(layer[o])' => o \in changed' \cup DOMAIN targets'
      BY <1>1, <1>2, <1>3, <1>6, <2>3 DEF ObjectsOK
    <2> QED  BY <2>1, <2>2, <2>4 DEF ObjectsOK
  <1>8. ASSUME Supported' PROVE KeptOK' /\ CountsOK'
    <2>1. Supported /\ ~IsFiltered(e.path) /\ ~IsObject(e) /\ Normalized(e.path) = e.path
      BY <1>1, <1>8, ObjectLinkKept, ReadSupported
    <2> QED  BY <1>1, <1>4, <2>1, KeptPlaced, NotDropped
  <1> QED  BY <1>2, <1>5, <1>7, <1>8

LEMMA RelinkKeeps ==
    ASSUME FilterInv, NEW e \in NextEntries, Relink(e)
    PROVE  FilterInv'
  <1> USE DEF FilterInv
  <1>1. /\ Read(e) /\ IsObjectLink(e) /\ e.target \in DOMAIN targets
        /\ tree' = Put(tree, e.path, tree[targets[e.target]])
        /\ UNCHANGED <<changed, targets, filtered, status>>
    BY DEF Relink
  <1>2. /\ LayerOK' /\ DOMAIN layer' = DOMAIN layer \cup {e.path} /\ layer'[e.path] = e
        /\ \A p \in DOMAIN layer : p # e.path /\ layer'[p] = layer[p]
    BY <1>1, ReadEntry
  <1>3. \A p : IsObject(layer[p])' <=> IsObject(layer'[p])
    BY <1>1 DEF Read, IsObject, PathInRepo
  <1>4. tree[targets[e.target]] = e.data
    BY <1>1, NextEntry DEF IsEntry, IsObjectLink, ObjectsOK
  <1>5. /\ NeverMisled' /\ DOMAIN tree' = DOMAIN tree \cup {e.path}
        /\ \A l \in DOMAIN tree : l # e.path /\ tree'[l] = tree[l]
    BY <1>1, <1>4, Placed
  <1>6. ObjectsOK'
    <2>1. ~IsObject(e)
      BY <1>1 DEF IsObject, IsObjectLink
    <2> QED  BY <1>1, <1>2, <1>3, <1>5, <2>1 DEF ObjectsOK
  <1>7. ASSUME Supported' PROVE KeptOK' /\ CountsOK'
    <2>1. Supported /\ ~IsFiltered(e.path) /\ ~IsObject(e) /\ Normalized(e.path) = e.path
      BY <1>1, <1>7, ObjectLinkKept, ReadSupported
    <2> QED  BY <1>1, <1>4, <2>1, KeptPlaced, NotDropped
  <1> QED  BY <1>2, <1>5, <1>6, <1>7

\* A link that is not handled is not one of a supported archive.
LEMMA UnhandledKeeps ==
    ASSUME FilterInv, NEW e \in NextEntries, UnhandledLink(e)
    PROVE  FilterInv'
  <1> USE DEF FilterInv
  <1>1. /\ Read(e) /\ IsObjectLink(e) /\ e.target \notin changed \cup DOMAIN targets
        /\ UNCHANGED <<changed, targets, tree, filtered, status>>
    BY DEF UnhandledLink
  <1>2. /\ LayerOK' /\ DOMAIN layer' = DOMAIN layer \cup {e.path} /\ layer'[e.path] = e
        /\ \A p \in DOMAIN layer : p # e.path /\ layer'[p] = layer[p]
    BY <1>1, ReadEntry
  <1>3. \A p : IsObject(layer[p])' <=> IsObject(layer'[p])
    BY <1>1 DEF Read, IsObject, PathInRepo
  <1>4. ObjectsOK'
    <2>1. ~IsObject(e)
      BY <1>1 DEF IsObject, IsObjectLink
    <2> QED  BY <1>1, <1>2, <1>3, <2>1 DEF ObjectsOK
  <1>5. NeverMisled'
    BY <1>1, NotPlaced
  <1>6. ~Supported'
    <2>1. e.target \in DOMAIN layer
      BY <1>1, NextEntry DEF IsEntry, IsObjectLink
    <2> QED  BY <1>1, <2>1, ObjectLinkKept DEF ObjectsOK
  <1> QED  BY <1>2, <1>4, <1>5, <1>6

\* What is filtered is counted under its name: once more, or for the first time.
LEMMA FilterKeeps ==
    ASSUME FilterInv, NEW e \in NextEntries, Filter(e)
    PROVE  FilterInv'
  <1> USE DEF FilterInv
  <1> DEFINE name == FilteredAs(e.path)
             count == IF name \in DOMAIN filtered THEN filtered[name] + 1 ELSE 1
  <1>1. /\ Read(e) /\ ~IsObject(e) /\ IsFiltered(e.path)
        /\ filtered' = Put(filtered, name, count) /\ UNCHANGED <<changed, targets, tree, status>>
    BY DEF Filter
  <1>2. /\ LayerOK' /\ DOMAIN layer' = DOMAIN layer \cup {e.path} /\ layer'[e.path] = e
        /\ \A p \in DOMAIN layer : p # e.path /\ layer'[p] = layer[p]
    BY <1>1, ReadEntry
  <1>3. \A p : IsObject(layer[p])' <=> IsObject(layer'[p])
    BY <1>1 DEF Read, IsObject, PathInRepo
  <1>4. ObjectsOK'
    BY <1>1, <1>2, <1>3 DEF ObjectsOK
  <1>5. NeverMisled'
    BY <1>1, NotPlaced
  <1>6. ASSUME Supported' PROVE KeptOK' /\ CountsOK'
    <2>1. Supported
      BY <1>1, <1>6, ReadSupported
    <2>2. KeptOK'
      BY <1>1, <2>1, KeptNotPlaced
    <2>3. Kept' = Kept /\ e.path \notin Kept
      BY <1>1, ReadKept
    <2>4. \A n : Dropped(n)' = Dropped(n) \cup (IF name = n THEN {e.path} ELSE {})
      BY <1>1, ReadDropped
    <2>5. IsFiniteSet(Dropped(name)) /\ e.path \notin Dropped(name)
      BY <1>2, FS_Subset DEF Dropped, LayerOK
    <2>6. Cardinality(Dropped(name) \cup {e.path}) = Cardinality(Dropped(name)) + 1
      BY <2>5, FS_AddElement
    <2>7. name \notin DOMAIN filtered => Cardinality(Dropped(name)) = 0
      <3>1. name \notin DOMAIN filtered => Dropped(name) = {}
        BY <2>1 DEF CountsOK, Dropped
      <3> QED  BY <3>1, FS_EmptySet
    <2>8. count = Cardinality(Dropped(name)')
      BY <2>1, <2>4, <2>6, <2>7 DEF CountsOK
    <2>9. /\ DOMAIN filtered' = DOMAIN filtered \cup {name} /\ filtered'[name] = count
          /\ \A n \in DOMAIN filtered : n # name => filtered'[n] = filtered[n]
      BY <1>1 DEF Put
    <2> HIDE DEF name, count
    <2>10. \A n \in DOMAIN filtered' : filtered'[n] = Cardinality(Dropped(n)')
      BY <2>1, <2>4, <2>8, <2>9 DEF CountsOK
    <2>11. ASSUME NEW p \in DOMAIN layer' \ Kept', ~IsObject(layer[p])'
           PROVE  FilteredAs(p) \in DOMAIN filtered'
      <3>1. CASE p = e.path
        BY <2>9, <3>1 DEF name
      <3>2. CASE p # e.path
        BY <1>2, <1>3, <2>1, <2>3, <2>9, <2>11, <3>2 DEF CountsOK
      <3> QED  BY <3>1, <3>2
    <2> QED  BY <2>2, <2>10, <2>11 DEF CountsOK
  <1> QED  BY <1>2, <1>4, <1>5, <1>6

\* The target of a link that is copied is the link's own, and of a supported archive it has
\* been unpacked.
LEMMA CopyKeeps ==
    ASSUME FilterInv, NEW e \in NextEntries, Copy(e)
    PROVE  FilterInv'
  <1> USE DEF FilterInv
  <1> DEFINE target == RemapEtcPath(e.target)
  <1>1. /\ Read(e) /\ ~IsObject(e) /\ ~IsObjectLink(e) /\ ~IsFiltered(e.path)
        /\ UNCHANGED <<changed, targets, filtered>>
    BY DEF Copy
  <1>2. \/ e.type # "link" /\ tree' = Put(tree, Normalized(e.path), e.path) /\ status' = status
        \/ /\ e.type = "link" /\ target \in DOMAIN tree
           /\ tree' = Put(tree, Normalized(e.path), tree[target]) /\ status' = status
        \/ e.type = "link" /\ target \notin DOMAIN tree /\ tree' = tree
    BY DEF Copy
  <1>3. /\ LayerOK' /\ DOMAIN layer' = DOMAIN layer \cup {e.path} /\ layer'[e.path] = e
        /\ \A p \in DOMAIN layer : p # e.path /\ layer'[p] = layer[p]
    BY <1>1, ReadEntry
  <1>4. \A p : IsObject(layer[p])' <=> IsObject(layer'[p])
    BY <1>1 DEF Read, IsObject, PathInRepo
  <1>5. e.type = "link" /\ target \in DOMAIN tree => tree[target] = e.data
    <2> SUFFICES ASSUME e.type = "link", target \in DOMAIN tree PROVE tree[target] = e.data
      OBVIOUS
    <2>1. PICK p \in DOMAIN layer : target \in {p, Normalized(p)} /\ tree[target] = layer[p].data
      BY DEF NeverMisled
    <2>2. e.target \in DOMAIN layer /\ e.data = layer[e.target].data
      BY NextEntry DEF IsEntry
    <2>3. p \in Paths /\ e.target \in Paths
      BY <2>1, <2>2 DEF LayerOK, IsEntry
    <2> QED  BY <2>1, <2>2, <2>3, RemapOwner
  <1>6. e.type # "link" => e.path = e.data
    BY NextEntry DEF IsEntry
  <1>7. \/ tree' = Put(tree, Normalized(e.path), e.data) /\ status' = status
        \/ e.type = "link" /\ target \notin DOMAIN tree /\ tree' = tree
    BY <1>2, <1>5, <1>6
  <1>8. NeverMisled' /\ \A l \in DOMAIN tree : l \in DOMAIN tree' /\ tree'[l] = tree[l]
    BY <1>1, <1>7, Placed, NotPlaced
  <1>9. ObjectsOK'
    BY <1>1, <1>3, <1>4, <1>8 DEF ObjectsOK
  <1>10. ASSUME Supported' PROVE KeptOK' /\ CountsOK'
    <2>1. Supported
      BY <1>1, <1>10, ReadSupported
    <2>2. e.type = "link" => target \in DOMAIN tree
      <3> SUFFICES ASSUME e.type = "link" PROVE target \in DOMAIN tree
        OBVIOUS
      <3>1. Handled(e)' /\ UNCHANGED <<style, config>>
        BY <1>1, <1>10, ReadSupported DEF Read
      <3>2. ~ToObject(e)'
        BY <1>1, <3>1 DEF Handled, ToObject, IsObjectLink, PathInRepo, TargetInRepo
      <3>3. e.path \in Kept'
        BY <1>1, ReadKept
      <3>4. e.target \in Kept' /\ Normalized(e.target)'.top \in {e.target.top, "usr/etc"}
        BY <3>1, <3>2, <3>3 DEF Handled
      <3>5. e.target \in DOMAIN layer /\ e.target \in Paths /\ e.target \in Kept
        BY <1>1, <3>4, NextEntry, ReadEntry, ReadKept DEF IsEntry, LayerOK
      <3>6. Normalized(e.target) = target
        <4>1. Normalized(e.target).top \in {e.target.top, "usr/etc"}
          BY <3>1, <3>4, SameRules
        <4> QED  BY <3>5, <4>1, PathsAssumption DEF Normalized, RemapEtcPath, Tops
      <3> QED  BY <2>1, <3>5, <3>6 DEF KeptOK
    <2> QED  BY <1>1, <1>7, <2>1, <2>2, KeptPlaced, NotDropped
  <1> QED  BY <1>3, <1>8, <1>9, <1>10

LEMMA EndKeeps ==
    ASSUME FilterInv, UNCHANGED <<style, config, layer, changed, targets, tree, filtered>>,
           status' = status \/ status' \in {"refused", "done"}
    PROVE  FilterInv'
  <1>1. LayerOK' /\ ObjectsOK' /\ NeverMisled'
    BY DEF FilterInv, LayerOK, IsEntry, ObjectsOK, NeverMisled, IsObject, PathInRepo, Normalized
  <1>2. Kept' = Kept /\ \A name : Dropped(name)' = Dropped(name)
    BY DEF Kept, Dropped, IsFiltered, IsObject, PathInRepo
  <1>3. Supported' => Supported
    BY <1>2 DEF Supported, Handled, ToObject, Normalized
  <1>4. KeptOK => KeptOK'
    BY <1>2 DEF KeptOK, Normalized
  <1>5. CountsOK => CountsOK'
    BY <1>2 DEF CountsOK, IsObject, PathInRepo
  <1> QED  BY <1>1, <1>3, <1>4, <1>5 DEF FilterInv

LEMMA FilterStep == FilterInv /\ [Next]_vars => FilterInv'
  <1> SUFFICES ASSUME FilterInv, [Next]_vars PROVE FilterInv'
    OBVIOUS
  <1>1. CASE Refuse \/ Finish \/ UNCHANGED vars
    BY <1>1, EndKeeps DEF Refuse, Finish, vars
  <1>2. ASSUME NEW e \in NextEntries,
               \/ CacheObject(e) \/ MakeCanonical(e) \/ Relink(e) \/ UnhandledLink(e)
               \/ Filter(e) \/ Copy(e)
        PROVE  FilterInv'
    BY <1>2, CacheKeeps, CanonicalKeeps, RelinkKeeps, UnhandledKeeps, FilterKeeps, CopyKeeps
  <1> QED  BY <1>1, <1>2 DEF Next

-----------------------------------------------------------------------------
\* filter_tar never leads a link to other data: whatever archive comes, with links to objects
\* that are filtered, moved or not there, a path of the output has the content that the layer
\* has at that path or at the one it was moved from.
THEOREM LinksAreRight == Spec => []NeverMisled
  <1>1. FilterInv => NeverMisled
    BY DEF FilterInv
  <1> QED  BY <1>1, FilterInit, FilterStep, PTL DEF Spec

\* Of an archive that filter_tar supports, the output has exactly the paths that are kept, at
\* the places they are moved to, with the content of the layer, the child that unpacks it
\* does not fail, and the counts for image_filtered_content_warning are exact.
THEOREM FilterIsExact == Spec => []FilteredExact
  <1>1. FilterInv => FilteredExact
    <2> SUFFICES ASSUME FilterInv, Supported
                 PROVE  KeptOK /\ \A p \in DOMAIN layer \ Kept : ~IsObject(layer[p]) =>
                            filtered[FilteredAs(p)] = Cardinality(Dropped(FilteredAs(p)))
      BY DEF FilteredExact, KeptOK
    <2> QED  BY DEF FilterInv, CountsOK
  <1> QED  BY <1>1, FilterInit, FilterStep, PTL DEF Spec
=============================================================================
