----------------------------- MODULE ImageRepair -----------------------------
(***************************************************************************)
(* Finding and flushing images damaged by truncated inode numbers          *)
(* (repair.rs, and compare_commit_trees and verify_container_image in      *)
(* store.rs).  An old libostree remembered checked out files by inode      *)
(* number cut to 32 bits: when the merge commit of an image was written, a *)
(* file could be taken for another object whose number agrees in these.    *)
(* The command holds the sysroot lock, but pulling and removing do not     *)
(* take it: images come and go between its steps.                          *)
(*                                                                         *)
(* An inode number is a pair of its upper and lower 32 bits.  A tree is a  *)
(* function from the paths of its files, as sequences, to objects; all of  *)
(* the objects are in the repository throughout.  Stored images have a     *)
(* serial number, to tell one from another of the same content.            *)
(***************************************************************************)
EXTENDS Integers, FiniteSets, SequencesExt, TLC

CONSTANTS Objects,    \* content objects of the repository
          InodeMaps,  \* ways to number them: pairs of the upper and lower half
          Images,     \* references of images
          Base,       \* the tree of the base commit of the images
          Derived,    \* trees that a derived layer may have; the empty one: no layer
          MaxChanges  \* bound on what other processes do

ASSUME InodesAssumption ==
    \A m \in InodeMaps :
        /\ m \in [Objects -> Nat \X Nat]
        /\ \A x, y \in Objects : m[x] = m[y] => x = y
\* Files have names, and no file is also a directory.
ASSUME TreesAssumption ==
    \A t \in Derived \cup {Base} : \A p \in DOMAIN t :
        /\ t[p] \in Objects
        /\ p \in Seq(STRING) \ {<<>>}
        /\ \A q \in DOMAIN t : IsPrefix(p, q) => p = q
ASSUME MaxChangesAssumption == MaxChanges \in Nat

VARIABLES inode,      \* the inode number of each object
          image,      \* a function from the stored images
          booted,     \* the merge commit that is booted, a set of at most one
          staged,     \* and the one that is staged
          pc,
          todo,       \* images still to verify, or to flush
          flagged,    \* likely_corrupted_container_image_merges
          serious,    \* booted_is_likely_corrupted, staged_is_likely_corrupted
          changes,    \* what other processes did so far
          examined,   \* history: the images as the analysis saw them
          flushed     \* history: the images that the repair removed, with their references

vars == <<inode, image, booted, staged, pc, todo, flagged, serious, changes, examined, flushed>>

Overlay(layer, tree) ==
    [p \in DOMAIN layer \cup DOMAIN tree |-> IF p \in DOMAIN layer THEN layer[p] ELSE tree[p]]
Intended(i) == Overlay(i.derived, Base)

(***************************************************************************)
(* The images that the old libostree may write: of a file, an object that  *)
(* it cannot tell from the right one.                                      *)
(***************************************************************************)
Confused(o) == {x \in Objects : inode[x][2] = inode[o][2]}
Written(derived) ==
    LET right == Overlay(derived, Base)
    IN  {[derived |-> derived, merge |-> m] :
            m \in {m \in [DOMAIN right -> Objects] :
                      \/ m = right
                      \/ \E p \in DOMAIN right :
                            /\ \A q \in DOMAIN right \ {p} : m[q] = right[q]
                            /\ m[p] \in Confused(right[p])}}
AnyImage == UNION {Written(d) : d \in Derived}

Stored(nr, new) == [nr |-> nr, derived |-> new.derived, merge |-> new.merge]

-----------------------------------------------------------------------------
(***************************************************************************)
(* check_inode_collision finds the numbers above 32 bits that, cut short,  *)
(* are the number of another object.                                       *)
(***************************************************************************)
Big(o) == inode[o][1] > 0
Collisions == {o \in Objects : Big(o) /\ \E x \in Objects : ~Big(x) /\ inode[x] = <<0, inode[o][2]>>}

(***************************************************************************)
(* compare_commit_trees goes down into the directories that both trees     *)
(* have and that differ.  Target and expected change places at each level: *)
(* it is the target whose children are looked up where the depth is odd.   *)
(* Only the exact comparison compares files; the other one is given        *)
(* nothing but their types.                                                *)
(***************************************************************************)
Dirs(t) == UNION {{SubSeq(p, 1, k) : k \in 0..(Len(p) - 1)} : p \in DOMAIN t}
Under(t, d) == [p \in {p \in DOMAIN t : IsPrefix(d, p)} |-> t[p]]
Children(t, d) == {SubSeq(p, 1, Len(d) + 1) : p \in {p \in DOMAIN t : IsPrefix(d, p)}}

\* Mutation of Mismatch.
MismatchByInode(target, expected, p) ==
    target[p] # expected[p] /\ {target[p], expected[p]} \subseteq Collisions

Mismatch(target, expected, p) == target[p] # expected[p]
CompareDir(target, expected, exact, d) ==
    LET outer == IF Len(d) % 2 = 0 THEN expected ELSE target
        inner == IF Len(d) % 2 = 0 THEN target ELSE expected
    IN  {c \in Children(outer, d) :
            \/ c \notin Dirs(inner) \cup DOMAIN inner
            \/ exact /\ c \in DOMAIN outer /\ Mismatch(target, expected, c)}
CompareCommitTrees(target, expected, exact) ==
    LET both == {d \in Dirs(target) \cap Dirs(expected) : Under(target, d) # Under(expected, d)}
    IN  UNION {CompareDir(target, expected, exact, d) : d \in both \cup {<<>>}}

VerifyContainerImage(i) ==
    /\ CompareCommitTrees(i.merge, Base, TRUE) = {}
    /\ DOMAIN i.derived # {} => CompareCommitTrees(i.merge, i.derived, FALSE) = {}

-----------------------------------------------------------------------------
(***************************************************************************)
(* Some inode numbers, images, and deployments of them.                    *)
(***************************************************************************)
NoImages == [i \in {} |-> {}]
Init ==
    /\ inode \in InodeMaps
    /\ image \in UNION {[S -> {Stored(0, new) : new \in AnyImage}] : S \in SUBSET Images}
    /\ booted = {} /\ staged = {}
    /\ pc = "idle"
    /\ todo = {} /\ flagged = {} /\ serious = {} /\ changes = 0
    /\ examined = NoImages /\ flushed = {}

Analysis == <<pc, todo, flagged, serious, examined, flushed>>

PullOther(i, new) ==
    /\ changes < MaxChanges /\ changes' = changes + 1
    /\ image' = [j \in DOMAIN image \cup {i} |-> IF j = i THEN Stored(changes', new) ELSE image[j]]
    /\ UNCHANGED <<inode, booted, staged, Analysis>>
RemoveOther(i) ==
    /\ i \in DOMAIN image /\ changes < MaxChanges /\ changes' = changes + 1
    /\ image' = [j \in DOMAIN image \ {i} |-> image[j]]
    /\ UNCHANGED <<inode, booted, staged, Analysis>>
\* Deployments are not written while the lock is held.
DeployImage(i, where) ==
    /\ pc = "idle" /\ i \in DOMAIN image
    /\ \/ where = "booted" /\ booted = {} /\ booted' = {image[i].merge} /\ staged' = staged
       \/ where = "staged" /\ staged = {} /\ staged' = {image[i].merge} /\ booted' = booted
    /\ UNCHANGED <<inode, image, changes, Analysis>>

(***************************************************************************)
(* analyze_for_repair: no collision, no analysis.                          *)
(***************************************************************************)
Analyze ==
    /\ pc = "idle"
    /\ pc' = IF Collisions = {} THEN "clean" ELSE "verify"
    /\ todo' = IF Collisions = {} THEN {} ELSE DOMAIN image
    /\ UNCHANGED <<inode, image, booted, staged, flagged, serious, changes, examined, flushed>>

Verify(i) ==
    /\ pc = "verify" /\ i \in todo /\ todo' = todo \ {i}
    /\ IF i \in DOMAIN image
       THEN /\ examined' = [j \in DOMAIN examined \cup {i} |-> IF j = i THEN image[i] ELSE examined[j]]
            /\ LET bad == ~VerifyContainerImage(image[i])
               IN  /\ flagged' = IF bad THEN flagged \cup {i} ELSE flagged
                   /\ serious' = CASE bad /\ booted = {image[i].merge} -> serious \cup {"booted"}
                                   [] bad /\ booted # {image[i].merge} /\ staged = {image[i].merge} ->
                                         serious \cup {"staged"}
                                   [] OTHER -> serious
       ELSE UNCHANGED <<examined, flagged, serious>>   \* removed from underneath us
    /\ UNCHANGED <<inode, image, booted, staged, pc, changes, flushed>>

(***************************************************************************)
(* An image that cannot be queried, or the ref of whose derived layer is   *)
(* gone ("Missing layer": it was removed and collected after the query),   *)
(* ends the whole analysis.                                                *)
(***************************************************************************)
VerifyFails(i) ==
    /\ pc = "verify" /\ i \in todo /\ i \in DOMAIN image
    /\ pc' = "error"
    /\ UNCHANGED <<inode, image, booted, staged, todo, flagged, serious, changes, examined, flushed>>

EndAnalysis(dryRun) ==
    /\ pc = "verify" /\ todo = {}
    /\ pc' = CASE ~dryRun -> "flush" [] dryRun /\ flagged = {} -> "ok" [] OTHER -> "found"
    /\ todo' = IF dryRun THEN {} ELSE flagged
    /\ UNCHANGED <<inode, image, booted, staged, flagged, serious, changes, examined, flushed>>

(***************************************************************************)
(* repair: what has the name of a flagged image is removed.  One that is   *)
(* not there any more is an error and the rest of them stays; what is      *)
(* booted or staged is an error at the end.                                *)
(***************************************************************************)
Flush(i) ==
    /\ pc = "flush" /\ i \in todo /\ todo' = todo \ {i}
    /\ pc' = IF i \in DOMAIN image THEN "flush" ELSE "missing"
    /\ image' = [j \in DOMAIN image \ {i} |-> image[j]]
    /\ flushed' = IF i \in DOMAIN image THEN flushed \cup {<<i, image[i]>>} ELSE flushed
    /\ UNCHANGED <<inode, booted, staged, flagged, serious, changes, examined>>
EndRepair ==
    /\ pc = "flush" /\ todo = {}
    /\ pc' = IF serious = {} THEN "repaired" ELSE "serious"
    /\ UNCHANGED <<inode, image, booted, staged, todo, flagged, serious, changes, examined, flushed>>

Next ==
    \/ \E i \in Images : RemoveOther(i) \/ \E new \in AnyImage : PullOther(i, new)
    \/ \E i \in Images : Verify(i) \/ VerifyFails(i) \/ Flush(i)
    \/ \E i \in Images, where \in {"booted", "staged"} : DeployImage(i, where)
    \/ Analyze \/ EndRepair \/ \E dryRun \in BOOLEAN : EndAnalysis(dryRun)
Spec == Init /\ [][Next]_vars

-----------------------------------------------------------------------------
(***************************************************************************)
(* After a repair no image that was there throughout is damaged: the files *)
(* of its base are those of the base, and where the analysis ended early,  *)
(* every wrong file was confused among numbers above 32 bits (which the    *)
(* analysis does not look for).  What the repair removes is the image that *)
(* was examined, and then that one was damaged unless it has derived       *)
(* layers, or an image that another process has pulled under the same name *)
(* since: the repair goes by the name alone and removes that one, damaged  *)
(* or not.  An analysis that ends with an error removes nothing.  (An      *)
(* image with derived layers is flushed as soon as a layer and the image   *)
(* share a directory of the root but not all of its children.)             *)
(***************************************************************************)
Unchanged(i) == i \in DOMAIN examined /\ i \in DOMAIN image /\ image[i] = examined[i]
Damaged(i) == \E p \in DOMAIN Base \ DOMAIN i.derived : i.merge[p] # Base[p]
RepairExact ==
    /\ pc \in {"repaired", "serious", "ok"} => \A i \in Images : Unchanged(i) => ~Damaged(image[i])
    /\ pc = "clean" =>
          \A i \in DOMAIN image : \A p \in DOMAIN image[i].merge :
              image[i].merge[p] # Intended(image[i])[p] =>
                  Big(image[i].merge[p]) /\ Big(Intended(image[i])[p])
    /\ \A f \in flushed :
          LET seen == examined[f[1]]
          IN  /\ f[2] = seen \/ f[2].nr > seen.nr
              /\ DOMAIN seen.derived = {} => Damaged(seen)
    /\ pc \in {"clean", "ok", "found", "error"} => flushed = {}
=============================================================================
