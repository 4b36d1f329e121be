-------------------------- MODULE ImageRepairProofs --------------------------
(***************************************************************************)
(* What the analysis finds and the repair flushes, for every numbering of  *)
(* the objects, base tree, derived trees and set of images.                *)
(***************************************************************************)
EXTENDS ImageRepair, TLAPS

(***************************************************************************)
(* The directories of a tree are the proper prefixes of its files.         *)
(***************************************************************************)
LEMMA DirsAre ==
    ASSUME NEW t, NEW x
    PROVE  x \in Dirs(t) <=> \E p \in DOMAIN t : \E k \in 0..(Len(p) - 1) : x = SubSeq(p, 1, k)
<1> DEFINE Above(p) == {SubSeq(p, 1, k) : k \in 0..(Len(p) - 1)}
<1>1. \A p : x \in Above(p) <=> \E k \in 0..(Len(p) - 1) : x = SubSeq(p, 1, k)
  OBVIOUS
<1>2. Dirs(t) = UNION {Above(p) : p \in DOMAIN t}
  BY DEF Dirs
<1> HIDE DEF Above
<1>3. QED
  BY <1>1, <1>2

(***************************************************************************)
(* The directory of a file.                                                *)
(***************************************************************************)
LEMMA Parent ==
    ASSUME NEW p \in Seq(STRING) \ {<<>>}, NEW d, d = SubSeq(p, 1, Len(p) - 1)
    PROVE  /\ Len(p) \in Nat \ {0} /\ Len(d) = Len(p) - 1
           /\ IsPrefix(d, p) /\ SubSeq(p, 1, Len(d) + 1) = p
<1>1. Len(p) \in Nat \ {0}
  OBVIOUS
<1>2. Len(d) = Len(p) - 1
  <2>1. CASE Len(p) = 1
    BY <1>1, <2>1
  <2>2. CASE Len(p) # 1
    <3>1. \A k \in 1..Len(p) : Len(SubSeq(p, 1, k)) = k
      OBVIOUS
    <3>2. Len(p) - 1 \in 1..Len(p)
      <4>1. \A n \in Nat \ {0} : n # 1 => n - 1 \in 1..n
        OBVIOUS
      <4>2. QED
        BY <1>1, <2>2, <4>1, Zenon
    <3>3. Len(SubSeq(p, 1, Len(p) - 1)) = Len(p) - 1
      BY <3>1, <3>2, Zenon
    <3>4. QED
      BY <3>3, Zenon
  <2>3. QED
    BY <2>1, <2>2
<1>3. IsPrefix(d, p)
  BY <1>1, <1>2 DEF IsPrefix
<1>4. SubSeq(p, 1, Len(p)) = p
  OBVIOUS
<1>5. QED
  BY <1>1, <1>2, <1>3, <1>4

(***************************************************************************)
(* A file below a directory is in it, or in one of its directories.        *)
(***************************************************************************)
LEMMA Child ==
    ASSUME NEW p \in Seq(STRING) \ {<<>>}, NEW d \in Seq(STRING), IsPrefix(d, p), d # p
    PROVE  \/ SubSeq(p, 1, Len(d) + 1) = p
           \/ \E k \in 0..(Len(p) - 1) : SubSeq(p, 1, Len(d) + 1) = SubSeq(p, 1, k)
<1>1. Len(d) \in Nat /\ Len(p) \in Nat /\ Len(d) <= Len(p)
  BY DEF IsPrefix
<1>2. Len(d) = Len(p) => d = p
  BY DEF IsPrefix
<1>3. CASE Len(d) + 1 = Len(p)
  BY <1>1, <1>3
<1>4. CASE Len(d) + 1 < Len(p)
  <2>1. Len(d) + 1 \in 0..(Len(p) - 1)
    BY <1>1, <1>4
  <2>2. QED
    BY <2>1
<1>5. QED
  BY <1>1, <1>2, <1>3, <1>4

(***************************************************************************)
(* A damaged image does not pass the comparison with its base, though      *)
(* compare_commit_trees swaps the trees at each level.                     *)
(***************************************************************************)
LEMMA DamageFound ==
    ASSUME NEW t, NEW p \in DOMAIN Base, p \in DOMAIN t, t[p] # Base[p]
    PROVE  CompareCommitTrees(t, Base, TRUE) # {}
<1> DEFINE d == SubSeq(p, 1, Len(p) - 1)
<1>1. p \in Seq(STRING) \ {<<>>}
  BY TreesAssumption
<1>2. Len(p) \in Nat \ {0} /\ Len(d) = Len(p) - 1 /\ IsPrefix(d, p) /\ SubSeq(p, 1, Len(d) + 1) = p
  BY <1>1, Parent
<1>3. d \in Dirs(t) /\ d \in Dirs(Base)
  <2>1. Len(p) - 1 \in 0..(Len(p) - 1)
    BY <1>2
  <2>2. QED
    BY <2>1, DirsAre
<1> HIDE DEF d
<1>4. Under(t, d) # Under(Base, d)
  <2>1. Under(t, d)[p] = t[p] /\ Under(Base, d)[p] = Base[p]
    BY <1>2 DEF Under
  <2>2. QED
    BY <2>1
<1>5. p \in Children(t, d) /\ p \in Children(Base, d)
  BY <1>2 DEF Children
<1>6. p \in CompareDir(t, Base, TRUE, d)
  BY <1>5 DEF CompareDir, Mismatch
<1>7. QED
  BY <1>3, <1>4, <1>6 DEF CompareCommitTrees

(***************************************************************************)
(* What differs from the base in no file, and has no others, passes it.    *)
(***************************************************************************)
LEMMA NoFalseAlarm ==
    ASSUME NEW t, DOMAIN t = DOMAIN Base, \A p \in DOMAIN Base : t[p] = Base[p]
    PROVE  CompareCommitTrees(t, Base, TRUE) = {}
<1> SUFFICES ASSUME NEW d \in (Dirs(t) \cap Dirs(Base)) \cup {<<>>}, NEW c \in CompareDir(t, Base, TRUE, d)
             PROVE  FALSE
  BY DEF CompareCommitTrees
<1>1. Dirs(t) = Dirs(Base) /\ Children(t, d) = Children(Base, d)
  BY DEF Dirs, Children
<1>2. c \in Children(Base, d)
  BY <1>1 DEF CompareDir
<1>3. c \notin Dirs(Base) \cup DOMAIN Base
  BY <1>1 DEF CompareDir, Mismatch
<1>4. PICK p \in DOMAIN Base : IsPrefix(d, p) /\ c = SubSeq(p, 1, Len(d) + 1)
  BY <1>2 DEF Children
<1>5. p \in Seq(STRING) \ {<<>>} /\ \A q \in DOMAIN Base : IsPrefix(p, q) => p = q
  BY TreesAssumption
<1>6. d \in Seq(STRING) /\ d # p
  <2>1. CASE d = <<>>
    BY <1>5, <2>1
  <2>2. CASE d # <<>>
    <3>1. PICK q \in DOMAIN Base : \E k \in 0..(Len(q) - 1) : d = SubSeq(q, 1, k)
      BY <1>1, <2>2 DEF Dirs
    <3>2. PICK k \in 0..(Len(q) - 1) : d = SubSeq(q, 1, k)
      BY <3>1
    <3>3. q \in Seq(STRING) /\ Len(q) \in Nat
      BY TreesAssumption
    <3>4. d \in Seq(STRING) /\ Len(d) = k /\ IsPrefix(d, q) /\ d # q
      BY <3>2, <3>3 DEF IsPrefix
    <3>5. QED
      BY <1>5, <3>4
  <2>3. QED
    BY <2>1, <2>2
<1>7. QED
  BY <1>3, <1>4, <1>5, <1>6, Child, DirsAre

-----------------------------------------------------------------------------
(***************************************************************************)
(* An image that the old libostree may have written.                       *)
(***************************************************************************)
Made(x) ==
    /\ x.derived \in Derived
    /\ DOMAIN x.merge = DOMAIN Intended(x)
    /\ \A p \in DOMAIN x.merge :
          /\ x.merge[p] \in Objects
          /\ x.merge[p] = Intended(x)[p] \/ inode[x.merge[p]][2] = inode[Intended(x)[p]][2]
    /\ x.nr \in 0..changes

ImagesMade ==
    /\ inode \in InodeMaps /\ changes \in Nat
    /\ \A i \in DOMAIN image : Made(image[i])
    /\ \A i \in DOMAIN examined : Made(examined[i])

(***************************************************************************)
(* What is flagged is what does not verify, and a flagged image that the   *)
(* repair has passed is gone, or another one has taken its place.          *)
(***************************************************************************)
Gone(i) == i \in DOMAIN image => image[i].nr > examined[i].nr
AnalysisExact ==
    /\ flagged \subseteq DOMAIN examined
    /\ \A i \in DOMAIN examined : i \in flagged <=> ~VerifyContainerImage(examined[i])
    /\ pc = "idle" => DOMAIN examined = {}
    /\ pc = "clean" => Collisions = {}
    /\ pc = "verify" => todo \cap DOMAIN examined = {}
    /\ pc = "ok" => flagged = {}
    /\ pc = "flush" => todo \subseteq flagged /\ \A i \in flagged \ todo : Gone(i)
    /\ pc \in {"repaired", "serious"} => \A i \in flagged : Gone(i)

(***************************************************************************)
(* A stored image is the one that was examined under its name or a later   *)
(* one, and so is what was flushed.                                        *)
(***************************************************************************)
SeenOrLater(i, x) == x = examined[i] \/ x.nr > examined[i].nr
FlushExact ==
    /\ \A i \in DOMAIN image \cap DOMAIN examined : SeenOrLater(i, image[i])
    /\ \A f \in flushed : f[1] \in flagged /\ SeenOrLater(f[1], f[2])
    /\ pc \notin {"flush", "missing", "repaired", "serious"} => flushed = {}

RepairInv == ImagesMade /\ AnalysisExact /\ FlushExact

(***************************************************************************)
(* Every image that is stored was written by the old libostree.            *)
(***************************************************************************)
LEMMA StoredIsMade ==
    ASSUME changes \in Nat, NEW n \in 0..changes, NEW new \in AnyImage
    PROVE  Made(Stored(n, new))
<1>1. PICK d \in Derived : new \in Written(d)
  BY DEF AnyImage
<1> DEFINE right == Overlay(d, Base)
<1>2. PICK m \in [DOMAIN right -> Objects] :
         /\ new = [derived |-> d, merge |-> m]
         /\ \/ m = right
            \/ \E p \in DOMAIN right :
                  /\ \A q \in DOMAIN right \ {p} : m[q] = right[q]
                  /\ m[p] \in Confused(right[p])
  BY <1>1 DEF Written
<1>3. Stored(n, new) = [nr |-> n, derived |-> d, merge |-> m]
  BY <1>2 DEF Stored
<1>4. \A p \in DOMAIN right : m[p] = right[p] \/ inode[m[p]][2] = inode[right[p]][2]
  BY <1>2 DEF Confused
<1>5. Intended([nr |-> n, derived |-> d, merge |-> m]) = right
  BY DEF Intended
<1>6. QED
  BY <1>2, <1>3, <1>4, <1>5 DEF Made

(***************************************************************************)
(* More changes by others leave the images as they were made.              *)
(***************************************************************************)
LEMMA StaysMade ==
    ASSUME changes \in Nat, changes' \in {changes, changes + 1}, inode' = inode, NEW x, Made(x)
    PROVE  /\ x.derived \in Derived
           /\ DOMAIN x.merge = DOMAIN Intended(x)
           /\ \A p \in DOMAIN x.merge :
                 /\ x.merge[p] \in Objects
                 /\ x.merge[p] = Intended(x)[p] \/ inode'[x.merge[p]][2] = inode'[Intended(x)[p]][2]
           /\ x.nr \in 0..changes'
BY DEF Made

(***************************************************************************)
(* The images that the command may find.                                   *)
(***************************************************************************)
LEMMA RepairInit == Init => RepairInv
<1> SUFFICES ASSUME Init PROVE RepairInv
  OBVIOUS
<1>1. /\ inode \in InodeMaps /\ changes = 0 /\ DOMAIN examined = {} /\ flagged = {} /\ pc = "idle"
      /\ flushed = {}
  BY DEF Init, NoImages
<1>2. PICK S \in SUBSET Images : image \in [S -> {Stored(0, new) : new \in AnyImage}]
  BY DEF Init
<1>3. ASSUME NEW i \in DOMAIN image PROVE Made(image[i])
  <2>1. PICK new \in AnyImage : image[i] = Stored(0, new)
    BY <1>2, <1>3
  <2>2. QED
    BY <1>1, <2>1, StoredIsMade
<1>4. QED
  BY <1>1, <1>3 DEF RepairInv, ImagesMade, AnalysisExact, FlushExact

(***************************************************************************)
(* Other processes add and remove images while the analysis runs.          *)
(***************************************************************************)
LEMMA OthersKeep ==
    ASSUME RepairInv, NEW i \in Images,
           RemoveOther(i) \/ (\E new \in AnyImage : PullOther(i, new))
    PROVE  RepairInv'
<1> USE DEF RepairInv, ImagesMade
<1>a. changes' = changes + 1 /\ changes' \in Nat /\ inode' = inode /\ UNCHANGED Analysis
  BY DEF RemoveOther, PullOther
<1>b. UNCHANGED <<pc, todo, flagged, serious, examined, flushed>>
  BY <1>a DEF Analysis
<1>1. \A j \in DOMAIN examined : Made(examined[j])'
  BY <1>a, <1>b, StaysMade DEF Made
<1>2. \A j \in DOMAIN image' : image'[j].nr = changes' \/ (j \in DOMAIN image /\ image'[j] = image[j])
  BY DEF RemoveOther, PullOther, Stored
<1>3. ASSUME NEW j \in DOMAIN image' PROVE Made(image[j])'
  <2>1. CASE j \in DOMAIN image /\ image'[j] = image[j]
    BY <1>a, <2>1, StaysMade DEF Made
  <2>2. CASE ~(j \in DOMAIN image /\ image'[j] = image[j])
    <3>1. PICK new \in AnyImage : image'[j] = Stored(changes', new)
      BY <1>3, <2>2 DEF RemoveOther, PullOther
    <3>2. Made(Stored(0, new))
      BY StoredIsMade
    <3>3. /\ image'[j].nr \in 0..changes'
          /\ image'[j].derived = Stored(0, new).derived /\ image'[j].merge = Stored(0, new).merge
      BY <1>a, <3>1 DEF Stored
    <3>4. Intended(image'[j]) = Intended(Stored(0, new))
      BY <3>3 DEF Intended
    <3>5. QED
      BY <1>a, <3>2, <3>3, <3>4 DEF Made, Intended
  <2>3. QED
    BY <2>1, <2>2
<1>4. \A j \in flagged : Gone(j) => Gone(j)'
  <2> SUFFICES ASSUME NEW j \in flagged, Gone(j), j \in DOMAIN image' PROVE image'[j].nr > examined'[j].nr
    BY DEF Gone
  <2>1. examined'[j] = examined[j] /\ examined[j].nr \in 0..changes
    BY <1>b DEF AnalysisExact, Made
  <2>2. QED
    BY <1>a, <1>2, <2>1 DEF Gone
<1>5. AnalysisExact'
  <2>1. Collisions' = Collisions
    BY <1>a DEF Collisions, Big
  <2>2. QED
    BY <1>b, <1>4, <2>1 DEF AnalysisExact
<1>6. FlushExact'
  <2>1. ASSUME NEW j \in DOMAIN image' \cap DOMAIN examined PROVE SeenOrLater(j, image[j])'
    <3>1. examined[j].nr \in 0..changes /\ examined' = examined
      BY <1>b, <2>1 DEF Made
    <3>2. QED
      BY <1>a, <1>2, <2>1, <3>1 DEF FlushExact, SeenOrLater
  <2>2. QED
    BY <1>b, <2>1 DEF FlushExact, SeenOrLater
<1>7. QED
  BY <1>1, <1>3, <1>5, <1>6, <1>a, <1>b

(***************************************************************************)
(* The analysis flags exactly the images that do not verify.               *)
(***************************************************************************)
LEMMA VerifyKeeps ==
    ASSUME RepairInv, NEW i \in Images, Verify(i)
    PROVE  RepairInv'
<1> USE DEF RepairInv
<1>a. UNCHANGED <<inode, image, changes, pc, flushed>> /\ pc = "verify" /\ i \in todo /\ todo' = todo \ {i}
  BY DEF Verify
<1>c. flushed = {}
  BY <1>a DEF FlushExact
<1>b. i \notin DOMAIN examined /\ i \notin flagged
  BY <1>a DEF AnalysisExact
<1>1. CASE i \notin DOMAIN image
  <2>1. UNCHANGED <<examined, flagged>>
    BY <1>1 DEF Verify
  <2>2. ImagesMade'
    BY <1>a, <2>1 DEF ImagesMade, Made
  <2>3. AnalysisExact'
    BY <1>a, <2>1 DEF AnalysisExact
  <2>4. FlushExact'
    BY <1>a, <1>c, <2>1 DEF FlushExact, SeenOrLater
  <2>5. QED
    BY <2>2, <2>3, <2>4
<1>2. CASE i \in DOMAIN image
  <2>1. /\ DOMAIN examined' = DOMAIN examined \cup {i}
        /\ examined'[i] = image[i]
        /\ \A j \in DOMAIN examined : examined'[j] = examined[j]
        /\ flagged' = IF ~VerifyContainerImage(image[i]) THEN flagged \cup {i} ELSE flagged
    BY <1>2, <1>b DEF Verify
  <2>2. ImagesMade'
    BY <1>2, <1>a, <2>1 DEF ImagesMade, Made
  <2>3. AnalysisExact'
    BY <1>a, <1>b, <2>1 DEF AnalysisExact
  <2>4. FlushExact'
    BY <1>a, <1>c, <2>1 DEF FlushExact, SeenOrLater
  <2>5. QED
    BY <2>2, <2>3, <2>4
<1>3. QED
  BY <1>1, <1>2

(***************************************************************************)
(* A flagged image is flushed, or is not there.                            *)
(***************************************************************************)
LEMMA FlushKeeps ==
    ASSUME RepairInv, NEW i \in Images, Flush(i)
    PROVE  RepairInv'
<1> USE DEF RepairInv
<1>a. /\ UNCHANGED <<inode, changes, examined, flagged>> /\ pc = "flush" /\ todo' = todo \ {i}
      /\ pc' \in {"flush", "missing"}
      /\ DOMAIN image' = DOMAIN image \ {i} /\ \A j \in DOMAIN image \ {i} : image'[j] = image[j]
  BY DEF Flush
<1>1. ImagesMade'
  BY <1>a DEF ImagesMade, Made
<1>2. \A j \in flagged \ todo' : Gone(j)'
  BY <1>a DEF AnalysisExact, Gone
<1>3. AnalysisExact'
  BY <1>a, <1>2 DEF AnalysisExact
<1>4. FlushExact'
  <2>1. i \in flagged /\ i \in DOMAIN examined
    BY <1>a DEF Flush, AnalysisExact
  <2>2. \A f \in flushed' : f \in flushed \/ (i \in DOMAIN image /\ f = <<i, image[i]>>)
    BY DEF Flush
  <2>3. \A f \in flushed' : f[1] \in flagged' /\ SeenOrLater(f[1], f[2])'
    BY <1>a, <2>1, <2>2 DEF FlushExact, SeenOrLater
  <2>4. QED
    BY <1>a, <2>3 DEF FlushExact, SeenOrLater
<1>5. QED
  BY <1>1, <1>3, <1>4

(***************************************************************************)
(* Every step of the command and of the processes beside it.               *)
(***************************************************************************)
LEMMA RepairStep == RepairInv /\ [Next]_vars => RepairInv'
<1> SUFFICES ASSUME RepairInv, [Next]_vars PROVE RepairInv'
  OBVIOUS
<1>1. ASSUME UNCHANGED <<inode, image, changes, examined, flagged, flushed>>, AnalysisExact',
             pc' \in {"flush", "missing", "repaired", "serious"} \/ flushed = {}
      PROVE  RepairInv'
  BY <1>1 DEF RepairInv, ImagesMade, Made, FlushExact, SeenOrLater
<1>2. ASSUME UNCHANGED <<inode, image, changes, examined, flagged, flushed, pc, todo>> PROVE RepairInv'
  BY <1>1, <1>2 DEF RepairInv, AnalysisExact, FlushExact, Collisions, Big, Gone
<1>3. CASE Analyze
  BY <1>1, <1>3 DEF Analyze, RepairInv, AnalysisExact, FlushExact, Collisions, Big
<1>4. ASSUME NEW dryRun \in BOOLEAN, EndAnalysis(dryRun) PROVE RepairInv'
  BY <1>1, <1>4 DEF EndAnalysis, RepairInv, AnalysisExact, FlushExact
<1>5. CASE EndRepair
  BY <1>1, <1>5 DEF EndRepair, RepairInv, AnalysisExact, Gone
<1>6. ASSUME NEW i \in Images, NEW where \in {"booted", "staged"}, DeployImage(i, where) PROVE RepairInv'
  BY <1>2, <1>6 DEF DeployImage, Analysis
<1>7. CASE UNCHANGED vars
  BY <1>2, <1>7 DEF vars
<1>9. ASSUME NEW i \in Images, VerifyFails(i) PROVE RepairInv'
  BY <1>1, <1>9 DEF VerifyFails, RepairInv, AnalysisExact, FlushExact
<1>8. QED
  BY <1>3, <1>4, <1>5, <1>6, <1>7, <1>9, OthersKeep, VerifyKeeps, FlushKeeps DEF Next

(***************************************************************************)
(* After a repair no image that was there throughout is damaged; where the *)
(* analysis ends early only numbers above 32 bits are confused; and what   *)
(* is flushed was found damaged or has derived layers, or has been pulled  *)
(* under the name of such an image since.                                  *)
(***************************************************************************)
THEOREM RepairIsExact == Spec => []RepairExact
<1>1. RepairInv => RepairExact
  <2> SUFFICES ASSUME RepairInv PROVE RepairExact
    OBVIOUS
  <2> USE DEF RepairInv, ImagesMade
  <2>1. ASSUME NEW i \in DOMAIN examined, i \notin flagged PROVE ~Damaged(examined[i])
    <3>1. CompareCommitTrees(examined[i].merge, Base, TRUE) = {}
      BY <2>1 DEF AnalysisExact, VerifyContainerImage
    <3>2. DOMAIN Base \subseteq DOMAIN examined[i].merge
      BY <2>1 DEF Made, Intended, Overlay
    <3>3. QED
      BY <3>1, <3>2, DamageFound DEF Damaged
  <2>2. ASSUME pc \in {"repaired", "serious", "ok"}, NEW i \in Images, Unchanged(i) PROVE ~Damaged(image[i])
    <3>1. i \in DOMAIN examined /\ i \in DOMAIN image /\ image[i] = examined[i] /\ examined[i].nr \in 0..changes
      BY <2>2 DEF Unchanged, Made
    <3>2. i \notin flagged
      BY <2>2, <3>1 DEF AnalysisExact, Gone
    <3>3. QED
      BY <2>1, <3>1, <3>2
  <2>3. ASSUME pc = "clean", NEW i \in DOMAIN image, NEW p \in DOMAIN image[i].merge,
               image[i].merge[p] # Intended(image[i])[p]
        PROVE  Big(image[i].merge[p]) /\ Big(Intended(image[i])[p])
    <3> DEFINE x == image[i].merge[p]
               y == Intended(image[i])[p]
    <3>1. x \in Objects /\ inode[x][2] = inode[y][2] /\ x # y /\ p \in DOMAIN Intended(image[i])
      BY <2>3 DEF Made
    <3>2. y \in Objects
      <4>1. image[i].derived \in Derived
        BY <2>3 DEF Made
      <4>2. QED
        BY <3>1, <4>1, TreesAssumption DEF Intended, Overlay
    <3> HIDE DEF x, y
    <3>3. inode[x] \in Nat \X Nat /\ inode[y] \in Nat \X Nat /\ inode[x] # inode[y]
      BY <3>1, <3>2, InodesAssumption
    <3>4. inode[x] = <<inode[x][1], inode[x][2]>> /\ inode[y] = <<inode[y][1], inode[y][2]>>
          /\ inode[x][1] \in Nat /\ inode[y][1] \in Nat
      BY <3>3
    <3>5. x \notin Collisions /\ y \notin Collisions
      BY <2>3 DEF AnalysisExact
    <3>6. inode[x][1] # inode[y][1]
      BY <3>1, <3>3, <3>4
    <3>7. Big(x)
      BY <3>1, <3>2, <3>4, <3>5, <3>6 DEF Collisions, Big
    <3>8. Big(y)
      BY <3>1, <3>2, <3>4, <3>5, <3>6 DEF Collisions, Big
    <3>9. QED
      BY <3>7, <3>8 DEF x, y
  <2>4. ASSUME NEW i \in flagged, DOMAIN examined[i].derived = {} PROVE Damaged(examined[i])
    <3> DEFINE e == examined[i]
    <3>1. i \in DOMAIN examined /\ CompareCommitTrees(e.merge, Base, TRUE) # {}
      BY <2>4 DEF AnalysisExact, VerifyContainerImage
    <3>2. DOMAIN e.merge = DOMAIN Base
      BY <2>4, <3>1 DEF Made, Intended, Overlay
    <3>3. PICK p \in DOMAIN Base : e.merge[p] # Base[p]
      BY <3>1, <3>2, NoFalseAlarm
    <3>4. QED
      BY <2>4, <3>3 DEF Damaged
  <2>5. ASSUME NEW f \in flushed
        PROVE  /\ f[2] = examined[f[1]] \/ f[2].nr > examined[f[1]].nr
               /\ DOMAIN examined[f[1]].derived = {} => Damaged(examined[f[1]])
    BY <2>4, <2>5 DEF FlushExact, SeenOrLater
  <2>6. pc \in {"clean", "ok", "found", "error"} => flushed = {}
    BY DEF FlushExact
  <2>7. QED
    BY <2>2, <2>3, <2>5, <2>6 DEF RepairExact
<1>2. QED
  BY <1>1, RepairInit, RepairStep, PTL DEF Spec
=============================================================================
