------------------------------- MODULE Packing -------------------------------
(***************************************************************************)
(* Splitting a commit into layers (chunking.rs, statistics.rs, and the     *)
(* parts of encapsulate.rs and cli.rs that feed it and read it back).  A   *)
(* build takes the components of a release and a number of bins, packs the *)
(* components into bins, moves their objects into one chunk per bin and    *)
(* publishes an image whose layers name their components.  The next build  *)
(* may keep the structure of that image.                                   *)
(*                                                                         *)
(* Medians, means and deviations are rationals or roots of rationals;      *)
(* comparisons with them are multiplied out and exact.  How f64 rounds     *)
(* where a size is equal to a limit is left out.                           *)
(***************************************************************************)
EXTENDS ManifestLayout

CONSTANTS Lines,      \* histories: sequences of releases, built in turn
          BinSizes,   \* the numbers of layers a build may be given
          MaxFreq     \* u32::MAX, the frequency of what changes in every build

(***************************************************************************)
(* A component has a name, which lasts, and a version; both together are   *)
(* its identifier.  The objects of a component are moved together and are  *)
(* represented by its identifier.  A release lists the components that     *)
(* have objects, in the order of their identifiers, and those that have    *)
(* none, and says whether the commit has objects that no component owns.   *)
(***************************************************************************)
Identifier(c) == <<c.name, c.version>>
Identifiers(s) == {Identifier(s[i]) : i \in DOMAIN s}
Names(s) == {s[i].name : i \in DOMAIN s}

Component == [name : Nat \ {0}, version : Nat, size : Nat, freq : 0..MaxFreq]
IsRelease(rel) ==
    /\ rel \in [components : Seq(Component), empty : Seq(Component), unowned : BOOLEAN]
    /\ LET all == rel.components \o rel.empty
       IN  \A i, j \in DOMAIN all : Identifier(all[i]) = Identifier(all[j]) => i = j

ASSUME MaxFreqAssumption == MaxFreq \in Nat \ {0}
ASSUME BinSizesAssumption == BinSizes \subseteq Nat \ {0}
ASSUME LinesAssumption ==
    \A l \in Lines :
        /\ Len(l) \in Nat \ {0} /\ DOMAIN l = 1..Len(l)
        /\ \A i \in DOMAIN l : IsRelease(l[i])

VARIABLES line,       \* the history that is built
          at,         \* which release of it, 0 before the first build
          phase,      \* where the build is, or how it ended
          how,        \* from a fresh packing, a prior image, or the command line
          bins,       \* bin_size
          components, \* components, in the order the packing takes them
          r,          \* the bins packed so far
          image,      \* the chunk layers of the image published last
          lineage     \* history: what the packing of that image started from

vars == <<line, at, phase, how, bins, components, r, image, lineage>>

Working == {"packing", "merging", "packed"}
Ended == {"idle", "refused", "panic", "published"}

MinChunkedLayers == 4
NoImage == [started |-> FALSE, bins |-> 0, distinct |-> TRUE]
EmptyName == 0
Unannotated == <<-1>>

Release == line[at]
Distinct(s) == \A i, j \in DOMAIN s : s[i].name = s[j].name => i = j

-----------------------------------------------------------------------------
(***************************************************************************)
(* Sequences and statistics.  Limits are compared at a common scale: twice *)
(* a median, four times a median absolute deviation, n times a mean, and   *)
(* n times a standard deviation as the root of Variance.                   *)
(***************************************************************************)
Field(s, f) == [i \in DOMAIN s |-> s[i][f]]
Singletons(s) == [i \in DOMAIN s |-> <<s[i]>>]
Abs(x) == IF x < 0 THEN -x ELSE x
Sum(s) == FoldLeft(LAMBDA a, x : a + x, 0, s)
Variance(s) == Len(s) * Sum([i \in DOMAIN s |-> s[i] * s[i]]) - Sum(s) * Sum(s)
Ascending(S) == Chosen([i \in S |-> i], S)
StableSort(s, keys) == Arranged(s, DOMAIN s, keys)

TwiceMedian(s) ==
    LET half == Len(s) \div 2
    IN  IF Len(s) % 2 = 1 THEN 2 * s[half + 1] ELSE s[half] + s[half + 1]

FourTimesDeviation(s) ==
    LET twice == [i \in DOMAIN s |-> Abs(2 * s[i] - TwiceMedian(s))]
    IN  TwiceMedian(StableSort(twice, twice))

(***************************************************************************)
(* The classes of a value, two deviations around the middle: against the   *)
(* median for sizes, against the mean for what is left of them.            *)
(***************************************************************************)
MedianClass(x, median, deviation) ==
    IF 2 * x >= median + deviation THEN "high"
    ELSE IF 4 * x <= Abs(median - deviation) THEN "low" ELSE "medium"

MeanClass(x, n, sum, variance) ==
    LET over == n * x - sum
        under == sum - 2 * n * x
        far(d) == d * d >= 4 * variance
    IN  IF over >= 0 /\ far(over) THEN "high"
        ELSE IF (under >= 0 /\ far(under)) \/ 4 * variance >= (2 * n * x + sum) * (2 * n * x + sum)
             THEN "low" ELSE "medium"

-----------------------------------------------------------------------------
(***************************************************************************)
(* compute_sizes leaves out what has no object and sorts by size, largest  *)
(* first.  The command line takes everything listed, as it is listed, all  *)
(* of one size.                                                            *)
(***************************************************************************)
ComputeSizes(rel) ==
    StableSort(rel.components, [i \in DOMAIN rel.components |-> -rel.components[i].size])
RawLayers(rel) ==
    LET all == rel.components \o rel.empty
    IN  [i \in DOMAIN all |->
            [all[i] EXCEPT !.size = 1, !.freq = IF @ = MaxFreq THEN MaxFreq ELSE 1]]

(***************************************************************************)
(* How many bins each class may use.                                       *)
(***************************************************************************)
Frequent == Chosen(components, {i \in DOMAIN components : components[i].freq = MaxFreq})
Regular == Chosen(components, {i \in DOMAIN components : components[i].freq # MaxFreq})
MaxFreqBins == IF Frequent = <<>> THEN 0 ELSE 1
LimitHs == (6 * (bins - (2 + MaxFreqBins))) \div 10
LimitMs == bins - (LimitHs + 2 + MaxFreqBins)

(***************************************************************************)
(* The partitions: high sizes as far as they have bins of their own, low   *)
(* sizes, and the rest in ascending order of frequency.  The rest is split *)
(* by frequency and then by size into buckets.                             *)
(***************************************************************************)
Partitions ==
    LET cs == Regular
        median == TwiceMedian(Field(cs, "size"))
        deviation == FourTimesDeviation(Field(cs, "size"))
        of(class) == Chosen(cs, {i \in DOMAIN cs : MedianClass(cs[i].size, median, deviation) = class})
        high == of("high")
        rest == SubSeq(high, LimitHs + 1, Len(high)) \o of("medium")
    IN  [high |-> SubSeq(high, 1, Min({LimitHs, Len(high)})),
         low |-> of("low"),
         rest |-> StableSort(rest, Field(rest, "freq"))]

Classes(s) ==
    LET sum == Sum(s)
        variance == Variance(s)
    IN  [i \in DOMAIN s |-> MeanClass(s[i], Len(s), sum, variance)]

BucketOrder ==   \* as the names of the buckets sort: 3hf_hs, 3hf_ls, 3hf_ms, 4mf_hs, ...
    <<<<"high", "high">>, <<"high", "low">>, <<"high", "medium">>,
      <<"medium", "high">>, <<"medium", "low">>, <<"medium", "medium">>,
      <<"low", "high">>, <<"low", "low">>, <<"low", "medium">>>>

Buckets(rest) ==
    LET freqs == Classes(Field(rest, "freq"))
        sizes == Classes(Field(rest, "size"))
    IN  [b \in DOMAIN BucketOrder |->
            Chosen(rest, {i \in DOMAIN rest : <<freqs[i], sizes[i]>> = BucketOrder[b]})]

(***************************************************************************)
(* A bucket is cut into bins of perBin components; with none per bin, an   *)
(* empty bin comes before bins of one.                                     *)
(***************************************************************************)
Cut(s, perBin) ==
    IF s = <<>> THEN <<>>
    ELSE IF perBin = 0 THEN <<<<>>>> \o Singletons(s)
    ELSE [k \in 1..((Len(s) + perBin - 1) \div perBin) |->
             SubSeq(s, (k - 1) * perBin + 1, Min({k * perBin, Len(s)}))]

BinsOf(p, perBin) ==
    LET buckets == Buckets(p.rest)
        of(b) == Cut(buckets[b], perBin)
    IN  Singletons(p.high) \o (IF p.low = <<>> THEN <<>> ELSE <<p.low>>)
            \o of(1) \o of(2) \o of(3) \o of(4) \o of(5) \o of(6) \o of(7) \o of(8) \o of(9)

\* Mutations of MaxBins and MergeStart.
MaxBinsAnyFreq == bins - 1
MergeStartNoLow == Max({1, LimitHs})
MergeStartLate == 2 + LimitHs

(***************************************************************************)
(* One pass of merging: every second pair of neighbours from the end, as   *)
(* long as there are too many bins.  i counts from zero.                   *)
(***************************************************************************)
MaxBins == bins - 1 - MaxFreqBins
MergeStart == 1 + LimitHs
MergeAt(s, i) == InsertAt(RemoveAt(RemoveAt(s, i + 1), i), i + 1, s[i] \o s[i + 1])
MergePass(s) ==
    LET count == IF Len(s) - 1 <= MergeStart THEN 0 ELSE (Len(s) - MergeStart) \div 2
        merged[k \in 0..count] ==
            IF k = 0 THEN s
            ELSE LET t == merged[k - 1]
                 IN  IF Len(t) <= MaxBins THEN t ELSE MergeAt(t, MergeStart + 2 * (count - k))
    IN  merged[count]

\* A mutation of NewPackagesBin.
FirstBin == 1

(***************************************************************************)
(* Packing by a prior image: what it named stays where it was, what is new *)
(* goes to the last bin.  A name stands for the first component that has   *)
(* it.                                                                     *)
(***************************************************************************)
PriorNames == (UNION {ToSet(image[i].packages) : i \in DOMAIN image}) \ {EmptyName}
Added == Ascending(Names(components) \ PriorNames)
NewPackagesBin == Len(image)
Named(name) == components[SelectInSeq(components, LAMBDA c : c.name = name)]
Kept(names) ==
    Chosen(names, {k \in DOMAIN names : names[k] # EmptyName /\ names[k] \in Names(components)})
PriorBins ==
    [i \in DOMAIN image |->
        LET kept == Kept(image[i].packages)
            names == IF i = NewPackagesBin THEN kept \o Added ELSE kept
        IN  [k \in DOMAIN names |-> Named(names[k])]]

(***************************************************************************)
(* What the code asserts of a finished packing.  The lengths of the bins   *)
(* add up to the number of places in them.                                 *)
(***************************************************************************)
Places(s) == UNION {{<<i, k>> : k \in DOMAIN s[i]} : i \in DOMAIN s}
PackingHolds(s) == Cardinality(Places(s)) = Len(components) /\ Len(s) <= bins

-----------------------------------------------------------------------------
Init ==
    /\ line \in Lines /\ at = 0 /\ phase = "idle" /\ how = "fresh" /\ bins = MinChunkedLayers
    /\ components = <<>> /\ r = <<>> /\ image = <<>> /\ lineage = NoImage

(***************************************************************************)
(* A build is given the next release.  The command line asks for one layer *)
(* more than there are components.                                         *)
(***************************************************************************)
StartWith(h, b, cs) ==
    /\ phase \in Ended /\ at < Len(line)
    /\ at' = at + 1 /\ how' = h /\ bins' = b /\ components' = cs /\ r' = <<>>
    /\ phase' = IF b < MinChunkedLayers THEN "refused" ELSE "packing"
    /\ UNCHANGED <<line, image, lineage>>

Fresh(b) == at < Len(line) /\ StartWith("fresh", b, ComputeSizes(line[at + 1]))
Again(b) ==
    at < Len(line) /\ lineage # NoImage /\ StartWith("prior", b, ComputeSizes(line[at + 1]))
CommandLine ==
    at < Len(line) /\ LET cs == RawLayers(line[at + 1]) IN StartWith("cli", Len(cs) + 1, cs)

Packed(s) ==
    /\ phase' = IF PackingHolds(s) THEN "packed" ELSE "panic"
    /\ r' = s
    /\ UNCHANGED <<line, at, how, bins, components, image, lineage>>

Stop(end) == phase' = end /\ UNCHANGED <<line, at, how, bins, components, r, image, lineage>>

(***************************************************************************)
(* compute_sizes fails if an object belongs to a content identifier that   *)
(* the content set does not list: the build ends before it packs anything. *)
(***************************************************************************)
Unmapped == phase = "packing" /\ how # "cli" /\ Stop("refused")

PackByPrior ==
    /\ phase = "packing" /\ how = "prior"
    /\ IF \E i \in DOMAIN image : image[i].packages = Unannotated THEN Stop("refused")
       ELSE IF image = <<>> THEN Stop("panic")
       ELSE Packed(PriorBins)

PackFew ==
    /\ phase = "packing" /\ how # "prior" /\ Len(components) < bins
    /\ phase' = "packed"
    /\ r' = Singletons(components) \o (IF components = <<>> THEN <<>> ELSE <<<<>>>>)
    /\ UNCHANGED <<line, at, how, bins, components, image, lineage>>

(***************************************************************************)
(* The count of components left for the medium bins is a difference of     *)
(* unsigned numbers.  Below zero a build with overflow checks panics; one  *)
(* without gets a number larger than any bucket.                           *)
(***************************************************************************)
Spare(p) == Len(Regular) - LimitHs - Len(p.low)
PerBin(p) == IF Spare(p) < 0 THEN Len(components) ELSE Spare(p) \div LimitMs
ToMerge(s) ==
    /\ phase' = "merging" /\ r' = s
    /\ UNCHANGED <<line, at, how, bins, components, image, lineage>>

PackRegular(p) ==
    \/ (p.rest = <<>> \/ Spare(p) < 0) /\ Stop("panic")
    \/ p.rest # <<>> /\ ToMerge(BinsOf(p, PerBin(p)))

PackMany ==
    /\ phase = "packing" /\ how # "prior" /\ Len(components) >= bins
    /\ IF Regular = <<>> THEN ToMerge(<<>>) ELSE PackRegular(Partitions)

MergeBins ==
    /\ phase = "merging" /\ Len(r) > MaxBins
    /\ r' = MergePass(r)
    /\ UNCHANGED <<line, at, phase, how, bins, components, image, lineage>>

FinishBins ==
    /\ phase = "merging" /\ Len(r) <= MaxBins
    /\ Packed(r \o (IF Frequent = <<>> THEN <<>> ELSE <<Frequent>>) \o <<<<>>>>)

\* Mutations of LeftOver and Annotation.
LeftOverCounted == Release.unowned \/ Cardinality(Places(r)) < Len(Release.components)
AnnotationPlain(bin) == StableSort(Field(bin, "name"), Field(bin, "name"))

(***************************************************************************)
(* Each bin becomes a chunk with the objects of its components, except for *)
(* those an earlier chunk took; a component without objects is a panic,    *)
(* and so is an object that is left over.  Then the layers are published,  *)
(* each with the sorted names of its components.                           *)
(***************************************************************************)
Content(i) == Identifiers(r[i]) \ UNION {Identifiers(r[j]) : j \in 1..(i - 1)}
AllOwned == \A i \in DOMAIN r : Identifiers(r[i]) \subseteq Identifiers(Release.components)
LeftOver ==
    \/ Release.unowned
    \/ ~ (Identifiers(Release.components) \subseteq UNION {Identifiers(r[i]) : i \in DOMAIN r})
Annotation(bin) ==
    IF bin = <<>> THEN <<EmptyName>> ELSE StableSort(Field(bin, "name"), Field(bin, "name"))

Publish ==
    /\ phase = "packed" /\ AllOwned /\ ~LeftOver
    /\ phase' = "published"
    /\ image' = [i \in DOMAIN r |-> [packages |-> Annotation(r[i]), content |-> Content(i)]]
    /\ lineage' = IF how = "prior"
                  THEN [lineage EXCEPT !.distinct = @ /\ Distinct(components)]
                  ELSE [started |-> components # <<>>, bins |-> bins, distinct |-> Distinct(components)]
    /\ UNCHANGED <<line, at, how, bins, components, r>>

AssignFails == phase = "packed" /\ (~AllOwned \/ LeftOver) /\ Stop("panic")

(***************************************************************************)
(* An image that is built on top has layers without annotation.            *)
(***************************************************************************)
Derive ==
    /\ phase = "published" /\ \A i \in DOMAIN image : image[i].packages # Unannotated
    /\ phase' = "idle"
    /\ image' = Append(image, [packages |-> Unannotated, content |-> {}])
    /\ UNCHANGED <<line, at, how, bins, components, r, lineage>>

(***************************************************************************)
(* The history has been built.                                             *)
(***************************************************************************)
Done == at = Len(line) /\ phase \in Ended /\ UNCHANGED vars

Pack ==
    \/ Unmapped \/ PackByPrior \/ PackFew \/ PackMany \/ MergeBins \/ FinishBins
    \/ Publish \/ AssignFails
Next ==
    \/ \E b \in BinSizes : Fresh(b) \/ Again(b)
    \/ CommandLine \/ Derive \/ Done
    \/ Pack

Spec == Init /\ [][Next]_vars

-----------------------------------------------------------------------------
(***************************************************************************)
(* Types; in particular every annotation names something, as `split` gives *)
(* at least one piece.                                                     *)
(***************************************************************************)
TypeOK ==
    /\ at \in 0..Len(line) /\ phase \in Working \union Ended
    /\ how \in {"fresh", "prior", "cli"} /\ bins \in Nat
    /\ \A i \in DOMAIN r : ToSet(r[i]) \subseteq ToSet(components)
    /\ \A i \in DOMAIN image : Len(image[i].packages) > 0
    /\ DOMAIN lineage = {"started", "bins", "distinct"}

(***************************************************************************)
(* What a build can rely on not to panic (`assert`, `expect`, `panic!` and *)
(* `unwrap` in chunking.rs): every object has an owner, every component    *)
(* an object, no two components share a name, and either the image it      *)
(* follows goes back to a packing of something in no more bins, or there   *)
(* are fewer components than bins, or only such as change in every build,  *)
(* or twice as many others as there are bins for large ones.               *)
(***************************************************************************)
EnoughForBins == Len(components) < bins \/ Regular = <<>> \/ Len(Regular) >= 2 * LimitHs
GoodInput ==
    /\ ~Release.unowned
    /\ how = "cli" => Release.empty = <<>>
    /\ IF how = "prior"
       THEN Distinct(components) /\ lineage.started /\ lineage.distinct /\ lineage.bins <= bins
       ELSE EnoughForBins
NoPanic == phase = "panic" => ~GoodInput

(***************************************************************************)
(* A published image has every object of the release, in exactly one of    *)
(* its layers, and each layer names the components it has the objects of.  *)
(* This is what the assertion on the remainder in process_mapping is for.  *)
(***************************************************************************)
NothingLost ==
    phase = "published" =>
        /\ UNION {image[i].content : i \in DOMAIN image} = Identifiers(Release.components)
        /\ ~Release.unowned
        /\ \A i, j \in DOMAIN image : i # j => image[i].content \intersect image[j].content = {}
        /\ \A i \in DOMAIN image :
              {id[1] : id \in image[i].content} = ToSet(image[i].packages) \ {EmptyName}

(***************************************************************************)
(* A new packing: the reserved bin is empty and last, what changes in      *)
(* every build is alone in the bin before it, each of the large components *)
(* has a bin of its own, the small ones are together, and on the command   *)
(* line every package is in a layer of its own ("1 bin for all ...", and   *)
(* "each package ends in its own layer").                                  *)
(***************************************************************************)
BinOf(c) == {i \in DOMAIN r : c \in ToSet(r[i])}
OwnBins ==
    /\ phase = "packed" /\ how = "cli" => \A i \in DOMAIN r : Len(r[i]) <= 1
    /\ phase = "packed" /\ how = "fresh" /\ Len(components) >= bins =>
        /\ Last(r) = <<>>
        /\ Frequent # <<>> => r[Len(r) - 1] = Frequent
        /\ Regular # <<>> =>
              LET p == Partitions
              IN  /\ \A c \in ToSet(p.high) : \A i \in BinOf(c) : r[i] = <<c>>
                  /\ \A c, d \in ToSet(p.low) : BinOf(c) = BinOf(d)

(***************************************************************************)
(* A build that follows an image keeps every component in the layer that   *)
(* had it before, whatever its version, and puts new ones into the last:   *)
(* a layer none of whose components changed has the same content           *)
(* ("Keeping old package structure").                                      *)
(***************************************************************************)
Successors(content) ==
    {id \in Identifiers(components) : id[1] \in {old[1] : old \in content}}
StableLayers ==
    [][Publish /\ how = "prior" =>
          /\ Len(image') = Len(image)
          /\ \A i \in 1..(Len(image) - 1) : image'[i].content = Successors(image[i].content)]_vars

(***************************************************************************)
(* The layer that the label of export_chunked leads to is the last one of  *)
(* the commit ("This label (mentioned above) points to the last layer that *)
(* is part of the ostree commit").  Layers found by their content must not *)
(* have an equal before them.                                              *)
(***************************************************************************)
OstreeContent == {<<0, 0>>}   \* the metadata of the commit, no component
OciImage ==
    ExportChunked(EmptyImage, [blob |-> OstreeContent, anno |-> NoAnno],
                  [i \in DOMAIN image |-> [blob |-> image[i].content, anno |-> {image[i].packages}]])
LabelNamesLast ==
    phase = "published" => LayerFromDiffid(OciImage) = Len(OciImage.layers)

(***************************************************************************)
(* Merging ends: as long as there are too many bins, a pass over them      *)
(* finds a pair to merge, and merging loses no component.                  *)
(***************************************************************************)
MergingEnds ==
    phase = "merging" =>
        /\ Len(r) > MaxBins => Len(MergePass(r)) < Len(r)
        /\ Cardinality(Places(r)) = Len(Regular)
=============================================================================
