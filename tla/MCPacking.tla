------------------------------ MODULE MCPacking ------------------------------
(***************************************************************************)
(* Releases for Packing: one build of every small release over a few sizes *)
(* and frequencies, and histories of three releases that add, remove,      *)
(* update and duplicate components or own their objects badly.             *)
(***************************************************************************)
EXTENDS Packing

CONSTANTS Sizes, Freqs, MaxComponents

MCBinSizes == {3, 4, 5, 7}

Rel(cs) == [components |-> cs, empty |-> <<>>, unowned |-> FALSE]
Pkg(n, v, s, f) == [name |-> n, version |-> v, size |-> s, freq |-> f]

(***************************************************************************)
(* Components are numbered by descending size and frequency: names make no *)
(* difference to a first packing, apart from the order at equal size.      *)
(***************************************************************************)
Kinds == Sizes \X Freqs
NotAfter(a, b) == a[1] > b[1] \/ (a[1] = b[1] /\ a[2] >= b[2])
KindSeqs[n \in Nat] ==
    IF n = 0 THEN {<<>>}
    ELSE LET shorter == KindSeqs[n - 1]
         IN  shorter \union
                 UNION {{Append(k, x) : x \in {x \in Kinds : k = <<>> \/ NotAfter(Last(k), x)}} :
                           k \in {s \in shorter : Len(s) = n - 1}}
Single ==
    {Rel([i \in DOMAIN k |-> Pkg(i, 0, k[i][1], k[i][2])]) :
        k \in KindSeqs[MaxComponents]}

Start == Rel(<<Pkg(1, 0, 20, MaxFreq), Pkg(2, 0, 9, 1), Pkg(3, 0, 4, 1), Pkg(4, 0, 1, 7)>>)

Edits(rel) ==
    LET cs == rel.components
        with(new) == [rel EXCEPT !.components = new]
        removed == {with(RemoveAt(cs, i)) : i \in DOMAIN cs}
        updated == {with([cs EXCEPT ![i].version = @ + 2]) : i \in DOMAIN cs}
        added == {with(Append(cs, Pkg(Len(cs) + 2, 0, 6, 1)))}
        doubled == {with(InsertAt(cs, 3, [cs[2] EXCEPT !.version = @ + 1])) :
                       i \in {2} \intersect DOMAIN cs}
        owned == {[rel EXCEPT !.unowned = TRUE], [rel EXCEPT !.empty = <<Pkg(9, 9, 0, 1)>>]}
    IN  {e \in removed \union updated \union added \union doubled \union owned : IsRelease(e)}

Histories == UNION {UNION {{<<a, b, c>> : c \in Edits(b)} : b \in Edits(a)} :
                       a \in {Start, Rel(<<>>)}}

(***************************************************************************)
(* One component is removed between two builds.                            *)
(***************************************************************************)
Removals == {<<Start, [Start EXCEPT !.components = RemoveAt(@, i)]>> : i \in 1..4}

MCLines == {<<s>> : s \in Single} \union Histories
=============================================================================
