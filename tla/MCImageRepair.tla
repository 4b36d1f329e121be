---------------------------- MODULE MCImageRepair ----------------------------
(***************************************************************************)
(* A base with a file on the second and one on the third level; derived    *)
(* layers that add a directory of their own, or replace a file of the base *)
(* (and share a directory with it).                                        *)
(***************************************************************************)
EXTENDS ImageRepair

f == <<"usr", "f">>
h == <<"usr", "d", "h">>
x == <<"opt", "x">>

SomeBase == f :> "o1" @@ h :> "o2"
SomeDerived == {<<>>, x :> "o3", f :> "o3"}

(***************************************************************************)
(* No two numbers agree in 32 bits; two of the base agree; two larger ones *)
(* agree, alone and beside a collision with a smaller one.                 *)
(***************************************************************************)
Numbered(a, b, c) == "o1" :> a @@ "o2" :> b @@ "o3" :> c
SomeInodes ==
    {Numbered(<<0, 1>>, <<0, 2>>, <<1, 3>>), Numbered(<<0, 1>>, <<1, 1>>, <<0, 3>>),
     Numbered(<<1, 1>>, <<0, 2>>, <<2, 1>>), Numbered(<<0, 1>>, <<1, 1>>, <<2, 1>>)}

\* No action and no property tells one image reference from another.
ImageSymmetry == Permutations(Images)
=============================================================================
