---------------------------- MODULE MCImageStore ----------------------------
(***************************************************************************)
(* Small instances of ImageStore.                                          *)
(*                                                                         *)
(* A base in two layers alone (E) and with a layer on top (F), so that     *)
(* they share their base; a base in one layer (S); and two bases that      *)
(* share a chunk and a derived layer (C and F).                            *)
(***************************************************************************)
EXTENDS ImageStore

LayoutOf(m) ==
    CASE m = "C" -> [base |-> "b2", chunks |-> <<"c1">>, derived |-> <<"d1">>]
      [] m = "E" -> [base |-> "b1", chunks |-> <<"c1">>, derived |-> <<>>]
      [] m = "F" -> [base |-> "b1", chunks |-> <<"c1">>, derived |-> <<"d1">>]
      [] m = "S" -> [base |-> "b1", chunks |-> <<>>, derived |-> <<>>]

LayoutCF == [m \in {"C", "F"} |-> LayoutOf(m)]
ImageIdCF == [m \in {"C", "F"} |-> m]
LayoutEF == [m \in {"E", "F"} |-> LayoutOf(m)]
ImageIdEF == [m \in {"E", "F"} |-> m]
LayoutS == [m \in {"S"} |-> LayoutOf(m)]
ImageIdS == [m \in {"S"} |-> m]

Request(op, i) ==
    [op |-> op, img |-> i, target |-> i, imgs |-> {}, noref |-> FALSE, gc |-> TRUE,
     noclean |-> FALSE, writeref |-> FALSE]

(***************************************************************************)
(* Every operation.  i1 is pulled, checked and copied; i2 is deployed, and *)
(* i1 is also deployed under the reference i2 and not cleaned up after.    *)
(***************************************************************************)
SerialRequests ==
    {Request("pull", "i1"), Request("check", "i1"), Request("copy", "i1"),
     Request("deploy", "i2"),
     [Request("deploy", "i1") EXCEPT !.target = "i2", !.noclean = TRUE],
     [Request("unencapsulate", "i1") EXCEPT !.writeref = TRUE],
     [Request("remove", "i1") EXCEPT !.imgs = {"i1", "i2"}],
     Request("prune_layers", "i1"), Request("prune_images", "i1"), Request("prune_full", "i1")}

(***************************************************************************)
(* Overlapping operations: an import with its deployment, and a prune that *)
(* removes images, collects layers and deletes objects under the lock.     *)
(***************************************************************************)
RaceRequests == {Request("deploy", "i1"), Request("prune_full", "i1")}

(***************************************************************************)
(* The run that refutes a sentence of the documentation.                   *)
(***************************************************************************)
NorefRequests == {[Request("deploy", "i1") EXCEPT !.noref = TRUE]}
=============================================================================
